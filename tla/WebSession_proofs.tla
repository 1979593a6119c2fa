-------------------------- MODULE WebSession_proofs --------------------------
(***************************************************************************)
(* What holds of the browser's sign-ins for any number of users, tabs,     *)
(* flows and sessions.  TypeInv says which fields a waiting handler has;   *)
(* QuietInv that no handler signs in behind a completed logout; RedeemInv  *)
(* that, while nothing is spoilt, a closed session in the cookie is about  *)
(* to be replaced by an open one.                                          *)
(***************************************************************************)
EXTENDS WebSession, TLAPS

\* A sign-in that was sent names its user, and an answer that the page takes a
\* token from has one.
FieldsInv ==
  \A f \in Flows : flow[f] # None =>
    /\ flow[f].step \in {"login", "passkey", "register"} /\ flow[f].answer = "none" =>
         flow[f].user # None
    /\ flow[f].step \in SignIns \cup {"profile"} /\ flow[f].answer = "ok" =>
         flow[f].token # None

TypeInv == TypeOK /\ FieldsInv

Steps == SignIns \cup Changes \cup {"profile", "settings", "logout", "sessions"}
Ops == SignIns \cup Changes \cup {"refetch", "logout"}
-----------------------------------------------------------------------------
(* Records.                                                                  *)

\* What the assumption says of None, and of tokens and flows.
LEMMA Records ==
  /\ None \notin Users /\ None \notin Sessions
  /\ \A k \in Token : k # None /\ k.user \in Users /\ k.session \in Sessions \cup {None}
  /\ \A r \in Flow : /\ r # None /\ r.tab \in Tabs /\ r.op \in Ops /\ r.step \in Steps
                     /\ r.user \in Users \cup {None} /\ r.bearer \in Token \cup {None}
                     /\ r.cookie \in Sessions \cup {None} /\ r.token \in Token \cup {None}
                     /\ r.answer \in {"none", "ok", "unauthorized", "failed"}
BY BrowserAssumption DEF Flow, Token, Ops, Steps

\* A request is a flow without an answer.
LEMMA RequestFlow ==
  ASSUME TypeOK, NEW f \in Flows, NEW t \in Tabs, NEW op \in Ops, NEW step \in Steps,
         NEW u \in Users \cup {None}, NEW b \in Token \cup {None}
  PROVE  LET r == Request(f, t, op, step, u, b) IN
         /\ r \in Flow
         /\ r.tab = t /\ r.op = op /\ r.step = step /\ r.user = u
         /\ r.answer = "none" /\ r.token = None
<1>1. (step = "logout" => ~ Busy(f)) \in BOOLEAN
  OBVIOUS
<1> QED BY <1>1 DEF Request, Flow, Ops, Steps, TypeOK

\* An answer changes nothing of a flow but what came with it.
LEMMA AnswerFlow ==
  ASSUME TypeOK, NEW f \in Flows, flow[f] # None,
         NEW a \in {"none", "ok", "unauthorized", "failed"}, NEW k \in Token \cup {None},
         Answer(f, a, k)
  PROVE  /\ flow' \in [Flows -> Flow \cup {None}]
         /\ \A g \in Flows \ {f} : flow'[g] = flow[g]
         /\ flow'[f] # None /\ flow'[f].tab = flow[f].tab /\ flow'[f].op = flow[f].op
         /\ flow'[f].step = flow[f].step /\ flow'[f].alone = flow[f].alone
         /\ flow'[f].answer = a /\ flow'[f].token = k
<1> DEFINE r == [flow[f] EXCEPT !.answer = a, !.token = k, !.user = None,
                                !.bearer = None, !.cookie = None]
<1>1. flow[f] \in Flow
  BY DEF TypeOK
<1>2. r \in Flow
  BY <1>1 DEF Flow
<1>3. flow' = [flow EXCEPT ![f] = r]
  BY DEF Answer
<1>4. /\ r.tab = flow[f].tab /\ r.op = flow[f].op /\ r.step = flow[f].step
      /\ r.alone = flow[f].alone /\ r.answer = a /\ r.token = k
  BY <1>1 DEF Flow
<1> HIDE DEF r
<1> QED BY <1>2, <1>3, <1>4, Records DEF TypeOK

\* Going to a route changes the route only.
LEMMA GoTab ==
  ASSUME NEW s \in Tab, NEW to \in Route
  PROVE  /\ Go(s, to) \in Tab
         /\ Go(s, to).token = s.token /\ Go(s, to).requiresTotp = s.requiresTotp
         /\ Go(s, to).user = s.user /\ Go(s, to).left = s.left
         /\ Go(s, to).route = "app" => IsAuthenticated(s)
BY DEF Go, Tab, Route

\* Signing out keeps the route.
LEMMA SignedOutTab ==
  ASSUME NEW s \in Tab
  PROVE  /\ SignedOut(s) \in Tab
         /\ SignedOut(s).token = None /\ SignedOut(s).left = s.left
         /\ SignedOut(s).route = s.route
BY DEF SignedOut, Tab

\* A page that begins with nothing.
LEMMA NewTabTab ==
  ASSUME NEW to \in Route
  PROVE  /\ NewTab(to) \in Tab /\ NewTab(to).token = None
         /\ ~ NewTab(to).left /\ NewTab(to).route = to
BY DEF NewTab, Tab
-----------------------------------------------------------------------------
(* Steps.                                                                    *)

SigningIn(f) == flow[f] # None /\ flow[f].step \in SignIns

\* The answer that flow f waits to apply has a cookie.
Brings(f) ==
  SigningIn(f) /\ flow[f].answer = "ok" /\ flow[f].token.session # None

\* Flow f ends, or waits for an answer to something that is no sign-in; a logout
\* is alone only if nobody else signs in.
MovesOn(f) ==
  /\ flow[f] # None /\ flow' \in [Flows -> Flow \cup {None}]
  /\ \A g \in Flows \ {f} : flow'[g] = flow[g]
  /\ flow'[f] # None =>
       /\ flow'[f].step \notin SignIns /\ flow'[f].answer = "none"
       /\ flow'[f].step = "logout" /\ flow'[f].alone => \A g \in Flows \ {f} : ~ SigningIn(g)
  /\ UNCHANGED <<server, spoilt>>

\* What the page makes of an answer: its cookie is kept, and only a completed
\* logout that was alone leaves.
Shows(f) ==
  /\ tab' \in [Tabs -> Tab]
  /\ \A t \in Tabs : tab'[t].left =>
       tab[t].left \/ (flow[f].step = "logout" /\ flow[f].alone /\ cookie' = None)
  /\ cookie' \in {cookie, None} \/ (Brings(f) /\ cookie' = flow[f].token.session)
  /\ Brings(f) => cookie' = flow[f].token.session
  /\ UNCHANGED inputs

\* A handler goes on to a request that is no sign-in.
LEMMA ContinueMoves ==
  ASSUME TypeInv, NEW f \in Flows, flow[f] # None, NEW s \in Tab,
         NEW step \in Steps \ SignIns, Continue(f, s, step), UNCHANGED <<server, spoilt>>
  PROVE  /\ MovesOn(f)
         /\ tab' = [tab EXCEPT ![flow[f].tab] = s] /\ flow[f].tab \in Tabs
<1> DEFINE r == Request(f, flow[f].tab, flow[f].op, step, None, s.token)
<1>1. flow[f] \in Flow /\ s.token \in Token \cup {None}
  BY DEF TypeInv, TypeOK, Tab
<1>2. r \in Flow /\ r.step = step /\ r.answer = "none"
  BY <1>1, Records, RequestFlow DEF TypeInv
<1>3. step = "logout" /\ r.alone => \A g \in Flows \ {f} : ~ SigningIn(g)
  BY DEF Request, Busy, Waiting, SigningIn
<1>4. flow' = [flow EXCEPT ![f] = r] /\ tab' = [tab EXCEPT ![flow[f].tab] = s]
  BY DEF Continue
<1> HIDE DEF r
<1> QED BY <1>1, <1>2, <1>3, <1>4, Records DEF MovesOn, TypeInv, TypeOK

\* A handler ends.
LEMMA EndMoves ==
  ASSUME TypeInv, NEW f \in Flows, flow[f] # None, NEW s \in Tab,
         End(f, s), UNCHANGED <<server, spoilt>>
  PROVE  /\ MovesOn(f)
         /\ tab' = [tab EXCEPT ![flow[f].tab] = s] /\ flow[f].tab \in Tabs
<1>1. flow[f] \in Flow /\ tab' = [tab EXCEPT ![flow[f].tab] = s]
  BY DEF TypeInv, TypeOK, End
<1>2. flow' = [flow EXCEPT ![f] = None]
  BY DEF End
<1> QED BY <1>1, <1>2, Records DEF MovesOn, TypeInv, TypeOK

\* Where the page writes s, and s has not left, nobody leaves.
LEMMA WriteTab ==
  ASSUME TypeInv, PartialStaysOut, NEW t \in Tabs, NEW s \in Tab,
         tab' = [tab EXCEPT ![t] = s],
         IsAuthenticated(s) => Verified(s.token),
         s.route = "app" => s.token = None \/ Verified(s.token)
  PROVE  /\ tab' \in [Tabs -> Tab] /\ PartialStaysOut'
         /\ \A u \in Tabs : tab'[u].left => IF u = t THEN s.left ELSE tab[u].left
<1>1. tab' \in [Tabs -> Tab] /\ \A u \in Tabs : tab'[u] = IF u = t THEN s ELSE tab[u]
  BY DEF TypeInv, TypeOK
<1> QED BY <1>1 DEF PartialStaysOut, IsAuthenticated, Verified

\* What a page holds is fit to be written, and so is what going or signing out
\* makes of it.
LEMMA Fit ==
  ASSUME PartialStaysOut, NEW t \in Tabs, tab[t] \in Tab, NEW to \in Route
  PROVE  LET Fits(s) == /\ IsAuthenticated(s) => Verified(s.token)
                        /\ s.route = "app" => s.token = None \/ Verified(s.token) IN
         /\ Fits(tab[t]) /\ Fits(SignedOut(tab[t])) /\ Fits(Go(tab[t], to))
<1>1. /\ IsAuthenticated(tab[t]) => Verified(tab[t].token)
      /\ tab[t].route = "app" => tab[t].token = None \/ Verified(tab[t].token)
  BY DEF PartialStaysOut
<1>2. ~ IsAuthenticated(SignedOut(tab[t])) /\ SignedOut(tab[t]).token = None
  BY SignedOutTab DEF IsAuthenticated
<1>3. /\ Go(tab[t], to).token = tab[t].token
      /\ Go(tab[t], to).requiresTotp = tab[t].requiresTotp
      /\ Go(tab[t], to).route = "app" => IsAuthenticated(tab[t])
  BY GoTab
<1> QED BY <1>1, <1>2, <1>3 DEF IsAuthenticated
-----------------------------------------------------------------------------
(* What each answer does to its page.                                        *)

Applies(f) == MovesOn(f) /\ Shows(f) /\ PartialStaysOut'

\* The end of a sign-in: half a login goes to the second factor and nowhere else.
LEMMA ApplySignInApplies ==
  ASSUME TypeInv, PartialStaysOut, NEW f \in Flows, ApplySignIn(f)
  PROVE  Applies(f)
<1> DEFINE t == flow[f].tab
           k == flow[f].token
           s == [tab[t] EXCEPT !.token = k, !.requiresTotp = k.session = None]
<1>1. /\ flow[f] # None /\ flow[f].step \in SignIns /\ flow[f].answer = "ok"
      /\ flow[f] \in Flow /\ t \in Tabs /\ tab[t] \in Tab
  BY Records DEF ApplySignIn, Gets, TypeInv, TypeOK
<1>2. k \in Token /\ k # None
  BY <1>1, Records DEF TypeInv, FieldsInv
<1>3. /\ s \in Tab /\ s.token = k /\ s.requiresTotp = (k.session = None)
      /\ s.left = tab[t].left /\ s.route = tab[t].route
  BY <1>1, <1>2 DEF Tab
<1>4. UNCHANGED <<server, spoilt, inputs>> /\ cookie' = CookieOf(f)
  BY DEF ApplySignIn
<1>5. cookie' \in {cookie, None} \/ (Brings(f) /\ cookie' = k.session)
  BY <1>1, <1>4 DEF CookieOf, Brings, SigningIn
<1>6. Brings(f) => cookie' = k.session
  BY <1>4 DEF CookieOf, Brings
<1>7. CASE k.session = None
  <2>1. End(f, Go(s, "verify"))
    BY <1>7 DEF ApplySignIn, At
  <2>2. Go(s, "verify") \in Tab /\ Go(s, "verify").left = tab[t].left
        /\ Go(s, "verify").requiresTotp
    BY <1>3, <1>7, GoTab DEF Route
  <2>3. Go(s, "verify").route = "verify"
    BY <1>3 DEF Go, Tab
  <2> HIDE DEF s
  <2>4. MovesOn(f) /\ tab' = [tab EXCEPT ![t] = Go(s, "verify")]
    BY <1>1, <1>4, <2>1, <2>2, EndMoves
  <2>5. /\ tab' \in [Tabs -> Tab] /\ PartialStaysOut'
        /\ \A u \in Tabs : tab'[u].left => tab[u].left
    BY <1>1, <2>2, <2>3, <2>4, WriteTab DEF IsAuthenticated
  <2> QED BY <1>4, <1>5, <1>6, <2>4, <2>5 DEF Applies, Shows
<1>8. CASE k.session # None
  <2>1. PICK step \in {"settings", "profile"} : Continue(f, s, step)
    BY <1>8 DEF ApplySignIn, At
  <2>2. Verified(s.token)
    BY <1>2, <1>3, <1>8 DEF Verified
  <2> HIDE DEF s
  <2>3. step \in Steps \ SignIns
    BY DEF Steps, SignIns
  <2>4. MovesOn(f) /\ tab' = [tab EXCEPT ![t] = s]
    BY <1>1, <1>3, <1>4, <2>1, <2>3, ContinueMoves
  <2>5. /\ tab' \in [Tabs -> Tab] /\ PartialStaysOut'
        /\ \A u \in Tabs : tab'[u].left => tab[u].left
    BY <1>1, <1>3, <2>2, <2>4, WriteTab
  <2> QED BY <1>4, <1>5, <1>6, <2>4, <2>5 DEF Applies, Shows
<1> QED BY <1>7, <1>8

\* What the other answers have in common: the cookie stays, the page fits.
LEMMA WriteApplies ==
  ASSUME TypeInv, PartialStaysOut, NEW f \in Flows, flow[f] # None, ~ Brings(f),
         NEW s \in Tab,
         IsAuthenticated(s) => Verified(s.token),
         s.route = "app" => s.token = None \/ Verified(s.token),
         s.left => At(f).left \/ (flow[f].step = "logout" /\ flow[f].alone /\ cookie' = None),
         \/ End(f, s)
         \/ \E step \in Steps \ SignIns : Continue(f, s, step),
         cookie' \in {cookie, None}, UNCHANGED <<server, spoilt, inputs>>
  PROVE  Applies(f)
<1>1. MovesOn(f) /\ tab' = [tab EXCEPT ![flow[f].tab] = s] /\ flow[f].tab \in Tabs
  BY EndMoves, ContinueMoves
<1>2. /\ tab' \in [Tabs -> Tab] /\ PartialStaysOut'
      /\ \A u \in Tabs : tab'[u].left => IF u = flow[f].tab THEN s.left ELSE tab[u].left
  BY <1>1, WriteTab
<1> QED BY <1>1, <1>2 DEF Applies, Shows, At

\* A page whose flow waits.
LEMMA AtTab ==
  ASSUME TypeInv, PartialStaysOut, NEW f \in Flows, flow[f] # None, NEW to \in Route
  PROVE  /\ flow[f] \in Flow /\ flow[f].tab \in Tabs /\ At(f) \in Tab
         /\ LET Fits(s) == /\ s \in Tab /\ (s.left => At(f).left)
                           /\ IsAuthenticated(s) => Verified(s.token)
                           /\ s.route = "app" => s.token = None \/ Verified(s.token) IN
            Fits(At(f)) /\ Fits(SignedOut(At(f))) /\ Fits(Go(At(f), to))
<1>1. flow[f] \in Flow /\ flow[f].tab \in Tabs /\ At(f) \in Tab
  BY Records DEF TypeInv, TypeOK, At
<1> QED BY <1>1, Fit, GoTab, SignedOutTab DEF At

\* A sign-in that fails shows an error.
LEMMA SignInFailsApplies ==
  ASSUME TypeInv, PartialStaysOut, NEW f \in Flows, SignInFails(f)
  PROVE  Applies(f)
<1>1. /\ flow[f] # None /\ ~ Brings(f) /\ End(f, At(f)) /\ UNCHANGED <<server, cookie, spoilt, inputs>>
  BY DEF SignInFails, Gets, Brings, Ends, At
<1> QED BY <1>1, AtTab, WriteApplies DEF Route

\* A profile gives the page its user.
LEMMA ApplyProfileApplies ==
  ASSUME TypeInv, PartialStaysOut, NEW f \in Flows, ApplyProfile(f)
  PROVE  Applies(f)
<1> DEFINE s == [At(f) EXCEPT !.user = flow[f].token.user]
<1>1. /\ flow[f] # None /\ ~ Brings(f) /\ Continue(f, s, "settings")
      /\ flow[f].step = "profile" /\ flow[f].answer = "ok"
      /\ UNCHANGED <<server, cookie, spoilt, inputs>>
  BY DEF ApplyProfile, Gets, Brings, SigningIn, SignIns
<1>2. flow[f].token \in Token
  BY <1>1, Records DEF TypeInv, TypeOK, FieldsInv
<1>3. /\ s \in Tab /\ s.left = At(f).left /\ s.token = At(f).token
      /\ s.requiresTotp = At(f).requiresTotp /\ s.route = At(f).route
  BY <1>1, <1>2, AtTab, Records DEF Tab, Route
<1>4. /\ IsAuthenticated(s) => Verified(s.token)
      /\ s.route = "app" => s.token = None \/ Verified(s.token)
  BY <1>1, <1>3, AtTab DEF IsAuthenticated, Route
<1>5. "settings" \in Steps \ SignIns
  BY DEF Steps, SignIns
<1> HIDE DEF s
<1> QED BY <1>1, <1>3, <1>4, <1>5, WriteApplies

\* On to the dashboard, if the token is a whole one.
LEMMA SettleApplies ==
  ASSUME TypeInv, PartialStaysOut, NEW f \in Flows, Settle(f)
  PROVE  Applies(f)
<1>1. /\ flow[f] # None /\ ~ Brings(f) /\ End(f, Go(At(f), "app"))
      /\ UNCHANGED <<server, cookie, spoilt, inputs>>
  BY DEF Settle, Gets, Brings, SigningIn, SignIns
<1>2. "app" \in Route
  BY DEF Route
<1> QED BY <1>1, <1>2, AtTab, WriteApplies

\* Without its profile a login is given up.
LEMMA ProfileFailsApplies ==
  ASSUME TypeInv, PartialStaysOut, NEW f \in Flows, ProfileFails(f)
  PROVE  Applies(f)
<1>1. /\ flow[f] # None /\ ~ Brings(f) /\ UNCHANGED <<server, cookie, spoilt, inputs>>
      /\ Continue(f, SignedOut(At(f)), "logout") \/ End(f, At(f))
  BY DEF ProfileFails, Gets, Brings, SigningIn, SignIns
<1>2. "logout" \in Steps \ SignIns /\ "app" \in Route
  BY DEF Steps, SignIns, Route
<1> QED BY <1>1, <1>2, AtTab, WriteApplies

\* The profile of a page that had none.
LEMMA ApplyRefetchApplies ==
  ASSUME TypeInv, PartialStaysOut, NEW f \in Flows, ApplyRefetch(f)
  PROVE  Applies(f)
<1> DEFINE s == [At(f) EXCEPT !.user = flow[f].token.user]
<1>1. /\ flow[f] # None /\ ~ Brings(f) /\ flow[f].step = "profile"
      /\ UNCHANGED <<server, cookie, spoilt, inputs>>
  BY DEF ApplyRefetch, Gets, Brings, SigningIn, SignIns
<1>2. "app" \in Route
  BY DEF Route
<1>3. CASE flow[f].answer = "ok" /\ End(f, s)
  <2>1. flow[f].token \in Token
    BY <1>1, <1>3, Records DEF TypeInv, TypeOK, FieldsInv
  <2>2. /\ s \in Tab /\ s.left = At(f).left /\ s.token = At(f).token
        /\ s.requiresTotp = At(f).requiresTotp /\ s.route = At(f).route
    BY <1>1, <1>2, <2>1, AtTab, Records DEF Tab
  <2>3. /\ IsAuthenticated(s) => Verified(s.token)
        /\ s.route = "app" => s.token = None \/ Verified(s.token)
    BY <1>1, <1>2, <2>2, AtTab DEF IsAuthenticated
  <2> HIDE DEF s
  <2> QED BY <1>1, <1>3, <2>2, <2>3, WriteApplies
<1>4. CASE End(f, SignedOut(At(f))) \/ End(f, At(f))
  BY <1>1, <1>2, <1>4, AtTab, WriteApplies
<1> QED BY <1>3, <1>4 DEF ApplyRefetch

\* A logout is answered: the only step that leaves.
LEMMA LeaveForLoginApplies ==
  ASSUME TypeInv, PartialStaysOut, NEW f \in Flows, LeaveForLogin(f)
  PROVE  Applies(f)
<1> DEFINE l == flow[f].alone /\ flow[f].answer # "failed"
           g == Go(At(f), "login")
           s == [g EXCEPT !.left = l]
<1>1. /\ flow[f] # None /\ ~ Brings(f) /\ flow[f].step = "logout"
      /\ flow[f].answer \in {"ok", "failed"} /\ End(f, s)
      /\ cookie' = IF flow[f].answer = "ok" THEN None ELSE cookie
      /\ UNCHANGED <<server, spoilt, inputs>>
  BY DEF LeaveForLogin, LogoutAnswered, Gets, Brings, SigningIn, SignIns
<1>2. /\ g \in Tab /\ IsAuthenticated(g) => Verified(g.token)
      /\ g.route = "app" => g.token = None \/ Verified(g.token)
  BY <1>1, AtTab, GoTab DEF Route
<1>3. g \in Tab
  BY <1>1, AtTab, GoTab DEF Route
<1>4. l \in BOOLEAN
  BY <1>1, AtTab DEF Flow, Route
<1>5. /\ s \in Tab /\ s.left = l /\ s.token = g.token
      /\ s.requiresTotp = g.requiresTotp /\ s.route = g.route
  <2> HIDE DEF g, l
  <2> QED BY <1>3, <1>4 DEF Tab
<1>6. /\ IsAuthenticated(s) => Verified(s.token)
      /\ s.route = "app" => s.token = None \/ Verified(s.token)
  BY <1>1, <1>2, <1>5, AtTab DEF IsAuthenticated, Route
<1>7. s.left => flow[f].step = "logout" /\ flow[f].alone /\ cookie' = None
  BY <1>1, <1>5
<1> HIDE DEF s, g, l
<1> QED BY <1>1, <1>5, <1>6, <1>7, WriteApplies

\* A change that was answered signs the page out, or not.
LEMMA ApplyChangeApplies ==
  ASSUME TypeInv, PartialStaysOut, NEW f \in Flows, ApplyChange(f)
  PROVE  Applies(f)
<1>1. /\ flow[f] # None /\ ~ Brings(f) /\ UNCHANGED <<server, cookie, spoilt, inputs>>
      /\ \/ Continue(f, SignedOut(At(f)), "logout") \/ Continue(f, At(f), "sessions")
         \/ End(f, At(f))
  BY DEF ApplyChange, Gets, Brings, SigningIn, SignIns, Changes
<1>2. "logout" \in Steps \ SignIns /\ "sessions" \in Steps \ SignIns /\ "app" \in Route
  BY DEF Steps, SignIns, Changes, Route
<1> QED BY <1>1, <1>2, AtTab, WriteApplies

\* The page is mounted at any route, through the guard.
LEMMA MountApplies ==
  ASSUME TypeInv, PartialStaysOut, NEW f \in Flows, Mount(f)
  PROVE  Applies(f)
<1>1. /\ flow[f] # None /\ ~ Brings(f) /\ UNCHANGED <<server, cookie, spoilt, inputs>>
  BY DEF Mount, Gets, Brings, SigningIn, SignIns
<1>2. PICK to \in Route \ {"closed", "boot"} :
        LET s == Go(At(f), to) IN
        IF s.token # None /\ s.user = None
        THEN /\ flow' = [flow EXCEPT ![f] =
                  Request(f, @.tab, "refetch", "profile", None, s.token)]
             /\ tab' = [tab EXCEPT ![flow[f].tab] = s]
        ELSE End(f, s)
  BY DEF Mount
<1> DEFINE s == Go(At(f), to)
           r == Request(f, flow[f].tab, "refetch", "profile", None, s.token)
<1>3. /\ flow[f] \in Flow /\ flow[f].tab \in Tabs /\ s \in Tab /\ (s.left => At(f).left)
      /\ IsAuthenticated(s) => Verified(s.token)
      /\ s.route = "app" => s.token = None \/ Verified(s.token)
  BY <1>1, AtTab
<1>4. CASE flow' = [flow EXCEPT ![f] = r] /\ tab' = [tab EXCEPT ![flow[f].tab] = s]
  <2>1. "refetch" \in Ops /\ "profile" \in Steps /\ s.token \in Token \cup {None}
    BY <1>3 DEF Ops, Steps, Tab
  <2> HIDE DEF s
  <2>2. r \in Flow /\ r.step = "profile" /\ r.answer = "none"
    BY <1>3, <2>1, Records, RequestFlow DEF TypeInv
  <2> HIDE DEF r
  <2>3. MovesOn(f)
    BY <1>1, <1>4, <2>2, Records DEF MovesOn, TypeInv, TypeOK, SignIns
  <2>4. /\ tab' \in [Tabs -> Tab] /\ PartialStaysOut'
        /\ \A u \in Tabs : tab'[u].left => IF u = flow[f].tab THEN s.left ELSE tab[u].left
    BY <1>3, <1>4, WriteTab
  <2> QED BY <1>1, <1>3, <2>3, <2>4 DEF Applies, Shows, At
<1>5. CASE End(f, s)
  <2> HIDE DEF s
  <2> QED BY <1>1, <1>3, <1>5, WriteApplies
<1> QED BY <1>2, <1>4, <1>5

\* Whatever answer it is.
LEMMA ApplyApplies ==
  ASSUME TypeInv, PartialStaysOut, NEW f \in Flows, Apply(f)
  PROVE  Applies(f)
BY ApplySignInApplies, SignInFailsApplies, ApplyProfileApplies, SettleApplies,
   ProfileFailsApplies, MountApplies, ApplyRefetchApplies, LeaveForLoginApplies,
   ApplyChangeApplies DEF Apply
-----------------------------------------------------------------------------
(* What the server and the network do.                                       *)

\* A call is answered, or lost: only the answer is new.
Answers(f) ==
  /\ flow[f] # None /\ flow[f].step # "settings"
  /\ flow' \in [Flows -> Flow \cup {None}]
  /\ \A g \in Flows \ {f} : flow'[g] = flow[g]
  /\ flow'[f] # None
  /\ flow'[f].step = flow[f].step /\ flow'[f].alone = flow[f].alone
  /\ flow'[f].answer # "none"
  /\ flow'[f].step \in SignIns \cup {"profile"} /\ flow'[f].answer = "ok" =>
       flow'[f].token # None
  /\ UNCHANGED <<cookie, tab, inputs>>

\* It opens the session n of the answer for flow f, if any, and ends those of S.
Opens(f, S) ==
  /\ session' \in [Sessions -> Users \cup {None}]
  /\ Brings(f)' => session'[flow'[f].token.session] # None
  /\ \A n \in Sessions \ S : session[n] # None => session'[n] # None
  /\ \A n \in Sessions : session[n] = None /\ session'[n] # None => SigningIn(f)

\* Every call of the server, and a loss: while nothing is spoilt, sessions of the
\* browser end only where the answer brings the next one.
Serves(f) ==
  /\ Answers(f)
  /\ totp' \subseteq Users
  /\ spoilt' \in BOOLEAN
  /\ ~ spoilt' => ~ spoilt /\ flow[f].answer = "none"
  /\ \E S : Opens(f, S) /\ (~ spoilt' => S \cap Held \subseteq {None} \/ Brings(f)')

\* A session is opened for a user, and those of S are ended.
LEMMA OpenForOpens ==
  ASSUME TypeInv, NEW f \in Flows, SigningIn(f), NEW u \in Users, NEW S, OpenFor(f, u, S)
  PROVE  /\ Opens(f, S) /\ Brings(f)'
         /\ flow' \in [Flows -> Flow \cup {None}]
         /\ \A g \in Flows \ {f} : flow'[g] = flow[g]
         /\ flow'[f] # None /\ flow'[f].step = flow[f].step
         /\ flow'[f].alone = flow[f].alone /\ flow'[f].answer = "ok" /\ flow'[f].token # None
<1>1. PICK n \in Fresh :
        /\ session' = [m \in Sessions |-> IF m = n THEN u ELSE IF m \in S THEN None ELSE session[m]]
        /\ Answer(f, "ok", [user |-> u, session |-> n])
  BY DEF OpenFor
<1> DEFINE k == [user |-> u, session |-> n]
<1>2. n \in Sessions /\ k \in Token /\ k.session = n /\ k # None
  BY Records DEF Fresh, Token
<1> HIDE DEF k
<1>3. /\ flow' \in [Flows -> Flow \cup {None}]
      /\ \A g \in Flows \ {f} : flow'[g] = flow[g]
      /\ flow'[f] # None /\ flow'[f].step = flow[f].step
      /\ flow'[f].alone = flow[f].alone /\ flow'[f].answer = "ok" /\ flow'[f].token = k
  BY <1>1, <1>2, AnswerFlow DEF TypeInv, SigningIn, k
<1>4. Brings(f)'
  BY <1>2, <1>3, Records DEF Brings, SigningIn
<1>5. Opens(f, S)
  BY <1>1, <1>2, <1>3, Records DEF Opens, TypeInv, TypeOK
<1> QED BY <1>2, <1>3, <1>4, <1>5

\* An answer without a session: the sessions of S end, none is opened.
LEMMA AnswerServes ==
  ASSUME TypeInv, NEW f \in Flows, flow[f] # None, flow[f].step # "settings",
         NEW a \in {"ok", "unauthorized", "failed"}, NEW k \in Token \cup {None}, Answer(f, a, k),
         flow[f].step \in SignIns \cup {"profile"} /\ a = "ok" => k # None,
         flow[f].step \in SignIns /\ a = "ok" => k.session = None,
         NEW S, session' = [n \in Sessions |-> IF n \in S THEN None ELSE session[n]],
         totp' \subseteq Users, spoilt' \in BOOLEAN,
         ~ spoilt' => ~ spoilt /\ flow[f].answer = "none" /\ S \cap Held \subseteq {None},
         UNCHANGED <<cookie, tab, inputs>>
  PROVE  Serves(f)
<1>1. /\ flow' \in [Flows -> Flow \cup {None}]
      /\ \A g \in Flows \ {f} : flow'[g] = flow[g]
      /\ flow'[f] # None /\ flow'[f].step = flow[f].step
      /\ flow'[f].alone = flow[f].alone /\ flow'[f].answer = a /\ flow'[f].token = k
  BY AnswerFlow DEF TypeInv
<1>2. ~ Brings(f)'
  BY <1>1 DEF Brings, SigningIn
<1>3. Opens(f, S)
  BY <1>2, Records DEF Opens, TypeInv, TypeOK
<1>4. Answers(f)
  BY <1>1 DEF Answers
<1> QED BY <1>3, <1>4 DEF Serves

\* With nothing ended the sessions are what they were.
LEMMA EndsNothing ==
  ASSUME TypeInv, NEW f \in Flows, flow[f] # None, flow[f].step # "settings",
         NEW a \in {"ok", "unauthorized", "failed"}, NEW k \in Token \cup {None}, Answer(f, a, k),
         flow[f].step \in SignIns \cup {"profile"} /\ a = "ok" => k # None,
         flow[f].step \in SignIns /\ a = "ok" => k.session = None,
         totp' \subseteq Users, spoilt' \in BOOLEAN,
         ~ spoilt' => ~ spoilt /\ flow[f].answer = "none",
         UNCHANGED <<session, cookie, tab, inputs>>
  PROVE  Serves(f)
<1> DEFINE S == {}
<1>1. session' = [n \in Sessions |-> IF n \in S THEN None ELSE session[n]]
  BY DEF TypeInv, TypeOK
<1>2. ~ spoilt' => ~ spoilt /\ flow[f].answer = "none" /\ S \cap Held \subseteq {None}
  OBVIOUS
<1> HIDE DEF S
<1> QED BY <1>1, <1>2, AnswerServes

\* A request or an answer is lost.
LEMMA LoseServes ==
  ASSUME TypeInv, NEW f \in Flows, Lose(f)
  PROVE  Serves(f)
<1>1. /\ flow[f] # None /\ flow[f].step # "settings" /\ Answer(f, "failed", None)
      /\ totp' \subseteq Users /\ UNCHANGED <<session, cookie, tab, inputs>>
  BY DEF Lose, server, TypeInv, TypeOK
<1>2. spoilt' \in BOOLEAN /\ (~ spoilt' => ~ spoilt /\ flow[f].answer = "none")
  BY DEF Lose
<1> QED BY <1>1, <1>2, EndsNothing

\* A first factor, a passkey or a registration.
LEMMA SignInServes ==
  ASSUME TypeInv, NEW f \in Flows, ServeSignIn(f)
  PROVE  Serves(f)
<1> DEFINE u == flow[f].user
<1>1. /\ flow[f] # None /\ flow[f].step \in {"login", "passkey", "register"}
      /\ flow[f].answer = "none" /\ SigningIn(f)
      /\ UNCHANGED <<totp, cookie, tab, spoilt, inputs>>
  BY DEF ServeSignIn, Arrives, SigningIn, SignIns
<1>2. u \in Users
  BY <1>1, Records DEF TypeInv, TypeOK, FieldsInv
<1>3. totp' \subseteq Users /\ spoilt' \in BOOLEAN /\ (~ spoilt' => ~ spoilt)
  BY <1>1 DEF TypeInv, TypeOK
<1>4. CASE Answer(f, "ok", [user |-> u, session |-> None]) /\ UNCHANGED session
  <2>1. [user |-> u, session |-> None] \in Token
    BY <1>2 DEF Token
  <2>2. [user |-> u, session |-> None].session = None
    OBVIOUS
  <2> QED BY <1>1, <1>3, <1>4, <2>1, <2>2, Records, EndsNothing
<1>5. CASE OpenFor(f, u, {})
  BY <1>1, <1>2, <1>3, <1>5, OpenForOpens DEF Serves, Answers
<1> QED BY <1>4, <1>5 DEF ServeSignIn

\* The second factor.
LEMMA VerifyServes ==
  ASSUME TypeInv, NEW f \in Flows, ServeVerify(f)
  PROVE  Serves(f)
<1>1. /\ flow[f] # None /\ flow[f].step = "verify" /\ flow[f].answer = "none" /\ SigningIn(f)
      /\ flow[f].step # "settings" /\ UNCHANGED <<totp, cookie, tab, spoilt, inputs>>
  BY DEF ServeVerify, Arrives, SigningIn, SignIns
<1>2. totp' \subseteq Users /\ spoilt' \in BOOLEAN /\ (~ spoilt' => ~ spoilt)
  BY <1>1 DEF TypeInv, TypeOK
<1>3. CASE flow[f].bearer # None /\ OpenFor(f, flow[f].bearer.user, {})
  <2>1. flow[f].bearer.user \in Users
    BY <1>1, <1>3, Records DEF TypeInv, TypeOK
  <2> QED BY <1>1, <1>2, <1>3, <2>1, OpenForOpens DEF Serves, Answers
<1>4. CASE Answer(f, "failed", None) /\ UNCHANGED session
  BY <1>1, <1>2, <1>4, EndsNothing
<1> QED BY <1>3, <1>4 DEF ServeVerify

\* Rotation: the session of the cookie that was sent is replaced.
LEMMA RefreshServes ==
  ASSUME TypeInv, NEW f \in Flows, ServeRefresh(f)
  PROVE  Serves(f)
<1> DEFINE n == flow[f].cookie
<1>1. /\ flow[f] # None /\ flow[f].step = "refresh" /\ flow[f].answer = "none" /\ SigningIn(f)
      /\ flow[f].step # "settings" /\ UNCHANGED <<totp, cookie, tab, spoilt, inputs>>
  BY DEF ServeRefresh, Arrives, SigningIn, SignIns
<1>2. totp' \subseteq Users /\ spoilt' \in BOOLEAN /\ (~ spoilt' => ~ spoilt)
  BY <1>1 DEF TypeInv, TypeOK
<1>3. CASE n # None /\ session[n] # None /\ OpenFor(f, session[n], {n})
  <2>1. session[n] \in Users
    BY <1>1, <1>3, Records DEF TypeInv, TypeOK
  <2> QED BY <1>1, <1>2, <1>3, <2>1, OpenForOpens DEF Serves, Answers
<1>4. CASE Answer(f, "failed", None) /\ UNCHANGED session
  BY <1>1, <1>2, <1>4, EndsNothing
<1> QED BY <1>3, <1>4 DEF ServeRefresh

\* The profile.
LEMMA ProfileServes ==
  ASSUME TypeInv, NEW f \in Flows, ServeProfile(f)
  PROVE  Serves(f)
<1>1. /\ flow[f] # None /\ flow[f].step = "profile" /\ flow[f].answer = "none"
      /\ flow[f].step \notin SignIns /\ flow[f].step # "settings"
      /\ UNCHANGED <<totp, session, cookie, tab, spoilt, inputs>>
  BY DEF ServeProfile, Arrives, SignIns, server
<1>2. totp' \subseteq Users /\ spoilt' \in BOOLEAN /\ (~ spoilt' => ~ spoilt)
  BY <1>1 DEF TypeInv, TypeOK
<1>3. flow[f].bearer \in Token \cup {None}
  BY <1>1, Records DEF TypeInv, TypeOK
<1>4. \/ flow[f].bearer # None /\ Answer(f, "ok", flow[f].bearer)
      \/ Answer(f, "failed", None) \/ Answer(f, "unauthorized", None)
  BY DEF ServeProfile, Verified
<1> QED BY <1>1, <1>2, <1>3, <1>4, EndsNothing

\* What ends sessions spoils, if the browser has one of them.
LEMMA OtherServes ==
  ASSUME TypeInv, NEW f \in Flows, ServeOther(f)
  PROVE  Serves(f)
<1> DEFINE b == flow[f].bearer
<1>1. /\ flow[f] # None /\ flow[f].step \in Changes \cup {"logout", "sessions"}
      /\ flow[f].answer = "none" /\ UNCHANGED <<cookie, tab, inputs>>
  BY DEF ServeOther, Arrives
<1>2. flow[f].step \notin SignIns \cup {"profile"} /\ flow[f].step # "settings"
  BY <1>1 DEF SignIns, Changes
<1>3. PICK S \in Ended(f) :
        /\ session' = [n \in Sessions |-> IF n \in S THEN None ELSE session[n]]
        /\ spoilt' = (spoilt \/ (S \cap Held) \ {None} # {})
  BY DEF ServeOther
<1>4. spoilt' \in BOOLEAN /\ (~ spoilt' => ~ spoilt /\ S \cap Held \subseteq {None})
  <2>1. spoilt' <=> spoilt \/ (S \cap Held) \ {None} # {}
    BY <1>3
  <2>2. spoilt' \in BOOLEAN
    BY <1>3 DEF TypeInv, TypeOK
  <2> QED BY <2>1, <2>2
<1>5. b \in Token \cup {None}
  BY <1>1, Records DEF TypeInv, TypeOK
<1>6. totp' \subseteq Users /\ \E a \in {"ok", "failed"}, k \in {b, None} : Answer(f, a, k)
  <2>1. CASE flow[f].step = "logout" \/ Verified(b)
    BY <1>1, <1>5, <2>1, Records DEF ServeOther, Verified, TypeInv, TypeOK
  <2>2. CASE ~ (flow[f].step = "logout" \/ Verified(b))
    BY <2>2 DEF ServeOther, TypeInv, TypeOK
  <2> QED BY <2>1, <2>2
<1>7. PICK a \in {"ok", "failed"}, k \in {b, None} : Answer(f, a, k)
  BY <1>6
<1> QED BY <1>1, <1>2, <1>3, <1>4, <1>5, <1>6, <1>7, AnswerServes

\* Whatever call it is.
LEMMA ServeServes ==
  ASSUME TypeInv, NEW f \in Flows, Serve(f) \/ Lose(f)
  PROVE  Serves(f)
BY SignInServes, VerifyServes, RefreshServes, ProfileServes, OtherServes, LoseServes DEF Serve
-----------------------------------------------------------------------------
(* What the user does.                                                       *)

\* Flow f begins with request r; what its page waited for may be dropped.
Starts(f, r) ==
  /\ r \in Flow /\ r.answer = "none" /\ r.token = None
  /\ r.step \in {"login", "passkey", "register"} => r.user # None
  /\ r.step = "logout" /\ r.alone => \A g \in Flows \ {f} : ~ SigningIn(g)
  /\ flow' \in [Flows -> Flow \cup {None}] /\ flow'[f] = r
  /\ \A g \in Flows \ {f} : flow'[g] # None =>
       /\ flow[g] # None /\ flow'[g].step = flow[g].step /\ flow'[g].answer = flow[g].answer
       /\ flow'[g].token = flow[g].token /\ flow'[g].user = flow[g].user
       /\ flow'[g].alone => flow[g].alone
       /\ flow[g].step = "logout" /\ r.step \in SignIns => ~ flow'[g].alone
  /\ tab' \in [Tabs -> Tab] /\ PartialStaysOut'
  /\ \A t \in Tabs : tab'[t].left => tab[t].left /\ r.step \notin SignIns
  /\ spoilt' \in BOOLEAN
  /\ ~ spoilt' => /\ ~ spoilt /\ ~ SigningIn(f)
                  /\ r.step \in SignIns => \A g \in Flows \ {f} : ~ SigningIn(g)
                  /\ \A g \in Flows : SigningIn(g) => flow'[g] # None
  /\ inputs' \in 0..MaxInputs
  /\ UNCHANGED <<server, cookie>>

\* Sending a request leaves of the other flows all but alone.
LEMMA SendingFlow ==
  ASSUME TypeOK, NEW f \in Flows, NEW r \in Flow
  PROVE  /\ Sending(f, r) \in [Flows -> Flow \cup {None}] /\ Sending(f, r)[f] = r
         /\ \A g \in Flows \ {f} : flow[g] = None => Sending(f, r)[g] = None
         /\ \A g \in Flows \ {f} : flow[g] # None =>
              /\ Sending(f, r)[g] # None
              /\ Sending(f, r)[g].step = flow[g].step
              /\ Sending(f, r)[g].answer = flow[g].answer
              /\ Sending(f, r)[g].token = flow[g].token
              /\ Sending(f, r)[g].user = flow[g].user
              /\ Sending(f, r)[g].alone => flow[g].alone
              /\ flow[g].step = "logout" /\ r.step \in SignIns => ~ Sending(f, r)[g].alone
<1>1. \A q \in Flow : LET p == [q EXCEPT !.alone = FALSE] IN
        /\ p \in Flow /\ p.step = q.step /\ p.answer = q.answer /\ p.token = q.token
        /\ p.user = q.user /\ ~ p.alone
  <2> TAKE q \in Flow
  <2> DEFINE p == [q EXCEPT !.alone = FALSE]
  <2>1. p \in Flow
    <3>1. \A b \in BOOLEAN : [q EXCEPT !.alone = b] \in Flow
      BY DEF Flow
    <3> QED BY <3>1
  <2>2. /\ p.step = q.step /\ p.answer = q.answer /\ p.token = q.token
        /\ p.user = q.user /\ ~ p.alone
    BY DEF Flow
  <2> QED BY <2>1, <2>2
<1>2. \A g \in Flows : flow[g] # None => flow[g] \in Flow
  BY DEF TypeOK
<1> QED BY <1>1, <1>2, Records DEF Sending

\* Tabs that forget that they left.
LEMMA ForgetsTab ==
  ASSUME NEW tabs \in [Tabs -> Tab], NEW r
  PROVE  /\ Forgets(tabs, r) \in [Tabs -> Tab]
         /\ \A t \in Tabs :
              /\ Forgets(tabs, r)[t].left => tabs[t].left /\ r.step \notin SignIns
              /\ Forgets(tabs, r)[t].token = tabs[t].token
              /\ Forgets(tabs, r)[t].requiresTotp = tabs[t].requiresTotp
              /\ Forgets(tabs, r)[t].route = tabs[t].route
<1>1. \A s \in Tab : LET p == [s EXCEPT !.left = @ /\ r.step \notin SignIns] IN
        /\ p \in Tab /\ (p.left => s.left /\ r.step \notin SignIns)
        /\ p.token = s.token /\ p.requiresTotp = s.requiresTotp /\ p.route = s.route
  BY DEF Tab
<1> QED BY <1>1 DEF Forgets

\* Counting what users do.
LEMMA InputType ==
  ASSUME TypeOK, Input
  PROVE  inputs' \in 0..MaxInputs
BY BrowserAssumption DEF TypeOK, Input

\* A click that begins a handler.
LEMMA BeginStarts ==
  ASSUME TypeInv, PartialStaysOut, NEW f \in Flows, NEW t \in Tabs,
         NEW op \in (SignIns \cup Changes) \ {"refresh"}, NEW u \in Users \cup {None},
         op \in {"login", "passkey", "register"} => u # None, Begin(f, t, op, u)
  PROVE  \E r : Starts(f, r)
<1> DEFINE r == Request(f, t, op, op, u, tab[t].token)
<1>1. op \in Ops /\ op \in Steps /\ op # "logout" /\ tab[t].token \in Token \cup {None}
  BY DEF Ops, Steps, SignIns, Changes, TypeInv, TypeOK, Tab
<1>2. r \in Flow /\ r.step = op /\ r.user = u /\ r.answer = "none" /\ r.token = None
  BY <1>1, RequestFlow DEF TypeInv
<1>3. /\ flow[f] = None /\ flow' = Sending(f, r) /\ tab' = Forgets(tab, r)
      /\ spoilt' = (spoilt \/ Collides(f, r))
      /\ inputs' \in 0..MaxInputs /\ UNCHANGED <<server, cookie>>
  BY InputType DEF Begin, TypeInv
<1> HIDE DEF r
<1>4. /\ tab' \in [Tabs -> Tab] /\ PartialStaysOut'
      /\ \A v \in Tabs : tab'[v].left => tab[v].left /\ r.step \notin SignIns
  <2>1. tab \in [Tabs -> Tab]
    BY DEF TypeInv, TypeOK
  <2>2. /\ tab' \in [Tabs -> Tab]
        /\ \A v \in Tabs : /\ tab'[v].left => tab[v].left /\ r.step \notin SignIns
                           /\ tab'[v].token = tab[v].token /\ tab'[v].route = tab[v].route
                           /\ tab'[v].requiresTotp = tab[v].requiresTotp
    <3> DEFINE n == Forgets(tab, r)
    <3>1. /\ n \in [Tabs -> Tab]
          /\ \A v \in Tabs : /\ n[v].left => tab[v].left /\ r.step \notin SignIns
                             /\ n[v].token = tab[v].token /\ n[v].route = tab[v].route
                             /\ n[v].requiresTotp = tab[v].requiresTotp
      BY ZenonT(40), <2>1, ForgetsTab
    <3> QED BY <1>3, <3>1
  <2> QED BY <2>2 DEF PartialStaysOut, IsAuthenticated, Verified
<1>5. spoilt' \in BOOLEAN
  BY <1>3 DEF TypeInv, TypeOK
<1>6. ~ spoilt' => /\ ~ spoilt
                   /\ r.step \in SignIns => \A g \in Flows \ {f} : ~ SigningIn(g)
  BY <1>3 DEF Collides, Busy, Waiting, SigningIn
<1>7. ~ SigningIn(f)
  BY <1>3 DEF SigningIn
<1>8. TypeOK
  BY DEF TypeInv
<1>9. /\ flow' \in [Flows -> Flow \cup {None}] /\ flow'[f] = r
      /\ \A g \in Flows \ {f} : flow'[g] # None =>
           /\ flow[g] # None /\ flow'[g].step = flow[g].step /\ flow'[g].answer = flow[g].answer
           /\ flow'[g].token = flow[g].token /\ flow'[g].user = flow[g].user
           /\ flow'[g].alone => flow[g].alone
           /\ flow[g].step = "logout" /\ r.step \in SignIns => ~ flow'[g].alone
      /\ \A g \in Flows : SigningIn(g) => flow'[g] # None
  BY <1>2, <1>3, <1>7, <1>8, SendingFlow DEF SigningIn
<1>10. Starts(f, r)
  BY <1>1, <1>2, <1>3, <1>4, <1>5, <1>6, <1>7, <1>9 DEF Starts
<1> QED BY <1>10

\* The forms and cards.
LEMMA SubmitStarts ==
  ASSUME TypeInv, PartialStaysOut, NEW f \in Flows, NEW t \in Tabs, Submit(f, t)
  PROVE  \E r : Starts(f, r)
<1>1. PICK op \in (SignIns \cup Changes) \ {"refresh"}, u \in Users \cup {None} :
        Begin(f, t, op, u) /\ (op \in {"login", "passkey", "register"} => u # None)
  BY Records DEF Submit, SubmitLogin, SubmitRegister, SubmitVerify, ChangeTotp, ChangePassword,
                 Revoke, SignIns, Changes
<1> QED BY <1>1, BeginStarts

\* A tab is loaded, and asks for a refresh.
LEMMA LoadStarts ==
  ASSUME TypeInv, PartialStaysOut, NEW f \in Flows, NEW t \in Tabs, Load(f, t)
  PROVE  \E r : Starts(f, r)
<1> DEFINE r == Request(f, t, "refresh", "refresh", None, None)
           dropped == {g \in Waiting : flow[g].tab = t}
           tabs == [tab EXCEPT ![t] = NewTab("boot")]
<1>1. "refresh" \in Ops /\ "refresh" \in Steps /\ "refresh" \in SignIns /\ "boot" \in Route
  BY DEF Ops, Steps, SignIns, Route
<1>2. r \in Flow /\ r.step = "refresh" /\ r.answer = "none" /\ r.token = None
  BY <1>1, RequestFlow DEF TypeInv
<1>3. /\ flow[f] = None \/ f \in dropped
      /\ flow' = [g \in Flows |-> IF g # f /\ g \in dropped THEN None ELSE Sending(f, r)[g]]
      /\ tab' = Forgets(tabs, r)
      /\ spoilt' = (spoilt \/ Collides(f, r) \/ \E g \in dropped : flow[g].step \in SignIns)
      /\ inputs' \in 0..MaxInputs /\ UNCHANGED <<server, cookie>>
  BY InputType DEF Load, TypeInv
<1>4. /\ tabs \in [Tabs -> Tab] /\ tabs[t].token = None /\ tabs[t].route = "boot"
      /\ ~ tabs[t].left
      /\ \A v \in Tabs \ {t} : tabs[v] = tab[v]
  BY <1>1, NewTabTab DEF TypeInv, TypeOK
<1> HIDE DEF r, tabs
<1>5. /\ tab' \in [Tabs -> Tab] /\ PartialStaysOut'
      /\ \A v \in Tabs : tab'[v].left => tab[v].left /\ r.step \notin SignIns
  <2>1. /\ tab' \in [Tabs -> Tab]
        /\ \A v \in Tabs : /\ tab'[v].left => tabs[v].left /\ r.step \notin SignIns
                           /\ tab'[v].token = tabs[v].token /\ tab'[v].route = tabs[v].route
                           /\ tab'[v].requiresTotp = tabs[v].requiresTotp
    <3> DEFINE n == Forgets(tabs, r)
    <3>1. /\ n \in [Tabs -> Tab]
          /\ \A v \in Tabs : /\ n[v].left => tabs[v].left /\ r.step \notin SignIns
                             /\ n[v].token = tabs[v].token /\ n[v].route = tabs[v].route
                             /\ n[v].requiresTotp = tabs[v].requiresTotp
      <4>1. tabs \in [Tabs -> Tab]
        BY <1>4
      <4> QED BY ZenonT(40), <4>1, ForgetsTab
    <3> QED BY <1>3, <3>1
  <2>2. PartialStaysOut'
    BY <1>4, <2>1 DEF PartialStaysOut, IsAuthenticated, Verified
  <2> QED BY <1>4, <2>1, <2>2
<1>6. spoilt' \in BOOLEAN
  BY <1>3 DEF TypeInv, TypeOK
<1>7. ~ spoilt' => /\ ~ spoilt
                   /\ r.step \in SignIns => \A g \in Flows \ {f} : ~ SigningIn(g)
                   /\ \A g \in dropped : ~ SigningIn(g)
  BY <1>3 DEF Collides, Busy, Waiting, SigningIn
<1>8. TypeOK
  BY DEF TypeInv
<1>9. /\ flow' \in [Flows -> Flow \cup {None}] /\ flow'[f] = r
      /\ \A g \in Flows \ {f} : flow'[g] # None =>
           /\ flow[g] # None /\ flow'[g].step = flow[g].step /\ flow'[g].answer = flow[g].answer
           /\ flow'[g].token = flow[g].token /\ flow'[g].user = flow[g].user
           /\ flow'[g].alone => flow[g].alone
           /\ flow[g].step = "logout" /\ r.step \in SignIns => ~ flow'[g].alone
  <2> HIDE DEF dropped
  <2> QED BY <1>2, <1>3, <1>8, SendingFlow
<1>10. ~ spoilt' => ~ SigningIn(f) /\ \A g \in Flows : SigningIn(g) => flow'[g] # None
  BY <1>1, <1>2, <1>3, <1>7 DEF SigningIn
<1>11. Starts(f, r)
  <2> HIDE DEF dropped
  <2> QED BY <1>2, <1>3, <1>5, <1>6, <1>7, <1>9, <1>10 DEF Starts
<1> QED BY <1>11

\* A logout: the page forgets before it asks.
LEMMA LogoutStarts ==
  ASSUME TypeInv, PartialStaysOut, NEW f \in Flows, NEW t \in Tabs, Logout(f, t)
  PROVE  \E r : Starts(f, r)
<1> DEFINE r == Request(f, t, "logout", "logout", None, None)
<1>1. "logout" \in Ops /\ "logout" \in Steps /\ "logout" \notin SignIns /\ "app" \in Route
  BY DEF Ops, Steps, SignIns, Route
<1>2. r \in Flow /\ r.step = "logout" /\ r.answer = "none" /\ r.token = None
  BY <1>1, RequestFlow DEF TypeInv
<1>3. r.alone => \A g \in Flows \ {f} : ~ SigningIn(g)
  BY DEF Request, Busy, Waiting, SigningIn
<1>4. /\ flow[f] = None /\ flow' = [flow EXCEPT ![f] = r]
      /\ tab' = [tab EXCEPT ![t] = SignedOut(tab[t])]
      /\ inputs' \in 0..MaxInputs /\ UNCHANGED <<server, cookie, spoilt>>
  BY InputType DEF Logout, TypeInv
<1>5. /\ SignedOut(tab[t]) \in Tab /\ SignedOut(tab[t]).left = tab[t].left
      /\ IsAuthenticated(SignedOut(tab[t])) => Verified(SignedOut(tab[t]).token)
      /\ SignedOut(tab[t]).token = None
  BY SignedOutTab DEF TypeInv, TypeOK, IsAuthenticated
<1>6. /\ tab' \in [Tabs -> Tab] /\ PartialStaysOut'
      /\ \A v \in Tabs : tab'[v].left => tab[v].left
  BY <1>4, <1>5, WriteTab
<1> HIDE DEF r
<1>7. Starts(f, r)
  BY <1>1, <1>2, <1>3, <1>4, <1>6, Records DEF Starts, SigningIn, TypeInv, TypeOK
<1> QED BY <1>7

\* A click on a link.
LEMMA NavigateTab ==
  ASSUME TypeInv, PartialStaysOut, NEW t \in Tabs, NEW to \in Route, Navigate(t, to)
  PROVE  /\ tab' \in [Tabs -> Tab] /\ PartialStaysOut'
         /\ \A u \in Tabs : tab'[u].left => tab[u].left
<1>1. tab' = [tab EXCEPT ![t] = Go(tab[t], to)] /\ tab[t] \in Tab
  BY DEF Navigate, TypeInv, TypeOK
<1>2. /\ Go(tab[t], to) \in Tab /\ Go(tab[t], to).left = tab[t].left
      /\ IsAuthenticated(Go(tab[t], to)) => Verified(Go(tab[t], to).token)
      /\ Go(tab[t], to).route = "app" => Go(tab[t], to).token = None \/ Verified(Go(tab[t], to).token)
  BY <1>1, Fit, GoTab
<1> QED BY <1>1, <1>2, WriteTab
-----------------------------------------------------------------------------
(* Types and the second factor.                                              *)

\* A click on a link, or nothing.
Rests ==
  /\ tab' \in [Tabs -> Tab] /\ PartialStaysOut'
  /\ \A t \in Tabs : tab'[t].left => tab[t].left
  /\ UNCHANGED <<server, cookie, flow, spoilt, inputs>>

\* The kinds of steps there are.
LEMMA NextSteps ==
  ASSUME TypeInv, PartialStaysOut, [Next]_vars
  PROVE  \/ \E f \in Flows : Serves(f) \/ Applies(f)
         \/ \E f \in Flows : \E r : Starts(f, r)
         \/ Rests
<1>1. CASE \E f \in Flows : Serve(f) \/ Apply(f) \/ Lose(f)
  BY <1>1, ServeServes, ApplyApplies
<1>2. CASE \E f \in Flows, t \in Tabs : Load(f, t) \/ Submit(f, t) \/ Logout(f, t)
  BY <1>2, LoadStarts, SubmitStarts, LogoutStarts
<1>3. CASE \E t \in Tabs, to \in Route \ {"closed", "boot"} : Navigate(t, to)
  <2>1. PICK t \in Tabs, to \in Route : Navigate(t, to)
    BY <1>3
  <2> QED BY <2>1, NavigateTab DEF Rests, Navigate
<1>4. CASE UNCHANGED vars
  <2>1. tab' \in [Tabs -> Tab] /\ UNCHANGED <<tab, server, cookie, flow, spoilt, inputs>>
    BY <1>4 DEF vars, server, TypeInv, TypeOK
  <2>2. PartialStaysOut'
    BY <2>1 DEF PartialStaysOut, IsAuthenticated, Verified
  <2> QED BY <2>1, <2>2 DEF Rests
<1> QED BY <1>1, <1>2, <1>3, <1>4 DEF Next

\* Answers keep the types.
LEMMA ServesType ==
  ASSUME TypeInv, PartialStaysOut, NEW f \in Flows, Serves(f)
  PROVE  TypeInv' /\ PartialStaysOut'
<1>1. /\ Answers(f) /\ totp' \subseteq Users /\ spoilt' \in BOOLEAN
      /\ session' \in [Sessions -> Users \cup {None}]
  BY DEF Serves, Opens
<1>2. TypeOK'
  BY <1>1 DEF Answers, TypeInv, TypeOK
<1>3. FieldsInv'
  BY <1>1, Records DEF Answers, TypeInv, FieldsInv
<1>4. PartialStaysOut'
  BY <1>1 DEF Answers, PartialStaysOut, IsAuthenticated, Verified
<1> QED BY <1>2, <1>3, <1>4 DEF TypeInv

\* What pages make of them keeps the types.
LEMMA AppliesType ==
  ASSUME TypeInv, PartialStaysOut, NEW f \in Flows, Applies(f)
  PROVE  TypeInv' /\ PartialStaysOut'
<1>1. MovesOn(f) /\ Shows(f) /\ PartialStaysOut'
  BY DEF Applies
<1>2. cookie' \in Sessions \cup {None}
  <2>1. Brings(f) => flow[f].token \in Token
    BY Records DEF Brings, SigningIn, TypeInv, TypeOK, FieldsInv
  <2> QED BY <1>1, <2>1, Records DEF Shows, TypeInv, TypeOK
<1>3. TypeOK'
  BY <1>1, <1>2 DEF MovesOn, Shows, server, TypeInv, TypeOK
<1>4. FieldsInv'
  BY <1>1 DEF MovesOn, SignIns, TypeInv, FieldsInv
<1> QED BY <1>1, <1>3, <1>4 DEF TypeInv

\* What users begin keeps the types.
LEMMA StartsType ==
  ASSUME TypeInv, PartialStaysOut, NEW f \in Flows, NEW r, Starts(f, r)
  PROVE  TypeInv' /\ PartialStaysOut'
<1>1. TypeOK'
  BY DEF Starts, server, TypeInv, TypeOK
<1>2. FieldsInv'
  BY DEF Starts, TypeInv, FieldsInv
<1> QED BY <1>1, <1>2 DEF Starts, TypeInv

\* Every step keeps the types, and half a login out.
LEMMA TypeStep ==
  ASSUME TypeInv, PartialStaysOut, [Next]_vars
  PROVE  TypeInv' /\ PartialStaysOut'
<1>1. CASE Rests
  BY <1>1 DEF Rests, server, TypeInv, TypeOK, FieldsInv
<1> QED BY <1>1, NextSteps, ServesType, AppliesType, StartsType

\* Init meets them.
LEMMA TypeInit == Init => TypeInv /\ PartialStaysOut
<1> SUFFICES ASSUME Init PROVE TypeInv /\ PartialStaysOut OBVIOUS
<1>1. /\ NewTab("closed") \in Tab /\ NewTab("closed").token = None
      /\ NewTab("closed").route = "closed"
  BY NewTabTab DEF Route
<1>2. TypeOK
  <2>1. tab \in [Tabs -> Tab]
    BY <1>1 DEF Init
  <2>2. flow \in [Flows -> Flow \cup {None}] /\ session \in [Sessions -> Users \cup {None}]
    BY DEF Init
  <2>3. totp \subseteq Users /\ cookie \in Sessions \cup {None} /\ spoilt \in BOOLEAN
    BY BrowserAssumption DEF Init
  <2>4. inputs \in 0..MaxInputs
    BY BrowserAssumption DEF Init
  <2> QED BY <2>1, <2>2, <2>3, <2>4 DEF TypeOK
<1>3. FieldsInv
  BY DEF Init, FieldsInv
<1>4. PartialStaysOut
  BY <1>1 DEF Init, PartialStaysOut, IsAuthenticated
<1> QED BY <1>2, <1>3, <1>4 DEF TypeInv

\* The types hold for any number of users, tabs, flows and sessions; an answer that
\* a page takes a token from has one.
THEOREM TypeCorrect == Spec => []TypeOK
<1>1. Spec => [](TypeInv /\ PartialStaysOut)
  BY TypeInit, TypeStep, PTL DEF Spec
<1> QED BY <1>1, PTL DEF TypeInv

\* Half a login opens no page behind the login and counts as no sign-in, whatever
\* answers arrive in whatever order (stores/auth.ts, router/index.ts).
THEOREM PartialStaysOutAlways == Spec => []PartialStaysOut
BY TypeInit, TypeStep, PTL DEF Spec
-----------------------------------------------------------------------------
(* Logout.                                                                   *)

\* Nobody signs in beside a logout that is alone, nor after a tab has left.
QuietInv ==
  /\ \A f, g \in Flows :
       flow[f] # None /\ flow[f].step = "logout" /\ flow[f].alone => ~ SigningIn(g)
  /\ \A t \in Tabs, g \in Flows : tab[t].left => ~ SigningIn(g)
  /\ LogoutSticks

\* Answers of the server: it opens sessions for those who sign in only.
LEMMA ServesQuiet ==
  ASSUME TypeInv, QuietInv, NEW f \in Flows, Serves(f)
  PROVE  QuietInv'
<1>1. Answers(f) /\ \A n \in Sessions : session[n] = None /\ session'[n] # None => SigningIn(f)
  BY DEF Serves, Opens
<1>2. \A g \in Flows : SigningIn(g)' => SigningIn(g)
  BY <1>1 DEF Answers, SigningIn
<1>3. \A g \in Flows : flow'[g] # None =>
        flow[g] # None /\ flow'[g].step = flow[g].step /\ flow'[g].alone = flow[g].alone
  BY <1>1 DEF Answers
<1>4. UNCHANGED <<cookie, tab>> /\ cookie \in Sessions \cup {None}
  BY <1>1 DEF Answers, TypeInv, TypeOK
<1>5. LogoutSticks'
  <2> SUFFICES ASSUME NEW t \in Tabs, tab[t].left, cookie # None
               PROVE  session'[cookie] = None
    BY <1>4 DEF LogoutSticks
  <2>1. session[cookie] = None /\ ~ SigningIn(f)
    BY DEF QuietInv, LogoutSticks
  <2> QED BY <1>1, <1>4, <2>1
<1>6. \A h, g \in Flows :
        flow'[h] # None /\ flow'[h].step = "logout" /\ flow'[h].alone => ~ SigningIn(g)'
  BY <1>2, <1>3 DEF QuietInv
<1>7. \A t \in Tabs, g \in Flows : tab'[t].left => ~ SigningIn(g)'
  BY <1>2, <1>4 DEF QuietInv
<1> QED BY <1>5, <1>6, <1>7 DEF QuietInv

\* Answers on the page: a sign-in is the only one that sets the cookie.
LEMMA AppliesQuiet ==
  ASSUME TypeInv, QuietInv, NEW f \in Flows, Applies(f)
  PROVE  QuietInv'
<1>1. MovesOn(f) /\ Shows(f) /\ UNCHANGED session
  BY DEF Applies, MovesOn, server
<1>2. \A g \in Flows : SigningIn(g)' => g # f /\ SigningIn(g)
  BY <1>1 DEF MovesOn, SigningIn
<1>3. \A h, g \in Flows :
        flow'[h] # None /\ flow'[h].step = "logout" /\ flow'[h].alone => ~ SigningIn(g)'
  BY <1>1, <1>2 DEF MovesOn, QuietInv
<1>4. \A t \in Tabs : tab'[t].left =>
        \/ tab[t].left /\ cookie' \in {cookie, None}
        \/ flow[f] # None /\ flow[f].step = "logout" /\ flow[f].alone /\ cookie' = None
  <2> SUFFICES ASSUME NEW t \in Tabs, tab'[t].left
               PROVE  \/ tab[t].left /\ cookie' \in {cookie, None}
                      \/ /\ flow[f] # None /\ flow[f].step = "logout"
                         /\ flow[f].alone /\ cookie' = None
    OBVIOUS
  <2>1. CASE tab[t].left
    <3>1. ~ Brings(f)
      BY <2>1 DEF QuietInv, Brings
    <3> QED BY <1>1, <2>1, <3>1 DEF Shows
  <2>2. CASE ~ tab[t].left
    BY <1>1, <2>2 DEF Shows, MovesOn
  <2> QED BY <2>1, <2>2
<1>5. \A t \in Tabs, g \in Flows : tab'[t].left => ~ SigningIn(g)'
  BY <1>2, <1>4 DEF QuietInv
<1>6. LogoutSticks'
  <2> SUFFICES ASSUME NEW t \in Tabs, tab'[t].left
               PROVE  cookie' = None \/ session'[cookie'] = None
    BY DEF LogoutSticks
  <2>1. CASE tab[t].left /\ cookie' = cookie
    BY <1>1, <2>1 DEF QuietInv, LogoutSticks
  <2> QED BY <1>4, <2>1
<1> QED BY <1>3, <1>5, <1>6 DEF QuietInv

\* A sign-in that begins makes every tab, and every logout that waits, forget.
LEMMA StartsQuiet ==
  ASSUME TypeInv, QuietInv, NEW f \in Flows, NEW r, Starts(f, r)
  PROVE  QuietInv'
<1>1. UNCHANGED <<cookie, session>> /\ flow'[f] = r /\ r # None
  BY Records DEF Starts, server
<1>2. \A g \in Flows : SigningIn(g)' => IF g = f THEN r.step \in SignIns ELSE SigningIn(g)
  BY <1>1 DEF Starts, SigningIn
<1>3. \A t \in Tabs : tab'[t].left => tab[t].left /\ r.step \notin SignIns
  BY DEF Starts
<1>4. ASSUME NEW h \in Flows, NEW g \in Flows,
             flow'[h] # None, flow'[h].step = "logout", flow'[h].alone
      PROVE  ~ SigningIn(g)'
  <2>1. CASE h = f
    <3>1. r.step = "logout" /\ r.step \notin SignIns
      BY <1>1, <1>4, <2>1 DEF SignIns
    <3>2. \A k \in Flows \ {f} : ~ SigningIn(k)
      BY <1>1, <1>4, <2>1, <3>1 DEF Starts
    <3> QED BY <1>2, <3>1, <3>2
  <2>2. CASE h # f
    <3>1. /\ flow[h] # None /\ flow[h].step = "logout" /\ flow[h].alone
          /\ r.step \notin SignIns
      BY <1>4, <2>2 DEF Starts
    <3>2. \A k \in Flows : ~ SigningIn(k)
      BY <3>1 DEF QuietInv
    <3> QED BY <1>2, <3>1, <3>2
  <2> QED BY <2>1, <2>2
<1>5. \A t \in Tabs, g \in Flows : tab'[t].left => ~ SigningIn(g)'
  BY <1>2, <1>3 DEF QuietInv
<1>6. LogoutSticks'
  BY <1>1, <1>3 DEF QuietInv, LogoutSticks
<1> QED BY <1>4, <1>5, <1>6 DEF QuietInv

\* Every step keeps it.
LEMMA QuietStep ==
  ASSUME TypeInv, PartialStaysOut, QuietInv, [Next]_vars
  PROVE  QuietInv'
<1>1. CASE Rests
  <2>1. UNCHANGED <<session, cookie, flow>> /\ \A t \in Tabs : tab'[t].left => tab[t].left
    BY <1>1 DEF Rests, server
  <2>2. LogoutSticks'
    BY <2>1 DEF QuietInv, LogoutSticks
  <2> QED BY <2>1, <2>2 DEF QuietInv, SigningIn
<1> QED BY <1>1, NextSteps, ServesQuiet, AppliesQuiet, StartsQuiet

\* Init meets it.
LEMMA QuietInit == Init => QuietInv
<1> SUFFICES ASSUME Init PROVE QuietInv OBVIOUS
<1>1. \A t \in Tabs : ~ tab[t].left
  BY NewTabTab DEF Init, Route
<1> QED BY <1>1 DEF Init, QuietInv, LogoutSticks

\* A completed logout sticks for any number of tabs and handlers: a reload does not
\* sign in again (stores/auth.ts:73), unless a sign-in ran into it or a call was lost.
THEOREM LogoutSticksAlways == Spec => []LogoutSticks
<1>1. Spec => [](TypeInv /\ PartialStaysOut /\ QuietInv)
  BY TypeInit, QuietInit, TypeStep, QuietStep, PTL DEF Spec
<1> QED BY <1>1, PTL DEF QuietInv
-----------------------------------------------------------------------------
(* Staying signed in.                                                        *)

\* While nothing is spoilt one handler at most signs in; the session it brings is
\* open; and if the cookie's is not, somebody brings the next one.
RedeemInv == ~ spoilt =>
  /\ \A f, g \in Flows : SigningIn(f) /\ SigningIn(g) => f = g
  /\ \A f \in Flows : Brings(f) => session[flow[f].token.session] # None
  /\ cookie # None /\ session[cookie] = None => \E f \in Flows : Brings(f)

\* A rotation ends the cookie's session, and its answer brings the next.
LEMMA ServesRedeem ==
  ASSUME TypeInv, RedeemInv, NEW f \in Flows, Serves(f)
  PROVE  RedeemInv'
<1> SUFFICES ASSUME ~ spoilt'
             PROVE  /\ \A h, g \in Flows : SigningIn(h)' /\ SigningIn(g)' => h = g
                    /\ \A g \in Flows : Brings(g)' => session'[flow'[g].token.session] # None
                    /\ cookie' # None /\ session'[cookie'] = None => \E g \in Flows : Brings(g)'
  BY DEF RedeemInv
<1>1. Answers(f) /\ ~ spoilt /\ flow[f].answer = "none" /\ UNCHANGED cookie
  BY DEF Serves, Answers
<1>2. PICK S : Opens(f, S) /\ (S \cap Held \subseteq {None} \/ Brings(f)')
  BY DEF Serves
<1>3. /\ \A h, g \in Flows : SigningIn(h) /\ SigningIn(g) => h = g
      /\ \A g \in Flows : Brings(g) => session[flow[g].token.session] # None
      /\ cookie # None /\ session[cookie] = None => \E g \in Flows : Brings(g)
  BY <1>1 DEF RedeemInv
<1>4. \A g \in Flows : SigningIn(g)' => SigningIn(g)
  BY <1>1 DEF Answers, SigningIn
<1>5. \A g \in Flows \ {f} : flow'[g] = flow[g]
  BY <1>1 DEF Answers
<1>6. \A g \in Flows \ {f} : Brings(g)' <=> Brings(g)
  BY <1>5 DEF Brings, SigningIn
<1>7. ~ Brings(f)
  BY <1>1 DEF Brings
<1>8. \A n \in Held \ {None} : S \cap Held \subseteq {None} /\ n \in Sessions /\ session[n] # None
                                 => session'[n] # None
  BY <1>2 DEF Opens
<1>9. \A g \in Flows : Brings(g) =>
        flow[g].token.session \in Held \ {None} /\ flow[g].token.session \in Sessions
  <2> SUFFICES ASSUME NEW g \in Flows, Brings(g)
               PROVE  flow[g].token.session \in Held \ {None} /\ flow[g].token.session \in Sessions
    OBVIOUS
  <2>1. flow[g] # None /\ flow[g].token # None /\ flow[g].token \in Token
        /\ flow[g].token.session # None
    BY Records DEF Brings, SigningIn, TypeInv, TypeOK, FieldsInv
  <2> QED BY <2>1, Records DEF Held, Waiting
<1>10. ASSUME NEW g \in Flows, Brings(g)' PROVE session'[flow'[g].token.session] # None
  <2>1. CASE g = f
    BY <1>2, <1>10, <2>1 DEF Opens
  <2>2. CASE g # f
    <3>1. Brings(g) /\ flow'[g] = flow[g]
      BY <1>5, <1>6, <1>10, <2>2
    <3>2. ~ Brings(f)'
      BY <1>3, <1>4, <2>2, <3>1 DEF Brings
    <3> QED BY <1>2, <1>3, <1>8, <1>9, <3>1, <3>2
  <2> QED BY <2>1, <2>2
<1>11. ASSUME cookie' # None, session'[cookie'] = None PROVE \E g \in Flows : Brings(g)'
  <2>1. CASE Brings(f)'
    BY <2>1
  <2>2. CASE ~ Brings(f)'
    <3>1. cookie \in Held \ {None} /\ cookie \in Sessions
      BY <1>1, <1>11 DEF Held, TypeInv, TypeOK
    <3>2. session[cookie] = None
      BY <1>1, <1>2, <1>8, <1>11, <2>2, <3>1
    <3>3. PICK g \in Flows : Brings(g)
      BY <1>3, <3>1, <3>2
    <3> QED BY <1>6, <1>7, <3>3
  <2> QED BY <2>1, <2>2
<1> QED BY <1>3, <1>4, <1>10, <1>11

\* The answer sets the cookie to the session that it brings.
LEMMA AppliesRedeem ==
  ASSUME TypeInv, RedeemInv, NEW f \in Flows, Applies(f)
  PROVE  RedeemInv'
<1> SUFFICES ASSUME ~ spoilt'
             PROVE  /\ \A h, g \in Flows : SigningIn(h)' /\ SigningIn(g)' => h = g
                    /\ \A g \in Flows : Brings(g)' => session'[flow'[g].token.session] # None
                    /\ cookie' # None /\ session'[cookie'] = None => \E g \in Flows : Brings(g)'
  BY DEF RedeemInv
<1>1. MovesOn(f) /\ Shows(f) /\ UNCHANGED session /\ ~ spoilt
  BY DEF Applies, MovesOn, server
<1>2. /\ \A h, g \in Flows : SigningIn(h) /\ SigningIn(g) => h = g
      /\ \A g \in Flows : Brings(g) => session[flow[g].token.session] # None
      /\ cookie # None /\ session[cookie] = None => \E g \in Flows : Brings(g)
  BY <1>1 DEF RedeemInv
<1>3. \A g \in Flows : SigningIn(g)' => g # f /\ SigningIn(g)
  BY <1>1 DEF MovesOn, SigningIn
<1>4. \A g \in Flows \ {f} : flow'[g] = flow[g]
  BY <1>1 DEF MovesOn
<1>5. \A g \in Flows \ {f} : Brings(g)' <=> Brings(g)
  BY <1>4 DEF Brings, SigningIn
<1>6. \A g \in Flows : Brings(g)' => g # f
  BY <1>3 DEF Brings
<1>7. ASSUME cookie' # None, session'[cookie'] = None PROVE \E g \in Flows : Brings(g)'
  <2>1. ~ Brings(f)
    BY <1>1, <1>2, <1>7 DEF Shows
  <2>2. cookie' = cookie
    BY <1>1, <1>7, <2>1 DEF Shows
  <2> QED BY <1>1, <1>2, <1>5, <1>7, <2>1, <2>2
<1> QED BY <1>1, <1>2, <1>3, <1>4, <1>5, <1>6, <1>7

\* What begins, spoils, if it signs in beside another or drops one that does.
LEMMA StartsRedeem ==
  ASSUME TypeInv, RedeemInv, NEW f \in Flows, NEW r, Starts(f, r)
  PROVE  RedeemInv'
<1> SUFFICES ASSUME ~ spoilt'
             PROVE  /\ \A h, g \in Flows : SigningIn(h)' /\ SigningIn(g)' => h = g
                    /\ \A g \in Flows : Brings(g)' => session'[flow'[g].token.session] # None
                    /\ cookie' # None /\ session'[cookie'] = None => \E g \in Flows : Brings(g)'
  BY DEF RedeemInv
<1>1. /\ UNCHANGED <<cookie, session>> /\ ~ spoilt /\ ~ SigningIn(f)
      /\ flow'[f] = r /\ r # None /\ r.answer = "none"
      /\ r.step \in SignIns => \A g \in Flows \ {f} : ~ SigningIn(g)
      /\ \A g \in Flows : SigningIn(g) => flow'[g] # None
  BY Records DEF Starts, server
<1>2. /\ \A h, g \in Flows : SigningIn(h) /\ SigningIn(g) => h = g
      /\ \A g \in Flows : Brings(g) => session[flow[g].token.session] # None
      /\ cookie # None /\ session[cookie] = None => \E g \in Flows : Brings(g)
  BY <1>1 DEF RedeemInv
<1>3. \A g \in Flows : SigningIn(g)' => IF g = f THEN r.step \in SignIns ELSE SigningIn(g)
  BY <1>1 DEF Starts, SigningIn
<1>4. \A g \in Flows : Brings(g)' =>
        g # f /\ Brings(g) /\ flow'[g].token = flow[g].token
  BY <1>1 DEF Starts, SigningIn, Brings
<1>5. \A g \in Flows : Brings(g) => Brings(g)'
  BY <1>1 DEF Starts, SigningIn, Brings
<1> QED BY <1>1, <1>2, <1>3, <1>4, <1>5

\* Every step keeps it.
LEMMA RedeemStep ==
  ASSUME TypeInv, PartialStaysOut, RedeemInv, [Next]_vars
  PROVE  RedeemInv'
<1>1. CASE Rests
  <2>1. UNCHANGED <<session, cookie, flow, spoilt>>
    BY <1>1 DEF Rests, server
  <2> QED BY <2>1 DEF RedeemInv, Brings, SigningIn
<1> QED BY <1>1, NextSteps, ServesRedeem, AppliesRedeem, StartsRedeem

\* Init meets it.
LEMMA RedeemInit == Init => RedeemInv
BY DEF Init, RedeemInv, Brings, SigningIn

\* Reloads and further tabs keep the browser signed in, each rotating the cookie,
\* while no two sign-ins collide, nothing is lost and nobody ends the session
\* (lib/api.ts, auth.service.ts:refresh).
THEOREM StaysSignedInAlways == Spec => []StaysSignedIn
<1>1. Spec => [](TypeInv /\ PartialStaysOut /\ RedeemInv)
  BY TypeInit, RedeemInit, TypeStep, RedeemStep, PTL DEF Spec
<1>2. RedeemInv => StaysSignedIn
  BY DEF RedeemInv, StaysSignedIn, Waiting, Brings, SigningIn
<1> QED BY <1>1, <1>2, PTL
==============================================================================
