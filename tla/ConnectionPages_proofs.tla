------------------------ MODULE ConnectionPages_proofs ------------------------
(***************************************************************************)
(* What holds of the pages for connections for any number of tabs,         *)
(* handlers, connections, clicks and requests.  FitsInv says which         *)
(* connections pages and handlers name; PickedInv that every list, stored, *)
(* shown, on its way or kept for a client, was picked; AloneInv what a     *)
(* page that is alone with its connection has, or has coming.              *)
(***************************************************************************)
EXTENDS ConnectionPages, TLAPS

\* Connections that were made, and not only offered.
Known == {c \in 1..issued : invite[c] = None}

\* Handlers that load a connection, change its state, or work for the list.
Loads == Edits \cup {"open"}
Governs == {"logging", "status", "delete"}
Lists == {"load", "generate", "import"}

\* The types, with what each table is a function of.
Typed ==
  /\ invite \in [ConnIds -> (SUBSET Perms) \cup {None}]
  /\ conn \in [ConnIds -> Connection \cup {None}]
  /\ issued \in 1..MaxConns
  /\ tab \in [Tabs -> Tab]
  /\ flow \in [Flows -> Flow \cup {None}]
  /\ inputs \in 0..MaxInputs
  /\ chosen \in [ConnIds -> SUBSET Perms]
  /\ fallback \subseteq ConnIds /\ behind \subseteq Tabs

\* What a handler q has of its request and its answer.
FlowFits(q) ==
  /\ q.listed \subseteq Known
  /\ q.op \in Loads \cup Governs => q.id \in Known
  /\ q.op = "open" => q.step = "get"
  /\ q.op \in Governs => q.perms = {} /\ q.step = "call"
  /\ q.op = "status" => q.value \in {"ACTIVE", "REVOKED"}
  /\ q.op = "generate" /\ q.answer = "ok" => q.id \in ConnIds
  /\ q.view # None => q.op \in Loads /\ q.step = "get"
  /\ q.op \in Loads /\ q.step = "get" /\ q.answer = "ok" => q.view # None

\* A handler whose page is still there works for what that page shows.
PageFits(q) ==
  q.live =>
    IF q.op \in Lists THEN tab[q.tab].page = "list"
    ELSE /\ tab[q.tab].page = "connection" /\ tab[q.tab].id = q.id
         /\ q.op # "open" => tab[q.tab].view # None

\* What a page names.
TabFits(s) ==
  /\ s.listed \subseteq Known
  /\ s.page = "connection" => s.id \in Known
  /\ s.page = "list" => s.id = None /\ s.view = None

\* Pages, handlers and the store name connections that were made.
FitsInv ==
  /\ Typed
  /\ \A c \in ConnIds : conn[c] # None => c \in Known
  /\ \A c \in ConnIds : invite[c] # None => c \in 1..issued
  /\ \A t \in Tabs : TabFits(tab[t])
  /\ \A f \in Flows : flow[f] # None => FlowFits(flow[f]) /\ PageFits(flow[f])

\* What somebody picked for connection c.
Picked(c) == chosen[c] \cup (IF c \in fallback THEN Defaults ELSE {})

\* The list a connection was given.
GrantedOf(v) == {Named(p) : p \in {r \in v.permissions : r.allowed}}

\* What a handler carries was picked.
FlowPicked(q) ==
  /\ q.view # None => GrantedOf(q.view) \subseteq Picked(q.id)
  /\ q.op \in {"set", "approve"} => q.perms \subseteq Picked(q.id)

\* What is stored, offered, shown or on its way was picked.
PickedInv ==
  /\ \A c \in ConnIds : conn[c] # None => GrantedOf(conn[c]) \subseteq Picked(c)
  /\ \A c \in ConnIds : invite[c] # None => invite[c] \subseteq chosen[c]
  /\ \A t \in Tabs : tab[t].view # None => GrantedOf(tab[t].view) \subseteq Picked(tab[t].id)
  /\ \A f \in Flows : flow[f] # None => FlowPicked(flow[f])

\* Of a connection w and a page that shows v of it, what handler q waits for.
FlowSees(q, v, w) ==
  /\ q.answer # "failed"
  /\ q.step = "get" /\ q.answer = "ok" => q.view = w
  /\ q.step = "call" /\ q.answer = "none" => v = w
  /\ q.op = "logging" /\ q.answer = "ok" => w = [v EXCEPT !.logging = q.value = "on"]
  /\ q.op = "status" /\ q.answer = "ok" => w = [v EXCEPT !.status = q.value]
  /\ q.op = "delete" => q.answer # "ok"

\* Nobody else changes the connection that the page shows.
Alone(t) == tab[t].page = "connection" /\ t \notin behind

\* A page alone with its connection waits for one answer at most, and without it
\* shows what the server has.
AloneWith(t) ==
  LET v == tab[t].view
      w == conn[tab[t].id] IN
  /\ v # None => w # None
  /\ FlowsOf(t) = {} => v = w
  /\ \A f, g \in FlowsOf(t) : f = g
  /\ \A f \in FlowsOf(t) : FlowSees(flow[f], v, w)

AloneInv == \A t \in Tabs : Alone(t) => AloneWith(t)
-----------------------------------------------------------------------------
(* Records.                                                                  *)

\* What the assumptions say of None, and of the records.
LEMMA Records ==
  /\ None \notin ConnIds /\ \A v \in Connection : v # None
  /\ \A P \in SUBSET Perms : P # None
  /\ \A q \in Flow :
       /\ q # None /\ q.tab \in Tabs /\ q.live \in BOOLEAN /\ q.op \in Op
       /\ q.id \in ConnIds \cup {None} /\ q.step \in {"call", "get", "parse"}
       /\ q.perms \in SUBSET Perms /\ q.answer \in {"none", "ok", "failed"}
       /\ q.view \in Connection \cup {None} /\ q.listed \in SUBSET ConnIds
       /\ q.value \in {"ACTIVE", "REVOKED", "on", "off", "none"}
  /\ \A s \in Tab :
       /\ s.page \in {"list", "connection"} /\ s.id \in ConnIds \cup {None}
       /\ s.view \in Connection \cup {None} /\ s.listed \in SUBSET ConnIds
       /\ s.seed \in SUBSET Perms /\ s.busy \in BOOLEAN /\ s.uri \in ConnIds \cup {None}
       /\ s.mode \in {"idle", "generate", "import"}
BY PagesAssumption DEF Flow, Tab

\* A row and its descriptor.
LEMMA RowNames ==
  /\ \A p \in Perms : /\ Named(p) = p
                      /\ \A b \in BOOLEAN : /\ AsRow(p, b) \in Rows /\ Named(AsRow(p, b)) = p
                                            /\ AsRow(p, b).allowed = b
  /\ \A r \in Rows : Named(r) \in Perms /\ r.allowed \in BOOLEAN
<1>1. \A p \in Perms : p = [method |-> p.method, kind |-> p.kind]
  BY PermsAssumption DEF Descriptor
<1>2. \A p \in Perms : Named(p) = p
  BY <1>1 DEF Named
<1>3. \A p \in Perms, b \in BOOLEAN :
        /\ AsRow(p, b) \in Rows /\ Named(AsRow(p, b)) = p /\ AsRow(p, b).allowed = b
  BY <1>1 DEF AsRow, Named, Rows
<1>4. \A r \in Rows : Named(r) \in Perms /\ r.allowed \in BOOLEAN
  BY <1>3 DEF Rows
<1> QED BY <1>2, <1>3, <1>4

\* The descriptors that the pages make.
LEMMA PagePerms ==
  /\ Defaults \subseteq Perms /\ Sign(0) \in Perms
  /\ \A m \in GatedMethods : AllKinds(m) \in Perms
  /\ \A k \in Kinds : Sign(k) \in Perms
<1>1. DEFAULT_CONNECTION_PERMISSIONS[1] \in Range(DEFAULT_CONNECTION_PERMISSIONS)
  BY DEF DEFAULT_CONNECTION_PERMISSIONS, Range
<1>2. DEFAULT_CONNECTION_PERMISSIONS[1] = Sign(0)
  BY DEF DEFAULT_CONNECTION_PERMISSIONS, Sign
<1> QED BY <1>1, <1>2, PermsAssumption, PagesAssumption DEF Defaults

\* Rows that grant, of a copy of a connection.
LEMMA GrantedNames ==
  ASSUME NEW v \in Connection
  PROVE  /\ GrantedOf(v) \subseteq Perms
         /\ \A p \in GrantedPerms(v) : p \in Rows /\ Named(p) \in GrantedOf(v)
         /\ \A p \in PendingPerms(v) : p \in Rows /\ Named(p) \in Perms
<1>1. v.permissions \subseteq Rows
  BY DEF Connection
<1> QED BY <1>1, RowNames DEF GrantedOf, GrantedPerms, PendingPerms

\* The fields of a handler that begins.
LEMMA NewFlowFields ==
  ASSUME NEW t \in Tabs, NEW op \in Op, NEW c \in ConnIds \cup {None}, NEW P \in SUBSET Perms,
         NEW value \in {"ACTIVE", "REVOKED", "on", "off", "none"},
         NEW q, q = NewFlow(t, op, c, P, value)
  PROVE  /\ q \in Flow /\ q.tab = t /\ q.live /\ q.op = op /\ q.id = c /\ q.perms = P
         /\ q.value = value /\ q.answer = "none" /\ q.view = None /\ q.listed = {}
         /\ q.step = IF op \in {"open", "load"} THEN "get"
                     ELSE IF op = "import" THEN "parse" ELSE "call"
BY DEF NewFlow, Flow

\* The pages that are mounted.
LEMMA MountedPages ==
  /\ ListPage \in Tab /\ ListPage.page = "list" /\ ListPage.id = None /\ ListPage.view = None
  /\ ListPage.listed = {}
  /\ \A c \in ConnIds : /\ Page(c) \in Tab /\ Page(c).page = "connection" /\ Page(c).id = c
                        /\ Page(c).view = None /\ Page(c).listed = {}
BY PagePerms DEF ListPage, Page, Tab
-----------------------------------------------------------------------------
(* Clicks.                                                                   *)

Inv == FitsInv /\ PickedInv /\ AloneInv

\* Whose copies, lists and approvals pages and handlers have.
LEMMA KnownIds ==
  ASSUME FitsInv
  PROVE  /\ Known \subseteq ConnIds
         /\ \A u \in Tabs : tab[u].view # None => tab[u].id \in Known
         /\ \A g \in Flows : flow[g] # None /\ (flow[g].view # None \/ flow[g].op \in {"set", "approve"})
                               => flow[g].id \in Known
<1>1. Known \subseteq ConnIds
  BY PagesAssumption DEF FitsInv, Known, Typed, ConnIds
<1>2. \A u \in Tabs : tab[u].view # None => tab[u].id \in Known
  <2> SUFFICES ASSUME NEW u \in Tabs, tab[u].view # None PROVE tab[u].id \in Known
    OBVIOUS
  <2>1. tab[u] \in Tab /\ TabFits(tab[u])
    BY DEF FitsInv, Typed
  <2> QED BY <2>1, Records DEF TabFits
<1>3. \A g \in Flows : flow[g] # None /\ (flow[g].view # None \/ flow[g].op \in {"set", "approve"})
                         => flow[g].id \in Known
  BY DEF FitsInv, FlowFits, Loads, Edits
<1> QED BY <1>1, <1>2, <1>3

\* The pages show what they showed.
SamePages ==
  /\ tab' \in [Tabs -> Tab]
  /\ \A u \in Tabs : /\ tab'[u].page = tab[u].page /\ tab'[u].id = tab[u].id
                     /\ tab'[u].view = tab[u].view /\ tab'[u].listed = tab[u].listed

\* Handler f begins, for what tab t shows.
Clicks(f, t) ==
  /\ flow[f] = None
  /\ \E r \in Flow :
       /\ flow' = [flow EXCEPT ![f] = r]
       /\ r.tab = t /\ r.id = tab[t].id /\ r.answer = "none" /\ r.view = None /\ r.listed = {}
       /\ \/ /\ r.op \in Edits \cup Governs /\ r.step = "call"
             /\ tab[t].page = "connection" /\ tab[t].view # None
          \/ r.op \in Lists /\ tab[t].page = "list"
       /\ r.op \in Governs => r.perms = {}
       /\ r.op = "status" => r.value \in {"ACTIVE", "REVOKED"}
       /\ r.op \in {"set", "approve"} => r.perms \subseteq chosen'[r.id] \cup GrantedOf(tab[t].view)
  /\ SamePages
  /\ chosen' \in [ConnIds -> SUBSET Perms] /\ \A c \in ConnIds : chosen[c] \subseteq chosen'[c]
  /\ behind' = IF FlowsOf(t) = {} THEN behind ELSE behind \cup {t}
  /\ inputs' \in 0..MaxInputs
  /\ UNCHANGED <<tables, fallback>>

\* A click keeps what holds.
LEMMA ClicksInv ==
  ASSUME Inv, NEW f \in Flows, NEW t \in Tabs, Clicks(f, t)
  PROVE  Inv'
<1>1. PICK r \in Flow :
       /\ flow' = [flow EXCEPT ![f] = r]
       /\ r.tab = t /\ r.id = tab[t].id /\ r.answer = "none" /\ r.view = None /\ r.listed = {}
       /\ \/ /\ r.op \in Edits \cup Governs /\ r.step = "call"
             /\ tab[t].page = "connection" /\ tab[t].view # None
          \/ r.op \in Lists /\ tab[t].page = "list"
       /\ r.op \in Governs => r.perms = {}
       /\ r.op = "status" => r.value \in {"ACTIVE", "REVOKED"}
       /\ r.op \in {"set", "approve"} => r.perms \subseteq chosen'[r.id] \cup GrantedOf(tab[t].view)
  BY DEF Clicks
<1>2. /\ flow \in [Flows -> Flow \cup {None}] /\ flow[f] = None
      /\ \A g \in Flows : flow'[g] = IF g = f THEN r ELSE flow[g]
  BY <1>1 DEF Clicks, Inv, FitsInv, Typed
<1>3. SamePages /\ UNCHANGED <<invite, conn, issued, fallback>> /\ Known' = Known
  BY DEF Clicks, tables, Known
<1>4. Typed'
  BY <1>1, <1>2, <1>3 DEF Clicks, SamePages, Inv, FitsInv, Typed
<1>5. TabFits(tab[t])
  BY DEF Inv, FitsInv
<1>6. FitsInv'
  <2>1. FlowFits(r)'
    BY <1>1, <1>3, <1>5 DEF FlowFits, TabFits, Loads, Lists, Governs, Edits
  <2>2. PageFits(r)'
    BY <1>1, <1>3 DEF PageFits, SamePages, Lists, Governs, Edits
  <2>3. \A g \in Flows \ {f} : flow[g] # None => FlowFits(flow[g])' /\ PageFits(flow[g])'
    <3> SUFFICES ASSUME NEW g \in Flows \ {f}, flow[g] # None
                 PROVE  FlowFits(flow[g])' /\ PageFits(flow[g])'
      OBVIOUS
    <3>1. flow'[g] = flow[g] /\ flow[g].tab \in Tabs /\ FlowFits(flow[g]) /\ PageFits(flow[g])
      BY <1>2, Records DEF Inv, FitsInv
    <3> QED BY <1>3, <3>1 DEF FlowFits, PageFits, SamePages
  <2>4. \A u \in Tabs : TabFits(tab[u])'
    BY <1>3 DEF TabFits, SamePages, Inv, FitsInv
  <2>5. /\ \A c \in ConnIds : conn'[c] # None => c \in Known'
        /\ \A c \in ConnIds : invite'[c] # None => c \in 1..issued'
    BY <1>3 DEF Inv, FitsInv
  <2>6. \A g \in Flows : flow'[g] # None => FlowFits(flow[g])' /\ PageFits(flow[g])'
    BY <1>2, <2>1, <2>2, <2>3
  <2> QED BY <1>4, <2>4, <2>5, <2>6 DEF FitsInv
<1>7. PickedInv'
  <2>1. \A c \in ConnIds : Picked(c) \subseteq Picked(c)' /\ chosen[c] \subseteq chosen'[c]
    BY <1>3 DEF Clicks, Picked
  <2>2. \A u \in Tabs : tab[u].view # None => tab[u].id \in ConnIds
    BY KnownIds DEF Inv
  <2>3. FlowPicked(r)'
    <3>1. r.op \in {"set", "approve"} => r.perms \subseteq Picked(r.id)'
      <4> SUFFICES ASSUME r.op \in {"set", "approve"} PROVE r.perms \subseteq Picked(r.id)'
        OBVIOUS
      <4>1. tab[t].view # None
        BY <1>1 DEF Lists
      <4>2. GrantedOf(tab[t].view) \subseteq Picked(tab[t].id) /\ tab[t].id \in ConnIds
        BY <2>2, <4>1 DEF Inv, PickedInv
      <4>3. chosen'[r.id] \subseteq Picked(r.id)'
        BY DEF Picked
      <4> QED BY <1>1, <2>1, <4>2, <4>3
    <3> QED BY <1>1, <3>1 DEF FlowPicked
  <2>4. \A g \in Flows \ {f} : flow[g] # None => FlowPicked(flow[g])'
    <3> SUFFICES ASSUME NEW g \in Flows \ {f}, flow[g] # None PROVE FlowPicked(flow[g])'
      OBVIOUS
    <3>1. flow'[g] = flow[g] /\ FlowPicked(flow[g])
      BY <1>2 DEF Inv, PickedInv
    <3>2. flow[g].view # None \/ flow[g].op \in {"set", "approve"} => flow[g].id \in ConnIds
      BY KnownIds DEF Inv
    <3> QED BY <2>1, <3>1, <3>2 DEF FlowPicked
  <2>5. \A c \in ConnIds : conn'[c] # None => GrantedOf(conn[c])' \subseteq Picked(c)'
    BY <1>3, <2>1 DEF Inv, PickedInv, GrantedOf
  <2>6. \A c \in ConnIds : invite'[c] # None => invite'[c] \subseteq chosen'[c]
    BY <1>3, <2>1 DEF Inv, PickedInv
  <2>7. \A u \in Tabs : tab'[u].view # None => GrantedOf(tab[u].view)' \subseteq Picked(tab[u].id)'
    BY <1>3, <2>1, <2>2 DEF Inv, PickedInv, GrantedOf, SamePages
  <2>8. \A g \in Flows : flow'[g] # None => FlowPicked(flow[g])'
    BY <1>2, <2>3, <2>4
  <2> QED BY <2>5, <2>6, <2>7, <2>8 DEF PickedInv
<1>8. AloneInv'
  <2> SUFFICES ASSUME NEW u \in Tabs, Alone(u)' PROVE AloneWith(u)'
    BY DEF AloneInv
  <2>1. Alone(u) /\ (u = t => FlowsOf(t) = {})
    BY <1>3 DEF Clicks, Alone, SamePages
  <2>2. AloneWith(u)
    BY <2>1 DEF Inv, AloneInv
  <2>3. tab'[u].view = tab[u].view /\ conn'[tab'[u].id] = conn[tab[u].id]
    BY <1>3 DEF SamePages
  <2>4. CASE u # t
    <3>1. FlowsOf(u)' = FlowsOf(u) /\ \A g \in FlowsOf(u) : flow'[g] = flow[g]
      BY <1>1, <1>2, <2>4, Records DEF FlowsOf
    <3> QED BY <2>2, <2>3, <3>1 DEF AloneWith
  <2>5. CASE u = t
    <3>1. FlowsOf(u)' \subseteq {f}
      BY <1>2, <2>1, <2>5 DEF FlowsOf
    <3>2. tab[u].view = conn[tab[u].id]
      BY <2>1, <2>2, <2>5 DEF AloneWith
    <3>3. FlowSees(r, tab[u].view, conn[tab[u].id])
      BY <1>1, <3>2, <2>1, <2>5 DEF FlowSees, Alone, Lists
    <3> QED BY <1>2, <2>3, <3>1, <3>2, <3>3 DEF AloneWith
  <2> QED BY <2>4, <2>5
<1> QED BY <1>6, <1>7, <1>8 DEF Inv

\* A page that is written with what it showed.
LEMMA SameTab ==
  ASSUME tab \in [Tabs -> Tab], NEW t \in Tabs, NEW s \in Tab,
         s.page = tab[t].page, s.id = tab[t].id, s.view = tab[t].view, s.listed = tab[t].listed,
         tab' = [tab EXCEPT ![t] = s]
  PROVE  SamePages
BY DEF SamePages

\* What a click counts.
LEMMA InputType ==
  ASSUME Typed, Input
  PROVE  inputs' \in 0..MaxInputs
BY PagesAssumption DEF Typed, Input

\* A handler that begins on a page with its copy, or on the list.
LEMMA BeginClicks ==
  ASSUME Inv, NEW f \in Flows, NEW t \in Tabs, NEW s \in Tab, NEW op \in Op,
         NEW P \in SUBSET Perms, NEW value \in {"ACTIVE", "REVOKED", "on", "off", "none"},
         s.page = tab[t].page, s.id = tab[t].id, s.view = tab[t].view, s.listed = tab[t].listed,
         Begin(f, t, s, op, P, value), UNCHANGED <<tables, fallback>>,
         \/ op \in Edits \cup Governs /\ tab[t].page = "connection" /\ tab[t].view # None
         \/ op \in Lists /\ tab[t].page = "list",
         op \in Governs => P = {},
         op = "status" => value \in {"ACTIVE", "REVOKED"},
         op \in {"set", "approve"} => P \subseteq chosen'[tab[t].id] \cup GrantedOf(tab[t].view),
         chosen' \in [ConnIds -> SUBSET Perms], \A c \in ConnIds : chosen[c] \subseteq chosen'[c]
  PROVE  Clicks(f, t)
<1> DEFINE r == NewFlow(t, op, tab[t].id, P, value)
<1>1. Typed /\ tab[t] \in Tab /\ tab[t].id \in ConnIds \cup {None}
  BY Records DEF Inv, FitsInv, Typed
<1>2. /\ r \in Flow /\ r.tab = t /\ r.op = op /\ r.id = tab[t].id /\ r.perms = P
      /\ r.value = value /\ r.answer = "none" /\ r.view = None /\ r.listed = {}
      /\ r.step = IF op \in {"open", "load"} THEN "get" ELSE IF op = "import" THEN "parse" ELSE "call"
  <2> DEFINE c == tab[t].id
  <2>1. r = NewFlow(t, op, c, P, value) /\ c \in ConnIds \cup {None}
    BY <1>1
  <2> HIDE DEF r, c
  <2>2. /\ r \in Flow /\ r.tab = t /\ r.op = op /\ r.id = c /\ r.perms = P
        /\ r.value = value /\ r.answer = "none" /\ r.view = None /\ r.listed = {}
        /\ r.step = IF op \in {"open", "load"} THEN "get" ELSE IF op = "import" THEN "parse" ELSE "call"
    BY <2>1, NewFlowFields
  <2> QED BY <2>2 DEF c
<1>3. /\ flow[f] = None /\ flow' = [flow EXCEPT ![f] = r] /\ tab' = [tab EXCEPT ![t] = s]
      /\ behind' = IF FlowsOf(t) = {} THEN behind ELSE behind \cup {t}
      /\ Input
  BY DEF Begin
<1> HIDE DEF r
<1>4. SamePages
  BY <1>1, <1>3, SameTab DEF Typed
<1>5. inputs' \in 0..MaxInputs
  BY <1>1, <1>3, InputType
<1>6. op \in Edits \cup Governs => r.step = "call"
  BY <1>2 DEF Edits, Governs
<1> QED BY <1>2, <1>3, <1>4, <1>5, <1>6 DEF Clicks

\* A list made of what the copy grants, and of what was clicked.
LEMMA SetGrantedClicks ==
  ASSUME Inv, NEW f \in Flows, NEW t \in Tabs, tab[t].page = "connection", tab[t].view # None,
         NEW list, NEW picked \in SUBSET Perms,
         list \subseteq GrantedPerms(tab[t].view) \cup picked,
         SetGranted(f, t, list, picked), UNCHANGED <<tables, fallback>>
  PROVE  Clicks(f, t)
<1> DEFINE P == {WirePerm(p) : p \in list}
<1>1. /\ tab[t] \in Tab /\ tab[t].view \in Connection /\ tab[t].id \in ConnIds
      /\ chosen \in [ConnIds -> SUBSET Perms]
  BY Records, KnownIds DEF Inv, FitsInv, Typed
<1>2. P \subseteq GrantedOf(tab[t].view) \cup picked /\ P \in SUBSET Perms
  BY <1>1, GrantedNames, RowNames DEF WirePerm
<1>3. Begin(f, t, tab[t], "set", P, "none")
      /\ chosen' = [chosen EXCEPT ![tab[t].id] = chosen[tab[t].id] \cup picked]
  BY DEF SetGranted
<1> HIDE DEF P
<1>4. /\ chosen' \in [ConnIds -> SUBSET Perms] /\ \A c \in ConnIds : chosen[c] \subseteq chosen'[c]
      /\ picked \subseteq chosen'[tab[t].id]
  BY <1>1, <1>3
<1>5. "set" \in Op /\ "set" \in Edits /\ "set" \notin Governs
  BY DEF Op, Edits, Governs
<1>6. P \subseteq chosen'[tab[t].id] \cup GrantedOf(tab[t].view)
  BY <1>2, <1>4
<1> QED BY <1>1, <1>2, <1>3, <1>4, <1>5, <1>6, BeginClicks

\* The switches and lists of a connection's page.
LEMMA EditGrantedClicks ==
  ASSUME Inv, NEW f \in Flows, NEW t \in Tabs, tab[t].page = "connection", tab[t].view # None,
         EditGranted(f, t), UNCHANGED <<tables, fallback>>
  PROVE  Clicks(f, t)
<1> DEFINE v == tab[t].view
           G == GrantedPerms(v)
           all == {AllKinds(m) : m \in GatedMethods}
           none == {}
<1>1. all \in SUBSET Perms /\ none \in SUBSET Perms /\ none \subseteq G
      /\ \A m \in GatedMethods : {AllKinds(m)} \in SUBSET Perms
      /\ \A k \in Kinds : {Sign(k)} \in SUBSET Perms
  BY PagePerms
<1>2. \A m : OtherMethods(v, m) \subseteq G
  BY DEF OtherMethods
<1>3. \A list, picked : picked \in SUBSET Perms /\ list \subseteq G \cup picked
                          /\ SetGranted(f, t, list, picked) => Clicks(f, t)
  BY SetGrantedClicks
<1>4. \A list : list \subseteq G /\ SetGranted(f, t, list, none) => Clicks(f, t)
  BY <1>1, <1>3
<1> HIDE DEF none
<1>5. CASE \E m \in Methods : GrantAllKinds(f, t, m)
  <2>1. PICK m \in Methods : SetGranted(f, t, OtherMethods(v, m) \cup {AllKinds(m)}, {AllKinds(m)})
    BY <1>5 DEF GrantAllKinds
  <2>2. {AllKinds(m)} \in SUBSET Perms /\ OtherMethods(v, m) \cup {AllKinds(m)} \subseteq G \cup {AllKinds(m)}
    BY <1>1, <1>2, PagesAssumption
  <2> QED BY <1>3, <2>1, <2>2
<1>6. CASE \E m \in Methods : RevokeMethod(f, t, m)
  <2>1. PICK m \in Methods : SetGranted(f, t, OtherMethods(v, m), none)
    BY <1>6 DEF RevokeMethod, none
  <2> QED BY <1>2, <1>4, <2>1
<1>7. CASE \E k \in Kinds : GrantKind(f, t, k)
  <2>1. PICK k \in Kinds : SetGranted(f, t, G \cup {Sign(k)}, {Sign(k)})
    BY <1>7 DEF GrantKind
  <2>2. Sign(k) \in Perms
    BY PagePerms
  <2>3. {Sign(k)} \in SUBSET Perms /\ G \cup {Sign(k)} \subseteq G \cup {Sign(k)}
    BY <2>2
  <2> QED BY <1>3, <2>1, <2>3
<1>8. CASE \E p \in G : RevokePerm(f, t, p)
  <2>1. PICK p \in G : SetGranted(f, t, {q \in G : Named(q) # Named(p)}, none)
    BY <1>8 DEF RevokePerm, none
  <2> QED BY <1>4, <2>1
<1>9. CASE GrantAll(f, t)
  BY <1>1, <1>3, <1>9 DEF GrantAll
<1>10. CASE RevokeAll(f, t)
  <2>1. SetGranted(f, t, none, none)
    BY <1>10 DEF RevokeAll, none
  <2> QED BY <1>1, <1>4, <2>1
<1> QED BY <1>5, <1>6, <1>7, <1>8, <1>9, <1>10 DEF EditGranted

\* The buttons for requests that wait.
LEMMA DecidePendingClicks ==
  ASSUME Inv, NEW f \in Flows, NEW t \in Tabs, tab[t].page = "connection", tab[t].view # None,
         DecidePending(f, t), UNCHANGED <<tables, fallback>>
  PROVE  Clicks(f, t)
<1> DEFINE c == tab[t].id
<1>1. /\ tab[t] \in Tab /\ tab[t].view \in Connection /\ c \in ConnIds
      /\ chosen \in [ConnIds -> SUBSET Perms]
  BY Records, KnownIds DEF Inv, FitsInv, Typed
<1>2. PICK op \in {"approve", "deny"}, p \in PendingPerms(tab[t].view) :
        \/ /\ Begin(f, t, tab[t], op, {WirePerm(p)}, "none")
           /\ chosen' = IF op = "approve" THEN [chosen EXCEPT ![c] = chosen[c] \cup {Named(p)}]
                        ELSE chosen
        \/ Begin(f, t, tab[t], op, {}, "none") /\ UNCHANGED chosen
  BY DEF DecidePending
<1>3. op \in Op /\ op \in Edits /\ op \notin Governs /\ op # "status" /\ Named(p) \in Perms
  BY <1>1, GrantedNames DEF Op, Edits, Governs
<1>4. PICK P \in SUBSET Perms :
        /\ Begin(f, t, tab[t], op, P, "none")
        /\ op = "approve" => P \subseteq chosen'[c]
        /\ chosen' \in [ConnIds -> SUBSET Perms] /\ \A d \in ConnIds : chosen[d] \subseteq chosen'[d]
  <2> DEFINE none == {}
  <2>1. CASE Begin(f, t, tab[t], op, none, "none") /\ UNCHANGED chosen
    <3>1. none \in SUBSET Perms /\ none \subseteq chosen'[c]
      OBVIOUS
    <3> HIDE DEF none
    <3> QED BY <1>1, <2>1, <3>1
  <2>2. CASE /\ Begin(f, t, tab[t], op, {WirePerm(p)}, "none")
             /\ chosen' = IF op = "approve" THEN [chosen EXCEPT ![c] = chosen[c] \cup {Named(p)}]
                          ELSE chosen
    <3>1. {WirePerm(p)} \in SUBSET Perms
      BY <1>3 DEF WirePerm
    <3>2. op = "approve" => {WirePerm(p)} \subseteq chosen'[c]
      BY <1>1, <2>2 DEF WirePerm
    <3>3. chosen' \in [ConnIds -> SUBSET Perms] /\ \A d \in ConnIds : chosen[d] \subseteq chosen'[d]
      BY <1>1, <1>3, <2>2
    <3> QED BY <2>2, <3>1, <3>2, <3>3
  <2> QED BY <1>2, <2>1, <2>2
<1>5. op \in {"set", "approve"} => P \subseteq chosen'[tab[t].id] \cup GrantedOf(tab[t].view)
  BY <1>2, <1>4
<1> QED BY <1>1, <1>3, <1>4, <1>5, BeginClicks

\* The switch for the log, the status and the deletion.
LEMMA GovernClicks ==
  ASSUME Inv, NEW f \in Flows, NEW t \in Tabs, tab[t].page = "connection", tab[t].view # None,
         Govern(f, t), UNCHANGED <<tables, fallback>>
  PROVE  Clicks(f, t)
<1> DEFINE P == {}
<1>1. PICK op \in Governs, value \in {"ACTIVE", "REVOKED", "on", "off", "none"} :
        Begin(f, t, tab[t], op, P, value) /\ (op = "status" => value \in {"ACTIVE", "REVOKED"})
  BY DEF Govern, Governs
<1>2. UNCHANGED chosen /\ op \in Op /\ op \notin {"set", "approve"} /\ P \in SUBSET Perms
  BY DEF Govern, Governs, Op
<1>3. tab[t] \in Tab /\ chosen \in [ConnIds -> SUBSET Perms]
  BY DEF Inv, FitsInv, Typed
<1>4. op \in Governs => P = {}
  OBVIOUS
<1> HIDE DEF P
<1> QED BY <1>1, <1>2, <1>3, <1>4, BeginClicks

\* A click on a connection's page.
LEMMA ClickConnectionClicks ==
  ASSUME Inv, NEW f \in Flows, NEW t \in Tabs, ClickConnection(f, t)
  PROVE  Clicks(f, t)
BY EditGrantedClicks, DecidePendingClicks, GovernClicks DEF ClickConnection

\* The buttons of the list.
LEMMA SubmitClicks ==
  ASSUME Inv, NEW f \in Flows, NEW t \in Tabs, Submit(f, t)
  PROVE  Clicks(f, t)
<1> DEFINE s == tab[t]
           b == [s EXCEPT !.busy = TRUE]
           none == {}
<1>1. /\ s \in Tab /\ chosen \in [ConnIds -> SUBSET Perms] /\ s.seed \in SUBSET Perms
  BY Records DEF Inv, FitsInv, Typed
<1>2. b \in Tab /\ b.page = s.page /\ b.id = s.id /\ b.view = s.view /\ b.listed = s.listed
  BY <1>1 DEF Tab
<1>3. none \in SUBSET Perms
  OBVIOUS
<1>4. s.page = "list" /\ UNCHANGED <<tables, chosen, fallback>>
  BY DEF Submit
<1>5. PICK op \in Lists, P \in SUBSET Perms : Begin(f, t, b, op, P, "none") \/ Begin(f, t, s, op, P, "none")
  <2>1. CASE Generate(f, t)
    BY <1>1, <2>1 DEF Generate, Lists
  <2>2. CASE Import(f, t)
    BY <2>2, PagesAssumption DEF Import, Lists
  <2>3. CASE Refresh(f, t)
    BY <1>3, <2>3 DEF Refresh, Lists
  <2> QED BY <2>1, <2>2, <2>3 DEF Submit
<1>6. op \in Op /\ op \notin Governs /\ op # "status" /\ op \notin {"set", "approve"}
  BY DEF Lists, Op, Governs
<1> HIDE DEF b
<1> QED BY <1>1, <1>2, <1>4, <1>5, <1>6, BeginClicks
-----------------------------------------------------------------------------
(* Pages that are mounted.                                                   *)

\* Leaving a handler without its page changes nothing else of it.
LEMMA LeftFlow ==
  ASSUME NEW q \in Flow
  PROVE  LET p == [q EXCEPT !.live = FALSE] IN
         /\ p \in Flow /\ ~ p.live /\ p.tab = q.tab /\ p.op = q.op /\ p.id = q.id
         /\ p.step = q.step /\ p.perms = q.perms /\ p.value = q.value /\ p.answer = q.answer
         /\ p.view = q.view /\ p.listed = q.listed
<1> DEFINE p == [q EXCEPT !.live = FALSE]
<1>1. \A b \in BOOLEAN : [q EXCEPT !.live = b] \in Flow
  BY DEF Flow
<1>2. p \in Flow
  BY <1>1
<1>3. /\ ~ p.live /\ p.tab = q.tab /\ p.op = q.op /\ p.id = q.id
      /\ p.step = q.step /\ p.perms = q.perms /\ p.value = q.value /\ p.answer = q.answer
      /\ p.view = q.view /\ p.listed = q.listed
  BY DEF Flow
<1> QED BY <1>2, <1>3

\* A tab that mounts a page begins anew: nothing else runs for it.
LEMMA MountsInv ==
  ASSUME Inv, NEW f \in Flows, NEW t \in Tabs, NEW s, NEW W, Mounts(t, s, f, W),
         \A g \in W : flow[g] # None /\ flow[g].tab = t,
         s = ListPage \/ \E c \in Known : s = Page(c),
         UNCHANGED <<tables, chosen, fallback>>, inputs' \in 0..MaxInputs
  PROVE  Inv'
<1> DEFINE op == IF s.page = "list" THEN "load" ELSE "open"
           none == {}
           r == NewFlow(t, op, s.id, none, "none")
<1>1. /\ s \in Tab /\ s.view = None /\ s.listed = none
      /\ \/ s.page = "list" /\ s.id = None
         \/ s.page = "connection" /\ s.id \in Known
  BY MountedPages, KnownIds DEF Inv
<1>2. /\ flow' = [g \in Flows |->
           IF g = f THEN r ELSE IF g \in W THEN None
           ELSE IF flow[g] # None /\ flow[g].tab = t THEN [flow[g] EXCEPT !.live = FALSE]
           ELSE flow[g]]
      /\ tab' = [tab EXCEPT ![t] = s] /\ behind' = behind \ {t}
  BY DEF Mounts
<1>3. UNCHANGED <<invite, conn, issued, chosen, fallback>> /\ Known' = Known
  BY DEF tables, Known
<1>4. /\ r \in Flow /\ r.tab = t /\ r.live /\ r.op = op /\ r.id = s.id /\ r.perms = none
      /\ r.answer = "none" /\ r.view = None /\ r.listed = none /\ r.step = "get"
  <2>1. r = NewFlow(t, op, s.id, none, "none") /\ s.id \in ConnIds \cup {None} /\ op \in Op
        /\ none \in SUBSET Perms /\ op \in {"open", "load"}
    BY <1>1, Records DEF Op
  <2>2. \A c \in ConnIds \cup {None} : r = NewFlow(t, op, c, none, "none") =>
          /\ r \in Flow /\ r.tab = t /\ r.live /\ r.op = op /\ r.id = c /\ r.perms = none
          /\ r.answer = "none" /\ r.view = None /\ r.listed = {} /\ r.step = "get"
    <3> HIDE DEF r, op
    <3> QED BY <2>1, NewFlowFields
  <2> HIDE DEF r, op
  <2> QED BY <2>1, <2>2
<1> HIDE DEF r
<1>5. flow \in [Flows -> Flow \cup {None}] /\ tab \in [Tabs -> Tab]
  BY DEF Inv, FitsInv, Typed
<1>6. /\ flow' \in [Flows -> Flow \cup {None}] /\ flow'[f] = r
      /\ \A g \in Flows \ {f} : flow'[g] # None =>
           /\ flow[g] # None /\ flow'[g].tab = flow[g].tab /\ flow'[g].op = flow[g].op
           /\ flow'[g].id = flow[g].id /\ flow'[g].step = flow[g].step
           /\ flow'[g].perms = flow[g].perms /\ flow'[g].value = flow[g].value
           /\ flow'[g].answer = flow[g].answer /\ flow'[g].view = flow[g].view
           /\ flow'[g].listed = flow[g].listed
           /\ flow'[g].live => flow[g].live /\ flow[g].tab # t
  BY <1>2, <1>4, <1>5, LeftFlow
<1>7. /\ tab' \in [Tabs -> Tab] /\ tab'[t] = s
      /\ \A u \in Tabs \ {t} : tab'[u] = tab[u]
  BY <1>1, <1>2, <1>5
<1>8. Typed'
  BY <1>2, <1>3, <1>6, <1>7 DEF Inv, FitsInv, Typed
<1>9. FitsInv'
  <2>1. FlowFits(r)' /\ PageFits(r)'
    BY <1>1, <1>3, <1>4, <1>7 DEF FlowFits, PageFits, Loads, Lists, Governs, Edits
  <2>2. ASSUME NEW g \in Flows \ {f}, flow'[g] # None PROVE FlowFits(flow[g])' /\ PageFits(flow[g])'
    <3>1. FlowFits(flow[g]) /\ PageFits(flow[g]) /\ flow[g].tab \in Tabs
      BY <1>5, <1>6, <2>2, Records DEF Inv, FitsInv
    <3>2. FlowFits(flow[g])'
      BY <1>3, <1>6, <2>2, <3>1 DEF FlowFits
    <3>3. PageFits(flow[g])'
      BY <1>6, <1>7, <2>2, <3>1 DEF PageFits
    <3> QED BY <3>2, <3>3
  <2>3. \A u \in Tabs : TabFits(tab[u])'
    BY <1>1, <1>3, <1>7 DEF TabFits, Inv, FitsInv
  <2>4. /\ \A c \in ConnIds : conn'[c] # None => c \in Known'
        /\ \A c \in ConnIds : invite'[c] # None => c \in 1..issued'
    BY <1>3 DEF Inv, FitsInv
  <2>5. \A g \in Flows : flow'[g] # None => FlowFits(flow[g])' /\ PageFits(flow[g])'
    BY <1>6, <2>1, <2>2
  <2> QED BY <1>8, <2>3, <2>4, <2>5 DEF FitsInv
<1>10. PickedInv'
  <2>1. \A c : Picked(c)' = Picked(c)
    BY <1>3 DEF Picked
  <2>2. \A g \in Flows : flow'[g] # None => FlowPicked(flow[g])'
    <3>1. FlowPicked(r)'
      BY <1>4 DEF FlowPicked
    <3>2. ASSUME NEW g \in Flows \ {f}, flow'[g] # None PROVE FlowPicked(flow[g])'
      <4>1. FlowPicked(flow[g])
        BY <1>6, <3>2 DEF Inv, PickedInv
      <4> QED BY <1>6, <2>1, <3>2, <4>1 DEF FlowPicked
    <3> QED BY <1>6, <3>1, <3>2
  <2>3. \A u \in Tabs : tab'[u].view # None => GrantedOf(tab[u].view)' \subseteq Picked(tab[u].id)'
    BY <1>1, <1>7, <2>1 DEF Inv, PickedInv, GrantedOf
  <2>4. \A c \in ConnIds : conn'[c] # None => GrantedOf(conn[c])' \subseteq Picked(c)'
    BY <1>3, <2>1 DEF Inv, PickedInv, GrantedOf
  <2>5. \A c \in ConnIds : invite'[c] # None => invite'[c] \subseteq chosen'[c]
    BY <1>3 DEF Inv, PickedInv
  <2> QED BY <2>2, <2>3, <2>4, <2>5 DEF PickedInv
<1>11. AloneInv'
  <2> SUFFICES ASSUME NEW u \in Tabs, Alone(u)' PROVE AloneWith(u)'
    BY DEF AloneInv
  <2>1. CASE u = t
    <3>1. FlowsOf(u)' = {f} /\ tab'[u].view = None
      BY <1>1, <1>4, <1>6, <1>7, <2>1, Records DEF FlowsOf
    <3>2. \A v, w : FlowSees(r, v, w)
      BY <1>4 DEF FlowSees
    <3> QED BY <1>6, <3>1, <3>2 DEF AloneWith
  <2>2. CASE u # t
    <3>1. Alone(u) /\ tab'[u] = tab[u] /\ conn' = conn
      BY <1>2, <1>3, <1>7, <2>2 DEF Alone
    <3>2. AloneWith(u)
      BY <3>1 DEF Inv, AloneInv
    <3>3. f \notin FlowsOf(u) /\ \A g \in W : g \notin FlowsOf(u)
      BY <2>2 DEF Mounts, FlowsOf
    <3>4. \A g \in FlowsOf(u) : flow'[g] = flow[g]
      BY <1>2, <2>2, <3>3 DEF FlowsOf
    <3>5. FlowsOf(u)' \subseteq FlowsOf(u)
      BY <1>4, <1>6, <2>2 DEF FlowsOf
    <3>6. FlowsOf(u) \subseteq FlowsOf(u)'
      BY <3>4 DEF FlowsOf
    <3>7. FlowsOf(u)' = FlowsOf(u)
      BY <3>5, <3>6
    <3> QED BY <3>1, <3>2, <3>4, <3>7 DEF AloneWith
  <2> QED BY <2>1, <2>2
<1> QED BY <1>9, <1>10, <1>11 DEF Inv

\* From the list to a connection, or back.
LEMMA NavigateInv ==
  ASSUME Inv, NEW f \in Flows, NEW t \in Tabs, Navigate(f, t)
  PROVE  Inv'
<1> DEFINE none == {}
<1>1. UNCHANGED <<tables, chosen, fallback>> /\ inputs' \in 0..MaxInputs
  BY InputType DEF Navigate, Inv, FitsInv
<1>2. \A g \in none : flow[g] # None /\ flow[g].tab = t
  OBVIOUS
<1>3. PICK s : Mounts(t, s, f, none) /\ (s = ListPage \/ \E c \in Known : s = Page(c))
  BY DEF Navigate, Inv, FitsInv, TabFits
<1> HIDE DEF none
<1> QED BY <1>1, <1>2, <1>3, MountsInv

\* A handler after which its tab mounts the list.
LEMMA BackToList ==
  ASSUME Inv, NEW f \in Flows, flow[f] # None, NEW g \in Flows,
         Mounts(flow[f].tab, ListPage, g, {f}), UNCHANGED <<tables, inputs, chosen, fallback>>
  PROVE  Inv'
<1> DEFINE W == {f}
           t == flow[f].tab
<1>1. \A h \in W : flow[h] # None /\ flow[h].tab = t
  OBVIOUS
<1>2. t \in Tabs /\ inputs' \in 0..MaxInputs
  BY Records DEF Inv, FitsInv, Typed
<1>3. Mounts(t, ListPage, g, W)
  OBVIOUS
<1> HIDE DEF W, t
<1> QED BY <1>1, <1>2, <1>3, MountsInv
-----------------------------------------------------------------------------
(* What a handler writes to its page.                                        *)

\* The copy on the page, after the answer of handler q.
ViewOf(q, v) ==
  IF q.op \in Loads /\ q.step = "get" /\ q.answer = "ok" THEN q.view
  ELSE IF q.op = "logging" /\ q.answer = "ok" THEN [v EXCEPT !.logging = q.value = "on"]
  ELSE IF q.op = "status" /\ q.answer = "ok" THEN [v EXCEPT !.status = q.value]
  ELSE v

\* Handler f was answered: it writes to its page, if that is still there, and
\* ends or asks for more.
Shows(f) ==
  /\ flow[f] # None /\ flow[f].answer # "none"
  /\ flow[f].op \in Edits /\ flow[f].answer = "ok" => flow[f].step \in {"call", "get"}
  /\ \E r \in Flow \cup {None} :
       /\ flow' = [flow EXCEPT ![f] = r]
       /\ r # None =>
            /\ r.tab = flow[f].tab /\ r.live = flow[f].live /\ r.op = flow[f].op
            /\ r.id = flow[f].id /\ r.perms = flow[f].perms /\ r.value = flow[f].value
            /\ r.listed = flow[f].listed /\ r.answer = "none" /\ r.view = None
            /\ (flow[f].op \in Edits /\ r.step = "get") \/ flow[f].op = "import"
       /\ flow[f].op \in Edits /\ flow[f].step = "call" /\ flow[f].answer = "ok" /\ flow[f].live =>
            r # None
       /\ flow[f].op \in Edits /\ flow[f].step = "get" => r = None
  /\ tab' \in [Tabs -> Tab]
  /\ \A u \in Tabs :
       /\ tab'[u].page = tab[u].page /\ tab'[u].id = tab[u].id
       /\ tab'[u].listed \in {tab[u].listed, flow[f].listed}
       /\ tab'[u].view = IF flow[f].live /\ u = flow[f].tab THEN ViewOf(flow[f], tab[u].view)
                         ELSE tab[u].view
  /\ UNCHANGED <<tables, inputs, history>>

\* What is written to a page that is there.
LEMMA WritesTab ==
  ASSUME Inv, NEW f \in Flows, flow[f] # None, NEW s, Writes(f, s),
         flow[f].live => /\ s \in Tab /\ s.page = At(f).page /\ s.id = At(f).id
                         /\ s.listed \in {At(f).listed, flow[f].listed}
                         /\ s.view = ViewOf(flow[f], At(f).view)
  PROVE  /\ tab' \in [Tabs -> Tab]
         /\ \A u \in Tabs :
              /\ tab'[u].page = tab[u].page /\ tab'[u].id = tab[u].id
              /\ tab'[u].listed \in {tab[u].listed, flow[f].listed}
              /\ tab'[u].view = IF flow[f].live /\ u = flow[f].tab THEN ViewOf(flow[f], tab[u].view)
                                ELSE tab[u].view
<1>1. tab \in [Tabs -> Tab] /\ flow[f].tab \in Tabs
  BY Records DEF Inv, FitsInv, Typed
<1> QED BY <1>1 DEF Writes, At

\* A handler that ends.
LEMMA EndsShows ==
  ASSUME Inv, NEW f \in Flows, flow[f] # None, flow[f].answer # "none", Ends(f),
         \/ flow[f].answer = "failed" \/ flow[f].op \notin Edits \/ flow[f].step = "get"
         \/ flow[f].step = "call" /\ ~ flow[f].live,
         NEW s, Writes(f, s),
         flow[f].live => /\ s \in Tab /\ s.page = At(f).page /\ s.id = At(f).id
                         /\ s.listed \in {At(f).listed, flow[f].listed}
                         /\ s.view = ViewOf(flow[f], At(f).view),
         UNCHANGED <<tables, inputs, history>>
  PROVE  Shows(f)
<1>1. /\ tab' \in [Tabs -> Tab]
      /\ \A u \in Tabs :
           /\ tab'[u].page = tab[u].page /\ tab'[u].id = tab[u].id
           /\ tab'[u].listed \in {tab[u].listed, flow[f].listed}
           /\ tab'[u].view = IF flow[f].live /\ u = flow[f].tab THEN ViewOf(flow[f], tab[u].view)
                             ELSE tab[u].view
  BY WritesTab
<1>2. flow' = [flow EXCEPT ![f] = None]
  BY DEF Ends
<1>3. flow[f].op \in Edits /\ flow[f].step = "call" /\ flow[f].answer = "ok" => ~ flow[f].live
  OBVIOUS
<1>4. flow[f].op \in Edits /\ flow[f].answer = "ok" => flow[f].step \in {"call", "get"}
  OBVIOUS
<1> QED BY <1>1, <1>2, <1>3, <1>4 DEF Shows

\* The page as it is, with one field written.
LEMMA AtFields ==
  ASSUME Inv, NEW f \in Flows, flow[f] # None
  PROVE  /\ flow[f] \in Flow /\ FlowFits(flow[f]) /\ PageFits(flow[f]) /\ At(f) \in Tab
         /\ \A v \in Connection \cup {None} : LET s == [At(f) EXCEPT !.view = v] IN
              /\ s \in Tab /\ s.page = At(f).page /\ s.id = At(f).id
              /\ s.listed = At(f).listed /\ s.view = v
         /\ \A b \in BOOLEAN : LET s == [At(f) EXCEPT !.busy = b] IN
              /\ s \in Tab /\ s.page = At(f).page /\ s.id = At(f).id
              /\ s.listed = At(f).listed /\ s.view = At(f).view
         /\ \A L \in SUBSET ConnIds : LET s == [At(f) EXCEPT !.listed = L] IN
              /\ s \in Tab /\ s.page = At(f).page /\ s.id = At(f).id
              /\ s.listed = L /\ s.view = At(f).view
<1>1. flow[f] \in Flow /\ At(f) \in Tab
  BY Records DEF Inv, FitsInv, Typed, At
<1>2. FlowFits(flow[f]) /\ PageFits(flow[f])
  BY DEF Inv, FitsInv
<1>3. \A v \in Connection \cup {None} : LET s == [At(f) EXCEPT !.view = v] IN
        /\ s \in Tab /\ s.page = At(f).page /\ s.id = At(f).id
        /\ s.listed = At(f).listed /\ s.view = v
  BY <1>1 DEF Tab
<1>4. \A b \in BOOLEAN : LET s == [At(f) EXCEPT !.busy = b] IN
        /\ s \in Tab /\ s.page = At(f).page /\ s.id = At(f).id
        /\ s.listed = At(f).listed /\ s.view = At(f).view
  BY <1>1 DEF Tab
<1>5. \A L \in SUBSET ConnIds : LET s == [At(f) EXCEPT !.listed = L] IN
        /\ s \in Tab /\ s.page = At(f).page /\ s.id = At(f).id
        /\ s.listed = L /\ s.view = At(f).view
  BY <1>1 DEF Tab
<1> QED BY <1>1, <1>2, <1>3, <1>4, <1>5

\* The switch and the status of a copy.
LEMMA GovernedView ==
  ASSUME NEW v \in Connection
  PROVE  /\ \A b \in BOOLEAN : LET w == [v EXCEPT !.logging = b] IN
              w \in Connection /\ w.permissions = v.permissions
         /\ \A x \in {"ACTIVE", "REVOKED"} : LET w == [v EXCEPT !.status = x] IN
              w \in Connection /\ w.permissions = v.permissions
<1>1. \A b \in BOOLEAN : LET w == [v EXCEPT !.logging = b] IN
        w \in Connection /\ w.permissions = v.permissions
  BY DEF Connection
<1>2. \A x \in {"ACTIVE", "REVOKED"} : LET w == [v EXCEPT !.status = x] IN
        w \in Connection /\ w.permissions = v.permissions
  BY DEF Connection
<1> QED BY <1>1, <1>2

\* A handler that asks for more: an edit for the connection, an import for the next.
LEMMA ContinueShows ==
  ASSUME Inv, NEW f \in Flows, flow[f] # None, flow[f].answer = "ok",
         NEW step \in {"call", "get"}, Continue(f, step),
         \/ flow[f].op \in Edits /\ flow[f].step = "call" /\ step = "get"
         \/ flow[f].op = "import",
         UNCHANGED <<tables, tab, inputs, history>>
  PROVE  Shows(f)
<1> DEFINE r == [[[flow[f] EXCEPT !.step = step] EXCEPT !.answer = "none"] EXCEPT !.view = None]
<1>1. flow \in [Flows -> Flow \cup {None}] /\ flow[f] \in Flow /\ tab \in [Tabs -> Tab]
  BY DEF Inv, FitsInv, Typed
<1>2. flow' = [flow EXCEPT ![f] = r]
  BY <1>1 DEF Continue
<1>3. /\ r \in Flow /\ r.tab = flow[f].tab /\ r.live = flow[f].live /\ r.op = flow[f].op
      /\ r.id = flow[f].id /\ r.perms = flow[f].perms /\ r.value = flow[f].value
      /\ r.listed = flow[f].listed /\ r.answer = "none" /\ r.view = None /\ r.step = step
  BY <1>1 DEF Flow
<1> HIDE DEF r
<1>4. r # None
  BY <1>3, Records
<1>5. flow[f].op \in Edits => flow[f].step = "call"
  BY DEF Edits
<1>6. \A u \in Tabs : ViewOf(flow[f], tab[u].view) = tab[u].view
  BY <1>5 DEF ViewOf, Loads, Edits
<1>7. \E q \in Flow \cup {None} :
       /\ flow' = [flow EXCEPT ![f] = q]
       /\ q # None =>
            /\ q.tab = flow[f].tab /\ q.live = flow[f].live /\ q.op = flow[f].op
            /\ q.id = flow[f].id /\ q.perms = flow[f].perms /\ q.value = flow[f].value
            /\ q.listed = flow[f].listed /\ q.answer = "none" /\ q.view = None
            /\ (flow[f].op \in Edits /\ q.step = "get") \/ flow[f].op = "import"
       /\ flow[f].op \in Edits /\ flow[f].step = "call" /\ flow[f].answer = "ok" /\ flow[f].live =>
            q # None
       /\ flow[f].op \in Edits /\ flow[f].step = "get" => q = None
  <2>1. (flow[f].op \in Edits /\ r.step = "get") \/ flow[f].op = "import"
    BY <1>3
  <2> QED BY <1>2, <1>3, <1>4, <1>5, <2>1
<1> QED BY <1>1, <1>5, <1>6, <1>7 DEF Shows

\* A handler that ends, and leaves the page as it is.
LEMMA EndsQuietly ==
  ASSUME Inv, NEW f \in Flows, flow[f] # None, flow[f].answer # "none", Ends(f),
         \/ flow[f].answer = "failed" \/ flow[f].op \in Lists \cup {"delete"}
         \/ flow[f].op \in Edits /\ flow[f].step = "call" /\ ~ flow[f].live,
         UNCHANGED <<tab, tables, inputs, history>>
  PROVE  Shows(f)
<1>1. At(f) \in Tab /\ Writes(f, At(f))
  BY AtFields DEF Inv, FitsInv, Typed, Writes, At
<1>2. ViewOf(flow[f], At(f).view) = At(f).view
  BY DEF ViewOf, Loads, Edits, Lists
<1>3. \/ flow[f].answer = "failed" \/ flow[f].op \notin Edits \/ flow[f].step = "get"
      \/ flow[f].step = "call" /\ ~ flow[f].live
  BY DEF Lists, Edits
<1> QED BY <1>1, <1>2, <1>3, EndsShows

\* An edit was stored: its handler loads the page again, unless it was left.
LEMMA EditedShows ==
  ASSUME Inv, NEW f \in Flows, Edited(f)
  PROVE  Shows(f)
<1>1. /\ flow[f] # None /\ flow[f].op \in Edits /\ flow[f].step = "call" /\ flow[f].answer = "ok"
      /\ UNCHANGED <<tables, tab, inputs, history>>
      /\ Continue(f, "get") \/ (Ends(f) /\ ~ flow[f].live)
  BY DEF Edited, Gets, Reloads
<1> QED BY <1>1, ContinueShows, EndsQuietly

\* The page shows the connection it loaded.
LEMMA LoadedShows ==
  ASSUME Inv, NEW f \in Flows, Loaded(f)
  PROVE  Shows(f)
<1> DEFINE s == [At(f) EXCEPT !.view = flow[f].view]
<1>1. /\ flow[f] # None /\ flow[f].op \in Loads /\ flow[f].step = "get" /\ flow[f].answer = "ok"
      /\ Writes(f, s) /\ Ends(f) /\ UNCHANGED <<tables, inputs, history>>
  BY DEF Loaded, Gets, Loads
<1>2. flow[f].view \in Connection \cup {None}
  BY <1>1, AtFields, Records
<1>3. /\ s \in Tab /\ s.page = At(f).page /\ s.id = At(f).id /\ s.listed = At(f).listed
      /\ s.view = ViewOf(flow[f], At(f).view)
  BY <1>1, <1>2, AtFields DEF ViewOf
<1> HIDE DEF s
<1> QED BY <1>1, <1>3, EndsShows

\* The page changes what it shows of the connection itself.
LEMMA GovernedShows ==
  ASSUME Inv, NEW f \in Flows, Governed(f)
  PROVE  Shows(f)
<1> DEFINE w == ViewOf(flow[f], At(f).view)
           s == IF flow[f].op = "logging" THEN [At(f) EXCEPT !.view.logging = flow[f].value = "on"]
                ELSE [At(f) EXCEPT !.view.status = flow[f].value]
<1>1. /\ flow[f] # None /\ flow[f].op \in {"logging", "status"} /\ flow[f].answer = "ok"
      /\ Writes(f, s) /\ Ends(f) /\ UNCHANGED <<tables, inputs, history>>
  BY DEF Governed, Gets
<1>2. flow[f].op \notin Loads /\ flow[f].op \notin Edits /\ flow[f].op \notin Lists
  BY <1>1 DEF Loads, Edits, Lists
<1>3. /\ At(f) \in Tab /\ flow[f] \in Flow /\ FlowFits(flow[f]) /\ PageFits(flow[f])
      /\ At(f).view \in Connection \cup {None}
  BY <1>1, AtFields, Records
<1>4. flow[f].live => At(f).view \in Connection
  BY <1>1, <1>2, <1>3 DEF PageFits, At
<1>5. flow[f].live => w \in Connection
  BY <1>1, <1>2, <1>3, <1>4, GovernedView DEF ViewOf, FlowFits
<1>6. s = [At(f) EXCEPT !.view = w]
  BY <1>1, <1>2, <1>3 DEF ViewOf, Tab
<1> HIDE DEF s, w
<1>7. flow[f].live => /\ s \in Tab /\ s.page = At(f).page /\ s.id = At(f).id
                      /\ s.listed = At(f).listed /\ s.view = w
  BY <1>1, <1>5, <1>6, AtFields
<1> QED BY <1>1, <1>2, <1>7, EndsShows DEF w

\* A request failed: the page shows what it showed.
LEMMA FailsShows ==
  ASSUME Inv, NEW f \in Flows, Fails(f)
  PROVE  Shows(f)
<1> DEFINE b == [At(f) EXCEPT !.busy = FALSE]
<1>1. /\ flow[f] # None /\ flow[f].answer = "failed" /\ Ends(f)
      /\ Writes(f, b) \/ Writes(f, At(f))
      /\ UNCHANGED <<tables, inputs, history>>
  BY DEF Fails
<1>2. ViewOf(flow[f], At(f).view) = At(f).view
  BY <1>1 DEF ViewOf
<1>3. /\ b \in Tab /\ b.page = At(f).page /\ b.id = At(f).id
      /\ b.listed = At(f).listed /\ b.view = At(f).view /\ At(f) \in Tab
  BY <1>1, AtFields
<1> HIDE DEF b
<1> QED BY <1>1, <1>2, <1>3, EndsShows

\* The list shows the URI that was made.
LEMMA GeneratedShows ==
  ASSUME Inv, NEW f \in Flows, Generated(f)
  PROVE  Shows(f)
<1> DEFINE s == [At(f) EXCEPT !.uri = flow[f].id, !.busy = FALSE]
<1>1. /\ flow[f] # None /\ flow[f].answer = "ok" /\ flow[f].op = "generate"
      /\ Writes(f, s) /\ Ends(f) /\ UNCHANGED <<tables, inputs, history>>
  BY DEF Generated, Gets
<1>2. flow[f].id \in ConnIds /\ At(f) \in Tab
  BY <1>1, AtFields DEF FlowFits
<1>3. /\ s \in Tab /\ s.page = At(f).page /\ s.id = At(f).id
      /\ s.listed = At(f).listed /\ s.view = At(f).view
  BY <1>2 DEF Tab
<1>4. ViewOf(flow[f], At(f).view) = At(f).view /\ flow[f].op \notin Edits
  BY <1>1 DEF ViewOf, Loads, Edits
<1> HIDE DEF s
<1> QED BY <1>1, <1>3, <1>4, EndsShows

\* The list is loaded again, with a new form or as it is.
LEMMA ListedShows ==
  ASSUME Inv, NEW f \in Flows, Listed(f) \/ Imported(f)
  PROVE  Shows(f)
<1> DEFINE L == flow[f].listed
           s == [At(f) EXCEPT !.listed = L]
           z == [Reset(At(f)) EXCEPT !.listed = L]
<1>1. /\ flow[f] # None /\ flow[f].answer = "ok" /\ flow[f].op \in {"load", "import"}
      /\ UNCHANGED <<tables, inputs, history>>
  BY DEF Listed, Imported, Gets
<1>2. At(f) \in Tab /\ L \in SUBSET ConnIds
  BY <1>1, AtFields, Records
<1>3. /\ s \in Tab /\ s.page = At(f).page /\ s.id = At(f).id /\ s.listed = L /\ s.view = At(f).view
  BY <1>1, <1>2, AtFields
<1>4. /\ z \in Tab /\ z.page = At(f).page /\ z.id = At(f).id /\ z.listed = L /\ z.view = At(f).view
  BY <1>2, PagePerms DEF Reset, Tab
<1>5. ViewOf(flow[f], At(f).view) = At(f).view /\ flow[f].op \notin Edits
  BY <1>1 DEF ViewOf, Loads, Edits
<1>6. \/ flow[f].op = "import" /\ UNCHANGED tab /\ Continue(f, "call")
      \/ flow[f].op = "import" /\ UNCHANGED tab /\ Continue(f, "get")
      \/ Ends(f) /\ (Writes(f, s) \/ Writes(f, z))
  BY DEF Listed, Imported, Gets
<1> HIDE DEF s, z
<1>7. CASE flow[f].op = "import" /\ UNCHANGED tab /\ (Continue(f, "call") \/ Continue(f, "get"))
  BY <1>1, <1>7, ContinueShows
<1>8. CASE Ends(f) /\ (Writes(f, s) \/ Writes(f, z))
  BY <1>1, <1>3, <1>4, <1>5, <1>8, EndsShows
<1> QED BY <1>6, <1>7, <1>8

\* What a handler writes keeps what holds.
LEMMA ShowsInv ==
  ASSUME Inv, NEW f \in Flows, Shows(f)
  PROVE  Inv'
<1>1. PICK r \in Flow \cup {None} :
       /\ flow' = [flow EXCEPT ![f] = r]
       /\ r # None =>
            /\ r.tab = flow[f].tab /\ r.live = flow[f].live /\ r.op = flow[f].op
            /\ r.id = flow[f].id /\ r.perms = flow[f].perms /\ r.value = flow[f].value
            /\ r.listed = flow[f].listed /\ r.answer = "none" /\ r.view = None
            /\ (flow[f].op \in Edits /\ r.step = "get") \/ flow[f].op = "import"
       /\ flow[f].op \in Edits /\ flow[f].step = "call" /\ flow[f].answer = "ok" /\ flow[f].live =>
            r # None
       /\ flow[f].op \in Edits /\ flow[f].step = "get" => r = None
  BY DEF Shows
<1> DEFINE q == flow[f]
           t == flow[f].tab
           w == ViewOf(q, tab[t].view)
<1>2. /\ q # None /\ q.answer # "none"
      /\ q.op \in Edits /\ q.answer = "ok" => q.step \in {"call", "get"}
      /\ tab' \in [Tabs -> Tab]
      /\ \A u \in Tabs :
           /\ tab'[u].page = tab[u].page /\ tab'[u].id = tab[u].id
           /\ tab'[u].listed \in {tab[u].listed, q.listed}
           /\ tab'[u].view = IF q.live /\ u = t THEN w ELSE tab[u].view
      /\ UNCHANGED <<invite, conn, issued, inputs, chosen, fallback, behind>> /\ Known' = Known
  BY DEF Shows, tables, history, Known
<1>3. /\ q \in Flow /\ FlowFits(q) /\ PageFits(q) /\ tab[t] \in Tab /\ t \in Tabs
      /\ q.view \in Connection \cup {None} /\ tab[t].view \in Connection \cup {None}
  BY <1>2, AtFields, Records DEF At
<1>4. flow \in [Flows -> Flow \cup {None}]
      /\ \A g \in Flows : flow'[g] = IF g = f THEN r ELSE flow[g]
  BY <1>1 DEF Inv, FitsInv, Typed
<1>more. r # None => q.op \in Edits \/ q.op = "import"
  BY <1>1
<1>5. q.op \in Lists => w = tab[t].view
  BY DEF ViewOf, Lists, Loads, Edits
<1>6. q.live /\ q.op \notin Lists /\ q.op # "open" => w \in Connection
  <2> SUFFICES ASSUME q.live, q.op \notin Lists, q.op # "open" PROVE w \in Connection
    OBVIOUS
  <2>1. tab[t].view \in Connection
    BY <1>3 DEF PageFits
  <2>2. q.op \in Loads /\ q.step = "get" /\ q.answer = "ok" => q.view \in Connection
    BY <1>3 DEF FlowFits
  <2>3. q.op = "status" => q.value \in {"ACTIVE", "REVOKED"}
    BY <1>3 DEF FlowFits
  <2> QED BY <2>1, <2>2, <2>3, GovernedView DEF ViewOf
<1>7. Typed'
  BY <1>1, <1>2, <1>4 DEF Inv, FitsInv, Typed
<1>8. FitsInv'
  <2>1. r # None => FlowFits(r)'
    BY <1>1, <1>2, <1>3 DEF FlowFits, Loads, Edits, Governs
  <2>2. \A g \in Flows : flow[g] # None /\ (flow[g].live => flow[g].op \in Lists \cup {"open"}
                           \/ tab'[flow[g].tab].view # None) => PageFits(flow[g])' \/ g = f
    <3> SUFFICES ASSUME NEW g \in Flows, flow[g] # None, g # f,
                        flow[g].live => flow[g].op \in Lists \cup {"open"}
                                         \/ tab'[flow[g].tab].view # None
                 PROVE  PageFits(flow[g])'
      OBVIOUS
    <3>1. PageFits(flow[g]) /\ flow[g].tab \in Tabs /\ flow'[g] = flow[g]
      BY <1>4, Records DEF Inv, FitsInv
    <3> QED BY <1>2, <3>1 DEF PageFits
  <2>3. \A u \in Tabs : tab[u].view # None /\ tab[u].page = "connection" => tab'[u].view # None
    <3> SUFFICES ASSUME NEW u \in Tabs, tab[u].view # None PROVE tab'[u].view # None
      OBVIOUS
    <3>1. CASE q.live /\ u = t /\ q.op = "open"
      <4>1. q.step = "get" /\ (q.answer = "ok" => q.view # None)
        BY <1>3, <3>1 DEF FlowFits, Loads
      <4>2. w = IF q.answer = "ok" THEN q.view ELSE tab[u].view
        BY <3>1, <4>1 DEF ViewOf, Loads
      <4> QED BY <1>2, <3>1, <4>1, <4>2
    <3>2. CASE q.live /\ u = t /\ q.op # "open"
      BY <1>2, <1>5, <1>6, <3>2, Records
    <3>3. CASE ~ (q.live /\ u = t)
      BY <1>2, <3>3
    <3> QED BY <3>1, <3>2, <3>3
  <2>4. ASSUME NEW g \in Flows, flow'[g] # None PROVE FlowFits(flow[g])' /\ PageFits(flow[g])'
    <3>1. CASE g = f
      <4>1. r # None /\ flow'[g] = r
        BY <1>4, <2>4, <3>1
      <4>2. q.live /\ q.op \notin Lists /\ q.op # "open" => tab'[t].view # None
        BY <1>2, <1>3, <1>6, Records
      <4>3. r.tab = t /\ r.live = q.live /\ r.op = q.op /\ r.id = q.id /\ q.op # "open"
        BY <1>1, <1>more, <4>1 DEF Edits
      <4>4. PageFits(r)'
        BY <1>2, <1>3, <4>2, <4>3 DEF PageFits
      <4> QED BY <2>1, <4>1, <4>4
    <3>2. CASE g # f
      <4>1. flow[g] # None /\ flow'[g] = flow[g] /\ FlowFits(flow[g]) /\ PageFits(flow[g])
            /\ flow[g].tab \in Tabs
        BY <1>4, <2>4, <3>2, Records DEF Inv, FitsInv
      <4>2. FlowFits(flow[g])'
        BY <1>2, <4>1 DEF FlowFits
      <4>3. PageFits(flow[g])'
        BY <1>2, <2>3, <4>1 DEF PageFits
      <4> QED BY <4>2, <4>3
    <3> QED BY <3>1, <3>2
  <2>5. \A u \in Tabs : TabFits(tab[u])'
    <3> SUFFICES ASSUME NEW u \in Tabs PROVE TabFits(tab[u])'
      OBVIOUS
    <3>1. TabFits(tab[u]) /\ q.listed \subseteq Known
      BY <1>3 DEF Inv, FitsInv, FlowFits
    <3>2. tab[u].page = "list" => tab'[u].view = tab[u].view
      BY <1>2, <1>3, <1>5 DEF PageFits
    <3> QED BY <1>2, <3>1, <3>2 DEF TabFits
  <2>6. /\ \A c \in ConnIds : conn'[c] # None => c \in Known'
        /\ \A c \in ConnIds : invite'[c] # None => c \in 1..issued'
    BY <1>2 DEF Inv, FitsInv
  <2>7. \A g \in Flows : flow'[g] # None => FlowFits(flow[g])' /\ PageFits(flow[g])'
    BY <2>4
  <2> QED BY <1>7, <2>5, <2>6, <2>7 DEF FitsInv
<1>9. PickedInv'
  <2>1. \A c : Picked(c)' = Picked(c)
    BY <1>2 DEF Picked
  <2>2. FlowPicked(q) /\ (tab[t].view # None => GrantedOf(tab[t].view) \subseteq Picked(tab[t].id))
    BY <1>2, <1>3 DEF Inv, PickedInv
  <2>3. q.live /\ w # None => GrantedOf(w) \subseteq Picked(tab[t].id)
    <3> SUFFICES ASSUME q.live, w # None PROVE GrantedOf(w) \subseteq Picked(tab[t].id)
      OBVIOUS
    <3>1. CASE q.op \in Loads /\ q.step = "get" /\ q.answer = "ok"
      <4>1. w = q.view /\ tab[t].id = q.id
        BY <1>3, <3>1 DEF ViewOf, PageFits, Lists, Loads, Edits
      <4> QED BY <2>2, <4>1 DEF FlowPicked
    <3>2. CASE w = tab[t].view
      BY <2>2, <3>2
    <3>3. CASE q.op \in {"logging", "status"}
      <4>1. tab[t].view \in Connection
        BY <1>3, <3>3 DEF PageFits, Lists
      <4>2. w.permissions = tab[t].view.permissions
        BY <1>3, <3>3, <4>1, GovernedView DEF ViewOf, FlowFits, Loads, Edits
      <4> QED BY <2>2, <4>1, <4>2, Records DEF GrantedOf
    <3> QED BY <3>1, <3>2, <3>3 DEF ViewOf
  <2>4. \A u \in Tabs : tab'[u].view # None => GrantedOf(tab[u].view)' \subseteq Picked(tab[u].id)'
    <3> SUFFICES ASSUME NEW u \in Tabs, tab'[u].view # None
                 PROVE  GrantedOf(tab'[u].view) \subseteq Picked(tab[u].id)
      BY <1>2, <2>1 DEF GrantedOf
    <3> QED BY <1>2, <2>3 DEF Inv, PickedInv
  <2>5. \A g \in Flows : flow'[g] # None => FlowPicked(flow[g])'
    <3> SUFFICES ASSUME NEW g \in Flows, flow'[g] # None PROVE FlowPicked(flow[g])'
      OBVIOUS
    <3>1. CASE g = f
      <4>1. r # None /\ flow'[g] = r
        BY <1>4, <3>1
      <4> QED BY <1>1, <2>1, <2>2, <4>1 DEF FlowPicked
    <3>2. CASE g # f
      <4>1. flow'[g] = flow[g] /\ FlowPicked(flow[g])
        BY <1>4, <3>2 DEF Inv, PickedInv
      <4> QED BY <2>1, <4>1 DEF FlowPicked
    <3> QED BY <3>1, <3>2
  <2>6. /\ \A c \in ConnIds : conn'[c] # None => GrantedOf(conn[c])' \subseteq Picked(c)'
        /\ \A c \in ConnIds : invite'[c] # None => invite'[c] \subseteq chosen'[c]
    BY <1>2, <2>1 DEF Inv, PickedInv, GrantedOf
  <2> QED BY <2>4, <2>5, <2>6 DEF PickedInv
<1>10. AloneInv'
  <2> SUFFICES ASSUME NEW u \in Tabs, Alone(u)' PROVE AloneWith(u)'
    BY DEF AloneInv
  <2>1. Alone(u) /\ conn'[tab'[u].id] = conn[tab[u].id]
    BY <1>2 DEF Alone
  <2> DEFINE v == tab[u].view
             x == conn[tab[u].id]
  <2>2. /\ v # None => x # None
        /\ FlowsOf(u) = {} => v = x
        /\ \A g, h \in FlowsOf(u) : g = h
        /\ \A g \in FlowsOf(u) : FlowSees(flow[g], v, x)
    BY <2>1 DEF Inv, AloneInv, AloneWith
  <2>3. CASE f \notin FlowsOf(u)
    <3>1. tab'[u].view = v
      BY <1>2, <2>3 DEF FlowsOf
    <3>2. FlowsOf(u)' = FlowsOf(u) /\ \A g \in FlowsOf(u) : flow'[g] = flow[g]
      BY <1>1, <1>2, <1>4, <2>3 DEF FlowsOf
    <3> QED BY <2>1, <2>2, <3>1, <3>2 DEF AloneWith
  <2>4. CASE f \in FlowsOf(u)
    <3>1. q.live /\ u = t /\ tab[u].page = "connection" /\ tab'[u].view = w
      BY <1>2, <2>1, <2>4 DEF FlowsOf, Alone
    <3>2. q.op \notin Lists /\ FlowSees(q, v, x) /\ q.answer = "ok"
      BY <1>2, <1>3, <2>2, <2>4, <3>1, Records DEF PageFits, FlowSees
    <3>3. FlowsOf(u)' = IF r = None THEN {} ELSE {f}
      BY <1>1, <1>4, <2>2, <2>4, <3>1 DEF FlowsOf
    <3>4. CASE q.op \in Loads /\ q.step = "get"
      <4>1. r = None
        BY <1>1, <1>3, <3>2, <3>4 DEF Loads, Lists, Edits
      <4>2. w = x
        BY <3>2, <3>4 DEF ViewOf, FlowSees
      <4> QED BY <2>1, <3>1, <3>3, <4>1, <4>2 DEF AloneWith
    <3>5. CASE q.op \in Edits /\ q.step = "call"
      <4>1. w = v
        BY <3>1, <3>5 DEF ViewOf, Edits
      <4>2. r # None
        BY <1>1, <3>1, <3>2, <3>5
      <4>3. r.answer = "none" /\ r.step = "get"
        BY <1>1, <3>5, <4>2 DEF Edits
      <4>4. FlowSees(r, v, x)
        <5>1. r.op \notin {"logging", "status"}
          BY <1>1, <3>5, <4>2 DEF Edits
        <5> QED BY <4>3, <5>1 DEF FlowSees
      <4> QED BY ZenonT(40), <1>4, <2>1, <2>2, <3>1, <3>3, <4>1, <4>2, <4>4 DEF AloneWith
    <3>6. CASE q.op \in {"logging", "status"}
      <4>1. r = None
        BY <1>more, <3>6 DEF Edits
      <4>2. w = x
        <5>1. q.op \notin Loads /\ tab[t].view = v
          BY <3>1, <3>6 DEF Loads, Edits
        <5>2. CASE q.op = "logging"
          BY <3>2, <5>1, <5>2 DEF ViewOf, FlowSees
        <5>3. CASE q.op = "status"
          BY <3>2, <5>1, <5>3 DEF ViewOf, FlowSees
        <5> QED BY <3>6, <5>2, <5>3
      <4> QED BY <2>1, <3>1, <3>3, <4>1, <4>2 DEF AloneWith
    <3>7. q.op # "delete"
      BY <3>2 DEF FlowSees
    <3>8. q.op \in Edits \cup {"open", "logging", "status"}
      BY <1>3, <3>2, <3>7, Records DEF Op, Lists
    <3>9. \/ q.op \in Loads /\ q.step = "get"
          \/ q.op \in Edits /\ q.step = "call"
          \/ q.op \in {"logging", "status"}
      BY <1>2, <1>3, <3>2, <3>8 DEF Loads, FlowFits
    <3> QED BY <3>4, <3>5, <3>6, <3>9
  <2> QED BY <2>3, <2>4
<1> QED BY <1>8, <1>9, <1>10 DEF Inv

\* The deletion that was confirmed, and a page that cannot load.
LEMMA DeletedInv ==
  ASSUME Inv, NEW f \in Flows, Deleted(f)
  PROVE  Inv'
<1>1. /\ flow[f] # None /\ flow[f].op = "delete" /\ flow[f].answer = "ok"
      /\ UNCHANGED <<tables, inputs, chosen, fallback>>
  BY DEF Deleted, Gets
<1>2. CASE Ends(f) /\ UNCHANGED <<tab, behind>>
  BY <1>1, <1>2, EndsQuietly, ShowsInv DEF history
<1>3. CASE \E g \in Flows : Mounts(flow[f].tab, ListPage, g, {f})
  BY <1>1, <1>3, BackToList
<1> QED BY <1>2, <1>3 DEF Deleted

\* The connection could not be loaded.
LEMMA UnloadedInv ==
  ASSUME Inv, NEW f \in Flows, Unloaded(f)
  PROVE  Inv'
BY BackToList DEF Unloaded, Gets

\* Whatever handler goes on.
LEMMA ApplyInv ==
  ASSUME Inv, NEW f \in Flows, Apply(f)
  PROVE  Inv'
BY ShowsInv, EditedShows, LoadedShows, GovernedShows, FailsShows, GeneratedShows, ListedShows,
   DeletedInv, UnloadedInv DEF Apply

\* Clicks that ask nothing.
LEMMA FillInv ==
  ASSUME Inv, NEW t \in Tabs, Fill(t)
  PROVE  Inv'
<1>1. Typed /\ tab \in [Tabs -> Tab] /\ tab[t] \in Tab /\ tab[t].page = "list"
  BY DEF Inv, FitsInv, Typed, Fill
<1>2. PICK s \in Tab : /\ s.page = tab[t].page /\ s.id = tab[t].id /\ s.view = tab[t].view
                       /\ s.listed = tab[t].listed /\ tab' = [tab EXCEPT ![t] = s]
  <2>1. \A m \in {"generate", "import"} : LET s == [tab[t] EXCEPT !.mode = m] IN
          /\ s \in Tab /\ s.page = tab[t].page /\ s.id = tab[t].id /\ s.view = tab[t].view
          /\ s.listed = tab[t].listed
    BY <1>1 DEF Tab
  <2>2. LET s == Reset(tab[t]) IN
          /\ s \in Tab /\ s.page = tab[t].page /\ s.id = tab[t].id /\ s.view = tab[t].view
          /\ s.listed = tab[t].listed
    BY <1>1, PagePerms DEF Reset, Tab
  <2>3. LET s == [tab[t] EXCEPT !.uri = None] IN
          /\ s \in Tab /\ s.page = tab[t].page /\ s.id = tab[t].id /\ s.view = tab[t].view
          /\ s.listed = tab[t].listed
    BY <1>1 DEF Tab
  <2>4. \A P \in SUBSET Perms : LET s == [tab[t] EXCEPT !.seed = P] IN
          /\ s \in Tab /\ s.page = tab[t].page /\ s.id = tab[t].id /\ s.view = tab[t].view
          /\ s.listed = tab[t].listed
    BY <1>1 DEF Tab
  <2>5. ASSUME NEW s \in Picks(tab[t]) PROVE \E P \in SUBSET Perms : s = [tab[t] EXCEPT !.seed = P]
    <3> DEFINE seed == tab[t].seed
    <3>1. seed \in SUBSET Perms /\ {AllKinds(m) : m \in GatedMethods} \in SUBSET Perms
      BY <1>1, Records, PagePerms
    <3>2. CASE \E m \in Methods : s = ToggleSeedMethod(tab[t], m)
      <4>1. PICK m \in Methods : s = ToggleSeedMethod(tab[t], m)
        BY <3>2
      <4> DEFINE others == {p \in seed : p.method # m}
                 P == IF IsSeedAllKinds(tab[t], m) THEN others ELSE others \cup {AllKinds(m)}
      <4>2. P \in SUBSET Perms /\ s = [tab[t] EXCEPT !.seed = P]
        BY <3>1, <4>1, PagePerms, PagesAssumption DEF ToggleSeedMethod
      <4> QED BY <4>2
    <3>3. CASE \E p \in seed : s = RemoveSeedPerm(tab[t], p)
      <4>1. PICK p \in seed : s = [tab[t] EXCEPT !.seed = seed \ {p}]
        BY <3>3 DEF RemoveSeedPerm
      <4> QED BY <3>1, <4>1
    <3>4. CASE \E k \in Kinds : s = AddSeedKind(tab[t], k)
      <4>1. PICK k \in Kinds : s = AddSeedKind(tab[t], k)
        BY <3>4
      <4> DEFINE P == IF \E p \in seed : p.method = "sign_event" /\ p.kind \in {NoKind, k}
                      THEN seed ELSE seed \cup {Sign(k)}
      <4>2. P \in SUBSET Perms
        BY <3>1, PagePerms
      <4>3. s = [tab[t] EXCEPT !.seed = P]
        BY <4>1 DEF AddSeedKind
      <4> QED BY <4>2, <4>3
    <3>5. CASE s = ToggleAllSeed(tab[t])
      <4> DEFINE all == {AllKinds(m) : m \in GatedMethods}
                 P == IF all \subseteq seed THEN {} ELSE all
      <4>1. P \in SUBSET Perms /\ s = [tab[t] EXCEPT !.seed = P]
        BY <3>1, <3>5 DEF ToggleAllSeed
      <4> QED BY <4>1
    <3> QED BY <3>2, <3>3, <3>4, <3>5 DEF Picks
  <2>6. \/ \E m \in {"generate", "import"} : tab' = [tab EXCEPT ![t] = [tab[t] EXCEPT !.mode = m]]
        \/ tab' = [tab EXCEPT ![t] = Reset(tab[t])]
        \/ \E r \in Picks(tab[t]) : tab' = [tab EXCEPT ![t] = r]
        \/ tab' = [tab EXCEPT ![t] = [tab[t] EXCEPT !.uri = None]]
    BY DEF Fill
  <2>7. CASE \E m \in {"generate", "import"} : tab' = [tab EXCEPT ![t] = [tab[t] EXCEPT !.mode = m]]
    BY <2>1, <2>7
  <2>8. CASE tab' = [tab EXCEPT ![t] = Reset(tab[t])]
    BY <2>2, <2>8
  <2>9. CASE \E r \in Picks(tab[t]) : tab' = [tab EXCEPT ![t] = r]
    BY ZenonT(40), <2>4, <2>5, <2>9
  <2>10. CASE tab' = [tab EXCEPT ![t] = [tab[t] EXCEPT !.uri = None]]
    BY <2>3, <2>10
  <2> QED BY <2>6, <2>7, <2>8, <2>9, <2>10
<1>3. SamePages /\ inputs' \in 0..MaxInputs
  BY <1>1, <1>2, SameTab, InputType DEF Fill
<1>4. UNCHANGED <<invite, conn, issued, flow, chosen, fallback, behind>> /\ Known' = Known
  BY DEF Fill, tables, history, Known
<1>5. FitsInv'
  <2>1. Typed'
    BY <1>1, <1>3, <1>4 DEF SamePages, Typed
  <2>2. \A g \in Flows : flow[g] # None => FlowFits(flow[g])' /\ PageFits(flow[g])'
    <3> SUFFICES ASSUME NEW g \in Flows, flow[g] # None PROVE FlowFits(flow[g])' /\ PageFits(flow[g])'
      OBVIOUS
    <3>1. FlowFits(flow[g]) /\ PageFits(flow[g]) /\ flow[g].tab \in Tabs
      BY Records DEF Inv, FitsInv, Typed
    <3>2. FlowFits(flow[g])'
      BY <1>4, <3>1 DEF FlowFits
    <3>3. PageFits(flow[g])'
      BY <1>3, <1>4, <3>1 DEF PageFits, SamePages
    <3> QED BY <3>2, <3>3
  <2>3. \A u \in Tabs : TabFits(tab[u])'
    BY <1>3, <1>4 DEF TabFits, SamePages, Inv, FitsInv
  <2> QED BY <1>4, <2>1, <2>2, <2>3 DEF Inv, FitsInv
<1>6. PickedInv'
  <2>1. \A c : Picked(c)' = Picked(c)
    BY <1>4 DEF Picked
  <2>2. \A u \in Tabs : tab'[u].view # None => GrantedOf(tab[u].view)' \subseteq Picked(tab[u].id)'
    BY <1>3, <2>1 DEF Inv, PickedInv, GrantedOf, SamePages
  <2>3. \A g \in Flows : flow'[g] # None => FlowPicked(flow[g])'
    BY <1>4, <2>1 DEF Inv, PickedInv, FlowPicked
  <2> QED BY <1>4, <2>1, <2>2, <2>3 DEF Inv, PickedInv, GrantedOf
<1>7. AloneInv'
  <2> SUFFICES ASSUME NEW u \in Tabs, Alone(u)' PROVE AloneWith(u)'
    BY DEF AloneInv
  <2>1. /\ Alone(u) /\ FlowsOf(u)' = FlowsOf(u)
        /\ tab'[u].view = tab[u].view /\ conn'[tab'[u].id] = conn[tab[u].id]
    BY <1>3, <1>4 DEF Alone, SamePages, FlowsOf
  <2> QED BY <1>4, <2>1 DEF AloneWith, Inv, AloneInv
<1> QED BY <1>5, <1>6, <1>7 DEF Inv
-----------------------------------------------------------------------------
(* The server and the clients.                                               *)

\* What stays of handlers and pages, while connections only become more.
LEMMA Keeps ==
  ASSUME Inv, UNCHANGED tab, Known \subseteq Known',
         \A c \in Known : Picked(c) \subseteq Picked(c)'
  PROVE  /\ \A u \in Tabs : /\ TabFits(tab[u])'
                            /\ tab'[u].view # None =>
                                 GrantedOf(tab[u].view)' \subseteq Picked(tab[u].id)'
         /\ \A g \in Flows : flow'[g] = flow[g] /\ flow[g] # None =>
              FlowFits(flow[g])' /\ PageFits(flow[g])' /\ FlowPicked(flow[g])'
<1>1. ASSUME NEW u \in Tabs
      PROVE  TabFits(tab[u])' /\ (tab'[u].view # None =>
                                    GrantedOf(tab[u].view)' \subseteq Picked(tab[u].id)')
  <2>1. TabFits(tab[u])
    BY DEF Inv, FitsInv
  <2>2. tab[u].view # None => tab[u].id \in Known /\ GrantedOf(tab[u].view) \subseteq Picked(tab[u].id)
    BY KnownIds DEF Inv, PickedInv
  <2> QED BY <2>1, <2>2 DEF TabFits, GrantedOf
<1>2. ASSUME NEW g \in Flows, flow'[g] = flow[g], flow[g] # None
      PROVE  FlowFits(flow[g])' /\ PageFits(flow[g])' /\ FlowPicked(flow[g])'
  <2>1. FlowFits(flow[g]) /\ PageFits(flow[g]) /\ FlowPicked(flow[g])
    BY <1>2 DEF Inv, FitsInv, PickedInv
  <2>2. flow[g].view # None \/ flow[g].op \in {"set", "approve"} => flow[g].id \in Known
    BY <1>2, KnownIds DEF Inv
  <2>3. FlowFits(flow[g])'
    BY <1>2, <2>1 DEF FlowFits
  <2>4. PageFits(flow[g])'
    BY <1>2, <2>1 DEF PageFits
  <2>5. FlowPicked(flow[g])'
    BY <1>2, <2>1, <2>2 DEF FlowPicked
  <2> QED BY <2>3, <2>4, <2>5
<1> QED BY <1>1, <1>2

\* A page whose connection and handlers stay.
LEMMA KeepsAlone ==
  ASSUME Inv, UNCHANGED tab, NEW u \in Tabs, Alone(u), NEW f \in Flows, f \notin FlowsOf(u),
         \A g \in Flows \ {f} : flow'[g] = flow[g],
         flow'[f] # None => \/ flow'[f] = flow[f]
                            \/ /\ flow[f] # None
                               /\ flow'[f].tab = flow[f].tab /\ flow'[f].live = flow[f].live,
         conn'[tab[u].id] = conn[tab[u].id]
  PROVE  AloneWith(u)'
<1>1. FlowsOf(u)' = FlowsOf(u) /\ \A g \in FlowsOf(u) : flow'[g] = flow[g]
  BY DEF FlowsOf
<1> QED BY <1>1 DEF Inv, AloneInv, AloneWith

\* Handler f has its answer: it has become r.
Answered(f, r) ==
  /\ flow[f] # None /\ r \in Flow /\ flow' = [flow EXCEPT ![f] = r]
  /\ r.tab = flow[f].tab /\ r.live = flow[f].live /\ r.op = flow[f].op /\ r.step = flow[f].step
  /\ r.perms = flow[f].perms /\ r.value = flow[f].value /\ r.answer \in {"ok", "failed"}
  /\ r.listed \subseteq Known
  /\ r.op # "generate" => r.id = flow[f].id
  /\ r.op = "generate" /\ r.answer = "ok" => r.id \in ConnIds
  /\ r.view # None => r.op \in Loads /\ r.step = "get" /\ r.view = conn[r.id]
  /\ r.op \in Loads /\ r.step = "get" /\ r.answer = "ok" => r.view # None
  /\ UNCHANGED tab

\* Then handlers and pages fit.
LEMMA AnsweredFits ==
  ASSUME Inv, NEW f \in Flows, NEW r, Answered(f, r), Known \subseteq Known',
         \A c \in Known : Picked(c) \subseteq Picked(c)'
  PROVE  /\ flow' \in [Flows -> Flow \cup {None}] /\ tab' \in [Tabs -> Tab]
         /\ flow'[f] = r /\ \A g \in Flows \ {f} : flow'[g] = flow[g]
         /\ \A u \in Tabs : /\ TabFits(tab[u])'
                            /\ tab'[u].view # None =>
                                 GrantedOf(tab[u].view)' \subseteq Picked(tab[u].id)'
         /\ \A g \in Flows : flow'[g] # None =>
              FlowFits(flow[g])' /\ PageFits(flow[g])' /\ FlowPicked(flow[g])'
<1>1. /\ flow' \in [Flows -> Flow \cup {None}] /\ tab' \in [Tabs -> Tab] /\ tab' = tab
      /\ flow'[f] = r /\ \A g \in Flows \ {f} : flow'[g] = flow[g]
  BY DEF Answered, Inv, FitsInv, Typed
<1>2. FlowFits(flow[f]) /\ PageFits(flow[f]) /\ FlowPicked(flow[f])
  BY DEF Answered, Inv, FitsInv, PickedInv
<1>3. FlowFits(r)'
  BY <1>1, <1>2 DEF Answered, FlowFits, Loads, Edits, Governs
<1>4. PageFits(r)'
  BY <1>1, <1>2 DEF Answered, PageFits, Lists
<1>5. FlowPicked(r)'
  <2>1. r.view # None \/ r.op \in {"set", "approve"} => r.id = flow[f].id /\ r.id \in Known
    BY <1>2 DEF Answered, FlowFits, Loads, Edits
  <2>2. r.view # None => GrantedOf(r.view) \subseteq Picked(r.id)
    BY <2>1, KnownIds DEF Answered, Inv, PickedInv
  <2>3. r.op \in {"set", "approve"} => r.perms \subseteq Picked(r.id)
    BY <1>2, <2>1 DEF Answered, FlowPicked
  <2> QED BY <2>1, <2>2, <2>3 DEF FlowPicked
<1>6. \A u \in Tabs : /\ TabFits(tab[u])'
                      /\ tab'[u].view # None =>
                           GrantedOf(tab[u].view)' \subseteq Picked(tab[u].id)'
  BY <1>1, Keeps
<1>7. \A g \in Flows \ {f} : flow'[g] # None =>
        FlowFits(flow[g])' /\ PageFits(flow[g])' /\ FlowPicked(flow[g])'
  BY <1>1, Keeps
<1>8. \A g \in Flows : flow'[g] # None =>
        FlowFits(flow[g])' /\ PageFits(flow[g])' /\ FlowPicked(flow[g])'
  BY <1>1, <1>3, <1>4, <1>5, <1>7
<1> QED BY <1>1, <1>6, <1>8

\* An answer that finds, or leaves, the tables as they are.
LEMMA StaysInv ==
  ASSUME Inv, NEW f \in Flows, NEW r, Answered(f, r),
         UNCHANGED <<tables, inputs, chosen, fallback>>,
         behind \subseteq behind', behind' \subseteq Tabs,
         r.answer = "ok" => r.step # "call",
         r.answer = "failed" => \/ flow[f].tab \in behind'
                                \/ r.op \in Edits \cup Governs /\ conn[r.id] = None
  PROVE  Inv'
<1>1. UNCHANGED <<invite, conn, issued, chosen, fallback>> /\ Known' = Known
      /\ \A c : Picked(c)' = Picked(c)
  BY DEF tables, Known, Picked
<1>2. /\ flow' \in [Flows -> Flow \cup {None}] /\ tab' \in [Tabs -> Tab] /\ tab' = tab
      /\ flow'[f] = r /\ \A g \in Flows \ {f} : flow'[g] = flow[g]
      /\ \A u \in Tabs : /\ TabFits(tab[u])'
                         /\ tab'[u].view # None =>
                              GrantedOf(tab[u].view)' \subseteq Picked(tab[u].id)'
      /\ \A g \in Flows : flow'[g] # None =>
           FlowFits(flow[g])' /\ PageFits(flow[g])' /\ FlowPicked(flow[g])'
  BY <1>1, AnsweredFits DEF Answered
<1>3. FitsInv'
  <2>1. Typed'
    BY <1>1, <1>2 DEF Inv, FitsInv, Typed
  <2> QED BY <1>1, <1>2, <2>1 DEF Inv, FitsInv
<1>4. PickedInv'
  BY <1>1, <1>2 DEF Inv, PickedInv, GrantedOf
<1>5. AloneInv'
  <2> SUFFICES ASSUME NEW u \in Tabs, Alone(u)' PROVE AloneWith(u)'
    BY DEF AloneInv
  <2>1. Alone(u) /\ u \notin behind'
    BY <1>2 DEF Alone
  <2>2. AloneWith(u)
    BY <2>1 DEF Inv, AloneInv
  <2>3. CASE f \notin FlowsOf(u)
    BY <1>1, <1>2, <2>1, <2>3, KeepsAlone DEF Answered
  <2>4. CASE f \in FlowsOf(u)
    <3>1. /\ flow[f].live /\ flow[f].tab = u /\ flow[f] # None /\ PageFits(flow[f])
          /\ tab[u].page = "connection" /\ FlowFits(flow[f])
      BY <2>1, <2>4 DEF FlowsOf, Alone, Inv, FitsInv
    <3>2. /\ flow[f].op \notin Lists /\ tab[u].id = flow[f].id
          /\ flow[f].op # "open" => tab[u].view # None
      BY <3>1 DEF PageFits
    <3>3. r.op = flow[f].op /\ r.id = flow[f].id /\ r.step = flow[f].step
      BY <3>2 DEF Answered, Lists
    <3>4. r.answer = "ok" /\ r.step # "call"
      <4>1. tab[u].view # None => conn[tab[u].id] # None
        BY <2>2 DEF AloneWith
      <4>2. r.op \in Edits \cup Governs => conn[r.id] # None
        BY <3>2, <3>3, <4>1 DEF Edits, Governs
      <4> QED BY <2>1, <3>1, <4>2 DEF Answered
    <3>5. r.op \notin Governs
      BY <3>1, <3>3, <3>4 DEF FlowFits
    <3>6. r.op \in Loads
      BY <3>1, <3>2, <3>3, <3>5, Records DEF Answered, Op, Loads, Edits, Governs, Lists
    <3>7. r.step = "get" => r.view = conn[tab[u].id]
      BY <3>2, <3>3, <3>4, <3>6 DEF Answered
    <3>8. FlowSees(r, tab[u].view, conn[tab[u].id])
      BY <3>4, <3>5, <3>7 DEF FlowSees, Governs
    <3>9. FlowsOf(u)' = {f} /\ FlowsOf(u) = {f}
      <4>1. \A g \in FlowsOf(u) : g = f
        BY <2>2, <2>4 DEF AloneWith
      <4>2. f \in FlowsOf(u)'
        BY <1>2, <2>4, Records DEF Answered, FlowsOf
      <4>3. \A g \in FlowsOf(u)' : g = f
        BY <1>2, <4>1 DEF FlowsOf
      <4> QED BY <2>4, <4>1, <4>2, <4>3
    <3> QED BY <1>1, <1>2, <2>2, <3>8, <3>9 DEF AloneWith
  <2> QED BY <2>3, <2>4
<1> QED BY <1>3, <1>4, <1>5 DEF Inv

\* The answers that come with a view, or with nothing.
LEMMA AnswerAnswered ==
  ASSUME Inv, NEW f \in Flows, flow[f] # None, NEW a \in {"ok", "failed"},
         NEW v \in Connection \cup {None}, Answer(f, a, v), UNCHANGED tab,
         v # None => flow[f].op \in Loads /\ flow[f].step = "get" /\ v = conn[flow[f].id],
         flow[f].op \in Loads /\ flow[f].step = "get" /\ a = "ok" => v # None,
         flow[f].op = "generate" => a = "failed"
  PROVE  \E r : Answered(f, r) /\ r.answer = a /\ r.op = flow[f].op /\ r.id = flow[f].id
<1> DEFINE r == [[flow[f] EXCEPT !.answer = a] EXCEPT !.view = v]
<1>1. flow \in [Flows -> Flow \cup {None}] /\ flow[f] \in Flow /\ FlowFits(flow[f])
  BY DEF Inv, FitsInv, Typed
<1>2. flow' = [flow EXCEPT ![f] = r]
  BY <1>1 DEF Answer
<1>3. /\ r \in Flow /\ r.tab = flow[f].tab /\ r.live = flow[f].live /\ r.op = flow[f].op
      /\ r.id = flow[f].id /\ r.step = flow[f].step /\ r.perms = flow[f].perms
      /\ r.value = flow[f].value /\ r.listed = flow[f].listed /\ r.answer = a /\ r.view = v
  BY <1>1 DEF Flow
<1> HIDE DEF r
<1>4. r.listed \subseteq Known
  BY <1>1, <1>3 DEF FlowFits
<1>5. Answered(f, r)
  BY <1>2, <1>3, <1>4 DEF Answered
<1> QED BY <1>3, <1>5

\* The answer with the numbers of all connections.
LEMMA ListAnswered ==
  ASSUME Inv, NEW f \in Flows, flow[f] # None, flow[f].op \in {"load", "import"},
         AnswerWith(f, [flow[f] EXCEPT !.answer = "ok", !.listed = {c \in ConnIds : conn[c] # None}]),
         UNCHANGED tab
  PROVE  \E r : Answered(f, r) /\ r.answer = "ok"
<1> DEFINE L == {c \in ConnIds : conn[c] # None}
           r == [flow[f] EXCEPT !.answer = "ok", !.listed = L]
<1>1. flow[f] \in Flow /\ FlowFits(flow[f]) /\ L \subseteq Known /\ L \in SUBSET ConnIds
  BY DEF Inv, FitsInv, Typed
<1>2. flow' = [flow EXCEPT ![f] = r]
  BY DEF AnswerWith
<1> HIDE DEF L
<1>3. /\ r \in Flow /\ r.tab = flow[f].tab /\ r.live = flow[f].live /\ r.op = flow[f].op
      /\ r.id = flow[f].id /\ r.step = flow[f].step /\ r.perms = flow[f].perms
      /\ r.value = flow[f].value /\ r.listed = L /\ r.answer = "ok" /\ r.view = flow[f].view
  BY <1>1 DEF Flow
<1>4. flow[f].op \notin Loads
  BY DEF Loads, Edits
<1> HIDE DEF r
<1>5. r.view = None
  BY <1>1, <1>3, <1>4 DEF FlowFits
<1>6. Answered(f, r)
  BY <1>1, <1>2, <1>3, <1>4, <1>5 DEF Answered
<1> QED BY <1>3, <1>6

\* A request or its answer is lost.
LEMMA LoseInv ==
  ASSUME Inv, NEW f \in Flows, Lose(f)
  PROVE  Inv'
<1> DEFINE none == {}
           r == [[[flow[f] EXCEPT !.answer = "failed"] EXCEPT !.view = None] EXCEPT !.listed = none]
<1>1. /\ flow[f] # None /\ behind' = behind \cup {flow[f].tab}
      /\ UNCHANGED <<tables, tab, inputs, chosen, fallback>>
  BY DEF Lose
<1>2. flow \in [Flows -> Flow \cup {None}] /\ flow[f] \in Flow /\ flow[f].tab \in Tabs
      /\ behind \subseteq Tabs /\ none \in SUBSET ConnIds /\ none \subseteq Known
  BY <1>1, Records DEF Inv, FitsInv, Typed
<1>3. flow' = [flow EXCEPT ![f] = r]
  BY <1>2 DEF Lose
<1> HIDE DEF none
<1>4. /\ r \in Flow /\ r.tab = flow[f].tab /\ r.live = flow[f].live /\ r.op = flow[f].op
      /\ r.id = flow[f].id /\ r.step = flow[f].step /\ r.perms = flow[f].perms
      /\ r.value = flow[f].value /\ r.listed = none /\ r.answer = "failed" /\ r.view = None
  BY <1>2 DEF Flow
<1> HIDE DEF r
<1>5. Answered(f, r)
  BY <1>1, <1>2, <1>3, <1>4 DEF Answered
<1> QED BY <1>1, <1>2, <1>4, <1>5, StaysInv

\* A GET, and the parser of a URI.
LEMMA ServeGetInv ==
  ASSUME Inv, NEW f \in Flows, ServeGet(f)
  PROVE  Inv'
<1>1. /\ flow[f] # None /\ flow[f] \in Flow /\ FlowFits(flow[f]) /\ flow[f].tab \in Tabs
      /\ flow \in [Flows -> Flow \cup {None}] /\ conn \in [ConnIds -> Connection \cup {None}]
      /\ behind \subseteq Tabs /\ UNCHANGED <<tables, tab, inputs, chosen, fallback>>
  BY Records DEF ServeGet, Arrives, Gets, Inv, FitsInv, Typed
<1>2. behind' = IF flow'[f].answer = "failed" THEN behind \cup {flow[f].tab} ELSE behind
  BY DEF ServeGet
<1>get. \/ /\ Arrives(f, Edits \cup {"open"}, "get")
           /\ IF conn[flow[f].id] = None THEN Answer(f, "failed", None)
              ELSE Answer(f, "ok", conn[flow[f].id])
        \/ /\ Arrives(f, {"load", "import"}, "get")
           /\ AnswerWith(f, [flow[f] EXCEPT !.answer = "ok",
                                            !.listed = {c \in ConnIds : conn[c] # None}])
        \/ Arrives(f, {"import"}, "parse") /\ Answer(f, "ok", None)
  BY DEF ServeGet
<1>3. /\ flow[f].step # "call"
      /\ \E r : Answered(f, r)
  <2>1. CASE /\ Arrives(f, Edits \cup {"open"}, "get")
             /\ IF conn[flow[f].id] = None THEN Answer(f, "failed", None)
                ELSE Answer(f, "ok", conn[flow[f].id])
    <3>1. flow[f].op \in Loads /\ flow[f].step = "get" /\ flow[f].id \in ConnIds
          /\ flow[f].op # "generate"
      BY <1>1, <2>1, KnownIds DEF Arrives, Gets, FlowFits, Loads, Edits, Inv
    <3>2. conn[flow[f].id] \in Connection \cup {None}
      BY <1>1, <3>1
    <3>3. \/ Answer(f, "failed", None)
          \/ conn[flow[f].id] # None /\ Answer(f, "ok", conn[flow[f].id])
      BY <2>1
    <3>4. CASE Answer(f, "failed", None)
      <4> DEFINE v == None
                 a == "failed"
      <4>1. v \in Connection \cup {None} /\ v = None /\ Answer(f, a, v) /\ a = "failed"
            /\ a \in {"ok", "failed"}
        BY <3>4
      <4> HIDE DEF v, a
      <4>2. \E r : Answered(f, r)
        BY <1>1, <3>1, <4>1, AnswerAnswered
      <4> QED BY <3>1, <4>2
    <3>5. CASE conn[flow[f].id] # None /\ Answer(f, "ok", conn[flow[f].id])
      <4> DEFINE v == conn[flow[f].id]
      <4>1. v \in Connection \cup {None} /\ v # None /\ Answer(f, "ok", v) /\ v = conn[flow[f].id]
        BY <3>2, <3>5
      <4> HIDE DEF v
      <4>2. \E r : Answered(f, r)
        BY <1>1, <3>1, <4>1, AnswerAnswered
      <4> QED BY <3>1, <4>2
    <3> QED BY <3>3, <3>4, <3>5
  <2>2. CASE /\ Arrives(f, {"load", "import"}, "get")
             /\ AnswerWith(f, [flow[f] EXCEPT !.answer = "ok",
                                              !.listed = {c \in ConnIds : conn[c] # None}])
    <3>1. flow[f].op \in {"load", "import"} /\ flow[f].step = "get"
      BY <2>2 DEF Arrives, Gets
    <3> QED BY <1>1, <2>2, <3>1, ListAnswered
  <2>3. CASE Arrives(f, {"import"}, "parse") /\ Answer(f, "ok", None)
    <3>1. flow[f].op = "import" /\ flow[f].step = "parse" /\ flow[f].op \notin Loads
      BY <2>3 DEF Arrives, Gets, Loads, Edits
    <3> QED BY <1>1, <2>3, <3>1, AnswerAnswered
  <2> QED BY <1>get, <2>1, <2>2, <2>3
<1>4. PICK r : Answered(f, r)
  BY <1>3
<1>5. flow'[f] = r /\ r.step # "call"
  BY <1>1, <1>3, <1>4 DEF Answered
<1> QED BY <1>1, <1>2, <1>4, <1>5, StaysInv

\* What call f may grant on a connection that has row r.
Grants(f, r) ==
  (IF flow[f].op \in {"set", "approve"} THEN flow[f].perms ELSE {})
    \cup (IF flow[f].op = "approve" /\ flow[f].perms = {}
          THEN {Named(d) : d \in Decided(r.permissions, {})} ELSE {})

\* What an edit makes of a connection: the types, and what it may grant.
LEMMA AfterEdit ==
  ASSUME Inv, NEW f \in Flows, flow[f] # None, flow[f].op \in Edits \cup {"logging", "status"},
         NEW r \in Connection, NEW n, n = After(f, r)
  PROVE  /\ n \in Connection
         /\ GrantedOf(n) \subseteq GrantedOf(r) \cup Grants(f, r)
         /\ flow[f].op = "logging" => n = [r EXCEPT !.logging = flow[f].value = "on"]
         /\ flow[f].op = "status" => n = [r EXCEPT !.status = flow[f].value]
<1> DEFINE q == flow[f]
           rows == r.permissions
<1>1. q.perms \in SUBSET Perms /\ FlowFits(q)
  BY Records DEF Inv, FitsInv, Typed
<1>2. \A R \in SUBSET Rows : LET x == [r EXCEPT !.permissions = R] IN
        x \in Connection /\ x.permissions = R
  BY DEF Connection
<1>3. rows \in SUBSET Rows
  BY DEF Connection
<1>4. CASE q.op = "set" /\ Stores(q.perms)
  <2> DEFINE R == SetPermissions(rows, q.perms)
  <2>1. n = [r EXCEPT !.permissions = R]
    BY <1>4 DEF After
  <2>2. R \in SUBSET Rows
    BY <1>1, <1>3, RowNames DEF SetPermissions
  <2>3. n \in Connection /\ n.permissions = R
    BY <1>2, <2>1, <2>2
  <2>4. GrantedOf(n) \subseteq q.perms
    <3>1. \A d \in R : d.allowed => \E p \in q.perms : d = AsRow(p, TRUE)
      BY DEF SetPermissions
    <3>2. \A e \in q.perms : Named(AsRow(e, TRUE)) = e
      BY <1>1, RowNames
    <3>3. \A d \in R : d.allowed => Named(d) \in q.perms
      BY <3>1, <3>2
    <3> HIDE DEF R
    <3> QED BY <2>3, <3>3 DEF GrantedOf
  <2>5. q.perms \subseteq Grants(f, r)
    BY <1>4 DEF Grants
  <2> QED BY <1>4, <2>3, <2>4, <2>5
<1>5. CASE q.op = "set" /\ ~ Stores(q.perms)
  <2> DEFINE R == {p \in rows : ~ p.allowed}
  <2>1. n = [r EXCEPT !.permissions = R]
    BY <1>5 DEF After
  <2>2. n \in Connection /\ n.permissions = R
    BY <1>2, <1>3, <2>1
  <2>3. \A p : p \notin GrantedOf(n)
    BY <2>2 DEF GrantedOf
  <2> QED BY <1>5, <2>2, <2>3
<1>6. CASE q.op = "approve"
  <2> DEFINE decided == Decided(rows, q.perms)
             R == (rows \ decided) \cup {AsRow(d, TRUE) : d \in decided}
  <2>1. n = [r EXCEPT !.permissions = R]
    BY <1>6 DEF After
  <2>2. decided \subseteq rows
    BY DEF Decided
  <2>3. \A d \in rows : AsRow(d, TRUE) = AsRow(Named(d), TRUE)
    BY DEF AsRow, Named
  <2>4. R \in SUBSET Rows
    <3>1. \A d \in rows : AsRow(Named(d), TRUE) \in Rows
      BY <1>3, RowNames
    <3> QED BY <1>3, <2>2, <2>3, <3>1
  <2>5. n \in Connection /\ n.permissions = R
    BY <1>2, <2>1, <2>4
  <2>6. \A d \in decided : Named(AsRow(d, TRUE)) = Named(d)
    BY DEF AsRow, Named
  <2>7. \A d \in decided : Named(d) \in Grants(f, r)
    BY <1>6 DEF Grants, Decided
  <2>8. \A d \in R : d.allowed => Named(d) \in GrantedOf(r) \cup Grants(f, r)
    BY <2>6, <2>7 DEF GrantedOf
  <2>9. GrantedOf(n) \subseteq GrantedOf(r) \cup Grants(f, r)
    <3> HIDE DEF R, decided
    <3> QED BY <2>5, <2>8 DEF GrantedOf
  <2> QED BY <1>6, <2>5, <2>9
<1>7. CASE q.op = "deny"
  <2> DEFINE R == rows \ Decided(rows, q.perms)
  <2>1. n = [r EXCEPT !.permissions = R]
    BY <1>7 DEF After
  <2>2. n \in Connection /\ n.permissions = R /\ R \subseteq rows
    BY <1>2, <1>3, <2>1
  <2>3. GrantedOf(n) \subseteq GrantedOf(r)
    <3> HIDE DEF R
    <3> QED BY <2>2 DEF GrantedOf
  <2> QED BY <1>7, <2>2, <2>3
<1>8. CASE q.op = "logging"
  <2>1. n = [r EXCEPT !.logging = q.value = "on"]
    BY <1>8 DEF After
  <2>2. n \in Connection /\ n.permissions = rows
    BY <2>1, GovernedView
  <2>3. GrantedOf(n) = GrantedOf(r)
    BY <2>2 DEF GrantedOf
  <2> QED BY <1>8, <2>1, <2>2, <2>3
<1>9. CASE q.op = "status"
  <2>1. n = [r EXCEPT !.status = q.value]
    BY <1>9 DEF After
  <2>2. n \in Connection /\ n.permissions = rows
    BY <1>1, <1>9, <2>1, GovernedView DEF FlowFits
  <2>3. GrantedOf(n) = GrantedOf(r)
    BY <2>2 DEF GrantedOf
  <2> QED BY <1>9, <2>1, <2>2, <2>3
<1> QED BY <1>4, <1>5, <1>6, <1>7, <1>8, <1>9 DEF Edits

\* An edit, a switch or a status, of a connection that is there.
LEMMA EditInv ==
  ASSUME Inv, NEW f \in Flows, ServeEdit(f), conn[flow[f].id] # None
  PROVE  Inv'
<1> DEFINE q == flow[f]
           a == IF Stores(q.perms) THEN "ok" ELSE "failed"
<1>1. /\ q # None /\ q.op \in Edits \cup {"logging", "status"} /\ q.step = "call"
      /\ q.answer = "none" /\ UNCHANGED <<invite, issued, tab, inputs, fallback>>
  BY DEF ServeEdit, Arrives, Gets
<1>2. /\ q \in Flow /\ FlowFits(q) /\ FlowPicked(q) /\ PageFits(q) /\ q.tab \in Tabs
      /\ flow \in [Flows -> Flow \cup {None}] /\ conn \in [ConnIds -> Connection \cup {None}]
      /\ chosen \in [ConnIds -> SUBSET Perms] /\ behind \subseteq Tabs
      /\ q.perms \in SUBSET Perms
  BY <1>1, Records DEF Inv, FitsInv, PickedInv, Typed
<1>id. PICK c \in ConnIds : c = q.id
  BY <1>1, <1>2, KnownIds DEF Inv, FlowFits, Loads, Governs, Edits
<1> DEFINE n == After(f, conn[c])
<1>3. c \in Known /\ conn[c] \in Connection
      /\ q.op \notin Lists /\ q.op # "open" /\ q.op # "delete" /\ q.op # "generate"
      /\ ~ (q.op \in Loads /\ q.step = "get")
  BY <1>1, <1>2, <1>id DEF FlowFits, Loads, Governs, Edits, Lists
<1>4. conn' = [conn EXCEPT ![c] = n] /\ Answer(f, a, None)
  BY <1>2, <1>3, <1>id DEF ServeEdit
<1>5. /\ chosen' = IF q.op = "approve" /\ q.perms = {}
                   THEN [chosen EXCEPT ![c] =
                           chosen[c] \cup {Named(p) : p \in Decided(conn[c].permissions, {})}]
                   ELSE chosen
      /\ behind' = behind \cup (Showing(c) \ {t \in Tabs : q.tab = t /\ q.live})
                     \cup (IF Stores(q.perms) THEN {} ELSE {q.tab})
  BY <1>3, <1>id DEF ServeEdit
<1>6. /\ n \in Connection /\ GrantedOf(n) \subseteq GrantedOf(conn[c]) \cup Grants(f, conn[c])
      /\ q.op = "logging" => n = [conn[c] EXCEPT !.logging = q.value = "on"]
      /\ q.op = "status" => n = [conn[c] EXCEPT !.status = q.value]
  <2>1. conn[c] \in Connection /\ n = After(f, conn[c])
    BY <1>3
  <2> HIDE DEF n
  <2> QED BY <1>1, <2>1, AfterEdit
<1>7. \E r : Answered(f, r) /\ r.answer = a /\ r.op = q.op /\ r.id = q.id
  <2> DEFINE v == None
  <2>1. v \in Connection \cup {None} /\ v = None /\ Answer(f, a, v) /\ a \in {"ok", "failed"}
    BY <1>4
  <2> HIDE DEF v, a
  <2> QED BY <1>1, <1>2, <1>3, <2>1, AnswerAnswered
<1>8. PICK r : Answered(f, r) /\ r.answer = a /\ r.op = q.op /\ r.id = q.id
  BY <1>7
<1> HIDE DEF n
<1>9. /\ Known' = Known /\ chosen' \in [ConnIds -> SUBSET Perms]
      /\ \A d \in ConnIds : chosen[d] \subseteq chosen'[d]
      /\ chosen[c] \cup Grants(f, conn[c]) \subseteq chosen'[c] \cup Picked(c)
      /\ behind \subseteq behind' /\ behind' \subseteq Tabs
  <2>1. Known' = Known
    BY <1>1 DEF Known
  <2>2. behind \subseteq behind' /\ behind' \subseteq Tabs
    BY <1>2, <1>5 DEF Showing
  <2>3. CASE q.op = "approve" /\ q.perms = {}
    <3> DEFINE D == {Named(p) : p \in Decided(conn[c].permissions, {})}
    <3>1. D \in SUBSET Perms
      BY <1>3, RowNames DEF Connection, Decided
    <3>2. chosen' = [chosen EXCEPT ![c] = chosen[c] \cup D] /\ Grants(f, conn[c]) = D
      BY <1>5, <2>3 DEF Grants
    <3> HIDE DEF D
    <3> QED BY <1>2, <1>3, <2>1, <2>2, <3>1, <3>2
  <2>4. CASE ~ (q.op = "approve" /\ q.perms = {})
    <3>1. chosen' = chosen
      BY <1>5, <2>4
    <3>2. Grants(f, conn[c]) \subseteq Picked(c)
      BY <1>2, <1>id, <2>4 DEF Grants, FlowPicked
    <3> QED BY <1>2, <2>1, <2>2, <3>1, <3>2
  <2> QED BY <2>3, <2>4
<1>10. \A d \in ConnIds : Picked(d) \subseteq Picked(d)'
  BY <1>1, <1>9 DEF Picked
<1>11. /\ flow' \in [Flows -> Flow \cup {None}] /\ tab' \in [Tabs -> Tab] /\ tab' = tab
       /\ flow'[f] = r /\ \A g \in Flows \ {f} : flow'[g] = flow[g]
       /\ \A u \in Tabs : /\ TabFits(tab[u])'
                          /\ tab'[u].view # None =>
                               GrantedOf(tab[u].view)' \subseteq Picked(tab[u].id)'
       /\ \A g \in Flows : flow'[g] # None =>
            FlowFits(flow[g])' /\ PageFits(flow[g])' /\ FlowPicked(flow[g])'
  <2>1. \A d \in Known : Picked(d) \subseteq Picked(d)'
    BY <1>10, KnownIds DEF Inv
  <2> QED BY <1>1, <1>8, <1>9, <2>1, AnsweredFits
<1>12. /\ conn' \in [ConnIds -> Connection \cup {None}] /\ conn'[c] = n
       /\ \A d \in ConnIds \ {c} : conn'[d] = conn[d]
  BY <1>2, <1>3, <1>4, <1>6
<1>13. FitsInv'
  <2>1. Typed'
    BY <1>1, <1>9, <1>11, <1>12 DEF Inv, FitsInv, Typed
  <2>2. \A d \in ConnIds : conn'[d] # None => d \in Known'
    BY <1>3, <1>9, <1>12 DEF Inv, FitsInv
  <2>3. \A d \in ConnIds : invite'[d] # None => d \in 1..issued'
    BY <1>1 DEF Inv, FitsInv
  <2> QED BY <1>11, <2>1, <2>2, <2>3 DEF FitsInv
<1>14. PickedInv'
  <2>1. \A d \in ConnIds : conn'[d] # None => GrantedOf(conn'[d]) \subseteq Picked(d)'
    <3>1. GrantedOf(n) \subseteq Picked(c)'
      <4>1. GrantedOf(conn[c]) \subseteq Picked(c)
        BY <1>3, Records DEF Inv, PickedInv
      <4>2. Picked(c) \subseteq Picked(c)' /\ chosen'[c] \subseteq Picked(c)'
        BY <1>3, <1>10 DEF Picked
      <4> QED BY <1>6, <1>9, <4>1, <4>2
    <3>2. \A d \in ConnIds \ {c} : conn[d] # None => GrantedOf(conn[d]) \subseteq Picked(d)'
      BY <1>10 DEF Inv, PickedInv
    <3> QED BY <1>12, <3>1, <3>2
  <2>2. \A d \in ConnIds : invite'[d] # None => invite'[d] \subseteq chosen'[d]
    BY <1>1, <1>9 DEF Inv, PickedInv
  <2> QED BY <1>11, <2>1, <2>2 DEF PickedInv, GrantedOf
<1>15. AloneInv'
  <2> SUFFICES ASSUME NEW u \in Tabs, Alone(u)' PROVE AloneWith(u)'
    BY DEF AloneInv
  <2>1. Alone(u) /\ u \notin behind' /\ tab[u].page = "connection"
    BY <1>9, <1>11 DEF Alone
  <2>2. AloneWith(u)
    BY <2>1 DEF Inv, AloneInv
  <2>3. tab[u].id \in ConnIds
    BY <2>1, KnownIds DEF Inv, FitsInv, TabFits
  <2>4. CASE f \notin FlowsOf(u)
    <3>1. tab[u].id # c
      BY <1>1, <1>5, <1>id, <2>1, <2>4 DEF Showing, FlowsOf
    <3>2. conn'[tab[u].id] = conn[tab[u].id]
      BY <1>12, <2>3, <3>1
    <3> QED BY <1>1, <1>8, <1>11, <2>1, <2>4, <3>2, KeepsAlone DEF Answered
  <2>5. CASE f \in FlowsOf(u)
    <3>1. q.live /\ q.tab = u /\ tab[u].id = c /\ tab[u].view # None
      BY <1>2, <1>3, <1>id, <2>5 DEF FlowsOf, PageFits
    <3>2. a = "ok"
      BY <1>5, <2>1, <3>1
    <3>3. tab[u].view = conn[c]
      BY <1>1, <2>2, <2>5, <3>1 DEF AloneWith, FlowSees
    <3>4. r.step = "call" /\ r.value = q.value
      BY <1>1, <1>8 DEF Answered
    <3>5. FlowSees(r, tab[u].view, n)
      BY <1>3, <1>6, <1>8, <3>2, <3>3, <3>4 DEF FlowSees
    <3>6. FlowsOf(u)' = {f}
      <4>1. \A g \in FlowsOf(u) : g = f
        BY <2>2, <2>5 DEF AloneWith
      <4>2. f \in FlowsOf(u)'
        BY <1>8, <1>11, <3>1, Records DEF Answered, FlowsOf
      <4>3. \A g \in FlowsOf(u)' : g = f
        BY <1>11, <4>1 DEF FlowsOf
      <4> QED BY <4>2, <4>3
    <3>7. n # None /\ conn'[tab'[u].id] = n /\ tab'[u].view = tab[u].view
      BY <1>6, <1>11, <1>12, <3>1, Records
    <3> QED BY <1>11, <3>5, <3>6, <3>7 DEF AloneWith
  <2> QED BY <2>4, <2>5
<1> QED BY <1>13, <1>14, <1>15 DEF Inv

\* The server stores an edit, or the connection is gone.
LEMMA ServeEditInv ==
  ASSUME Inv, NEW f \in Flows, ServeEdit(f)
  PROVE  Inv'
<1>1. CASE conn[flow[f].id] # None
  BY <1>1, EditInv
<1>2. CASE conn[flow[f].id] = None
  <2>1. /\ flow[f] # None /\ flow[f].op \in Edits \cup {"logging", "status"}
        /\ flow[f].step = "call" /\ flow[f].op # "generate"
        /\ UNCHANGED <<invite, issued, tab, inputs, fallback, conn, chosen, behind>>
        /\ Answer(f, "failed", None)
    BY <1>2 DEF ServeEdit, Arrives, Gets, Edits
  <2>2. \E r : Answered(f, r) /\ r.answer = "failed" /\ r.op = flow[f].op /\ r.id = flow[f].id
    <3> DEFINE v == None
               a == "failed"
    <3>1. v \in Connection \cup {None} /\ v = None /\ Answer(f, a, v) /\ a = "failed"
          /\ a \in {"ok", "failed"}
      BY <2>1
    <3> HIDE DEF v, a
    <3> QED BY <2>1, <3>1, AnswerAnswered
  <2>3. behind \subseteq behind' /\ behind' \subseteq Tabs /\ UNCHANGED <<tables, inputs, chosen, fallback>>
    BY <2>1 DEF Inv, FitsInv, Typed, tables
  <2>4. flow[f].op \in Edits \cup Governs
    BY <2>1 DEF Governs
  <2> QED BY <1>2, <2>2, <2>3, <2>4, StaysInv
<1> QED BY <1>1, <1>2
\* A deletion, of a connection that is there or not.
LEMMA ServeDeleteInv ==
  ASSUME Inv, NEW f \in Flows, ServeDelete(f)
  PROVE  Inv'
<1> DEFINE q == flow[f]
           a == IF conn[q.id] = None THEN "failed" ELSE "ok"
<1>1. /\ q # None /\ q.op = "delete" /\ q.step = "call" /\ q.answer = "none"
      /\ behind' = behind \cup Showing(q.id)
      /\ UNCHANGED <<invite, issued, tab, inputs, chosen, fallback>>
  BY DEF ServeDelete, Arrives, Gets
<1>2. /\ q \in Flow /\ FlowFits(q) /\ PageFits(q) /\ q.tab \in Tabs
      /\ flow \in [Flows -> Flow \cup {None}] /\ conn \in [ConnIds -> Connection \cup {None}]
      /\ behind \subseteq Tabs
  BY <1>1, Records DEF Inv, FitsInv, Typed
<1>id. PICK c \in ConnIds : c = q.id
  BY <1>1, <1>2, KnownIds DEF Inv, FlowFits, Governs
<1>3. q.op \notin Loads /\ q.op \notin Lists
  BY <1>1 DEF Loads, Edits, Lists
<1>4. conn' = [conn EXCEPT ![c] = None] /\ Answer(f, a, None)
  BY <1>id DEF ServeDelete
<1>5. \E r : Answered(f, r) /\ r.answer = a /\ r.op = q.op /\ r.id = q.id
  <2> DEFINE v == None
  <2>1. v \in Connection \cup {None} /\ v = None /\ Answer(f, a, v) /\ a \in {"ok", "failed"}
    BY <1>4
  <2> HIDE DEF v, a
  <2> QED BY <1>1, <1>2, <1>3, <2>1, AnswerAnswered
<1>6. PICK r : Answered(f, r) /\ r.answer = a /\ r.op = q.op /\ r.id = q.id
  BY <1>5
<1> HIDE DEF a
<1>7. Known' = Known /\ \A d : Picked(d)' = Picked(d)
  BY <1>1 DEF Known, Picked
<1>8. /\ flow' \in [Flows -> Flow \cup {None}] /\ tab' \in [Tabs -> Tab] /\ tab' = tab
      /\ flow'[f] = r /\ \A g \in Flows \ {f} : flow'[g] = flow[g]
      /\ \A u \in Tabs : /\ TabFits(tab[u])'
                         /\ tab'[u].view # None =>
                              GrantedOf(tab[u].view)' \subseteq Picked(tab[u].id)'
      /\ \A g \in Flows : flow'[g] # None =>
           FlowFits(flow[g])' /\ PageFits(flow[g])' /\ FlowPicked(flow[g])'
  BY <1>1, <1>6, <1>7, AnsweredFits
<1>9. /\ conn' \in [ConnIds -> Connection \cup {None}] /\ conn'[c] = None
      /\ \A d \in ConnIds \ {c} : conn'[d] = conn[d]
      /\ behind \subseteq behind' /\ behind' \subseteq Tabs
  BY <1>1, <1>2, <1>4 DEF Showing
<1>10. FitsInv'
  <2>1. Typed'
    BY <1>1, <1>8, <1>9 DEF Inv, FitsInv, Typed
  <2>2. /\ \A d \in ConnIds : conn'[d] # None => d \in Known'
        /\ \A d \in ConnIds : invite'[d] # None => d \in 1..issued'
    BY <1>1, <1>7, <1>9 DEF Inv, FitsInv
  <2> QED BY <1>8, <2>1, <2>2 DEF FitsInv
<1>11. PickedInv'
  <2>1. \A d \in ConnIds : conn'[d] # None => GrantedOf(conn'[d]) \subseteq Picked(d)'
    BY <1>7, <1>9 DEF Inv, PickedInv
  <2>2. \A d \in ConnIds : invite'[d] # None => invite'[d] \subseteq chosen'[d]
    BY <1>1 DEF Inv, PickedInv
  <2> QED BY <1>8, <2>1, <2>2 DEF PickedInv, GrantedOf
<1>12. AloneInv'
  <2> SUFFICES ASSUME NEW u \in Tabs, Alone(u)' PROVE AloneWith(u)'
    BY DEF AloneInv
  <2>1. Alone(u) /\ u \notin behind' /\ tab[u].page = "connection" /\ tab[u].id # c
    BY <1>1, <1>8, <1>9, <1>id DEF Alone, Showing
  <2>2. tab[u].id \in ConnIds
    BY <2>1, KnownIds DEF Inv, FitsInv, TabFits
  <2>3. f \notin FlowsOf(u)
    BY <1>2, <1>3, <1>id, <2>1 DEF FlowsOf, PageFits
  <2> QED BY <1>1, <1>6, <1>8, <1>9, <2>1, <2>2, <2>3, KeepsAlone DEF Answered
<1> QED BY <1>10, <1>11, <1>12 DEF Inv

\* A client asks: a row that grants nothing, or a new status.
LEMMA AskInv ==
  ASSUME Inv, NEW c \in ConnIds, NEW p \in Asked, Ask(c, p)
  PROVE  Inv'
<1> DEFINE r == conn[c]
           P == IF p.kind # NoKind /\ AsRow(p, TRUE) \in r.permissions THEN r.permissions
                ELSE r.permissions \cup {AsRow(p, FALSE)}
           n == [[r EXCEPT !.status = "ACTIVE"] EXCEPT !.permissions = P]
<1>1. /\ r # None /\ behind' = behind \cup Showing(c) /\ Input
      /\ UNCHANGED <<invite, issued, tab, flow, chosen, fallback>>
  BY DEF Ask
<1>2. /\ r \in Connection /\ conn \in [ConnIds -> Connection \cup {None}] /\ behind \subseteq Tabs
      /\ inputs' \in 0..MaxInputs /\ c \in Known
  BY <1>1, InputType DEF Inv, FitsInv, Typed
<1>3. conn' = [conn EXCEPT ![c] = n]
  BY <1>2 DEF Ask
<1>4. n \in Connection /\ n.permissions = P
  <2>1. p \in Perms /\ r.permissions \in SUBSET Rows
    BY <1>2, PagesAssumption DEF Connection
  <2>2. AsRow(p, FALSE) \in Rows
    BY <2>1, RowNames
  <2>3. P \in SUBSET Rows
    BY <2>1, <2>2
  <2> HIDE DEF P
  <2> QED BY <1>2, <2>3 DEF Connection
<1>5. GrantedOf(n) \subseteq GrantedOf(r)
  <2>1. \A d \in P : d.allowed => d \in r.permissions
    BY DEF AsRow
  <2> HIDE DEF n, P
  <2> QED BY <1>4, <2>1 DEF GrantedOf
<1> HIDE DEF n
<1>6. Known' = Known /\ \A d : Picked(d)' = Picked(d)
  BY <1>1 DEF Known, Picked
<1>7. /\ conn' \in [ConnIds -> Connection \cup {None}] /\ conn'[c] = n
      /\ \A d \in ConnIds \ {c} : conn'[d] = conn[d]
      /\ behind \subseteq behind' /\ behind' \subseteq Tabs
  BY <1>1, <1>2, <1>3, <1>4 DEF Showing
<1>8. /\ \A u \in Tabs : /\ TabFits(tab[u])'
                         /\ tab'[u].view # None =>
                              GrantedOf(tab[u].view)' \subseteq Picked(tab[u].id)'
      /\ \A g \in Flows : flow'[g] # None =>
           FlowFits(flow[g])' /\ PageFits(flow[g])' /\ FlowPicked(flow[g])'
  BY <1>1, <1>6, Keeps
<1>9. FitsInv'
  <2>1. Typed'
    BY <1>1, <1>2, <1>7 DEF Inv, FitsInv, Typed
  <2>2. /\ \A d \in ConnIds : conn'[d] # None => d \in Known'
        /\ \A d \in ConnIds : invite'[d] # None => d \in 1..issued'
    BY <1>1, <1>2, <1>6, <1>7 DEF Inv, FitsInv
  <2> QED BY <1>8, <2>1, <2>2 DEF FitsInv
<1>10. PickedInv'
  <2>1. \A d \in ConnIds : conn'[d] # None => GrantedOf(conn'[d]) \subseteq Picked(d)'
    <3>1. GrantedOf(n) \subseteq Picked(c)
      BY <1>1, <1>5 DEF Inv, PickedInv
    <3>2. \A d \in ConnIds \ {c} : conn[d] # None => GrantedOf(conn[d]) \subseteq Picked(d)
      BY DEF Inv, PickedInv
    <3> QED BY <1>6, <1>7, <3>1, <3>2
  <2>2. \A d \in ConnIds : invite'[d] # None => invite'[d] \subseteq chosen'[d]
    BY <1>1 DEF Inv, PickedInv
  <2> QED BY <1>8, <2>1, <2>2 DEF PickedInv, GrantedOf
<1>11. AloneInv'
  <2> SUFFICES ASSUME NEW u \in Tabs, Alone(u)' PROVE AloneWith(u)'
    BY DEF AloneInv
  <2>1. Alone(u) /\ tab[u].page = "connection" /\ tab[u].id # c
    BY <1>1, <1>7 DEF Alone, Showing
  <2>2. tab[u].id \in ConnIds
    BY <2>1, KnownIds DEF Inv, FitsInv, TabFits
  <2>3. conn'[tab[u].id] = conn[tab[u].id] /\ FlowsOf(u)' = FlowsOf(u)
    BY <1>1, <1>7, <2>1, <2>2 DEF FlowsOf
  <2> QED BY <1>1, <2>1, <2>3 DEF Inv, AloneInv, AloneWith
<1> QED BY <1>9, <1>10, <1>11 DEF Inv
\* A connection that starts: its grants are the defaults, or of the seed.
LEMMA StartGrants ==
  ASSUME NEW c \in ConnIds, NEW seed \in SUBSET Perms, NEW status \in {"PENDING", "ACTIVE"},
         Start(c, seed, status), conn \in [ConnIds -> Connection \cup {None}]
  PROVE  \E n \in Connection :
           /\ conn' = [conn EXCEPT ![c] = n]
           /\ GrantedOf(n) \subseteq IF seed = {} THEN Defaults ELSE seed
<1> DEFINE start == IF seed = {} THEN Defaults ELSE IF Stores(seed) THEN seed ELSE {}
           P == {AsRow(p, TRUE) : p \in start}
           n == [permissions |-> P, status |-> status, logging |-> TRUE]
<1>1. start \in SUBSET Perms
  BY PagePerms
<1>2. P \in SUBSET Rows /\ \A d \in P : Named(d) \in start
  <2>1. \A p \in Perms : AsRow(p, TRUE) \in Rows /\ Named(AsRow(p, TRUE)) = p
    BY RowNames
  <2> HIDE DEF start
  <2> QED BY <1>1, <2>1
<1>3. conn' = [conn EXCEPT ![c] = n]
  BY DEF Start
<1>4. start \subseteq IF seed = {} THEN Defaults ELSE seed
  OBVIOUS
<1> HIDE DEF start, P
<1>5. n \in Connection /\ n.permissions = P
  BY <1>2 DEF Connection
<1>6. GrantedOf(n) \subseteq start
  <2> HIDE DEF n
  <2> QED BY <1>2, <1>5 DEF GrantedOf
<1> HIDE DEF n
<1> QED BY <1>3, <1>4, <1>5, <1>6

\* A client connects with its invitation.
LEMMA PairInv ==
  ASSUME Inv, NEW c \in ConnIds, Pair(c)
  PROVE  Inv'
<1> DEFINE seed == invite[c]
<1>1. /\ seed # None /\ invite' = [invite EXCEPT ![c] = None] /\ Input
      /\ Start(c, seed, IF Stores(seed) THEN "ACTIVE" ELSE "PENDING")
      /\ fallback' = IF seed = {} THEN fallback \cup {c} ELSE fallback
      /\ UNCHANGED <<issued, tab, flow, chosen, behind>>
  BY DEF Pair
<1>2. /\ seed \in SUBSET Perms /\ seed \subseteq chosen[c] /\ c \in 1..issued /\ c \notin Known
      /\ invite \in [ConnIds -> (SUBSET Perms) \cup {None}]
      /\ conn \in [ConnIds -> Connection \cup {None}] /\ conn[c] = None
      /\ inputs' \in 0..MaxInputs /\ fallback \subseteq ConnIds
  BY <1>1, InputType DEF Inv, FitsInv, PickedInv, Typed, Known
<1>3. PICK n \in Connection :
        /\ conn' = [conn EXCEPT ![c] = n]
        /\ GrantedOf(n) \subseteq IF seed = {} THEN Defaults ELSE seed
  BY <1>1, <1>2, StartGrants
<1>4. Known' = Known \cup {c}
  BY <1>1, <1>2, KnownIds DEF Known, Inv
<1>5. /\ \A d \in ConnIds : Picked(d) \subseteq Picked(d)'
      /\ GrantedOf(n) \subseteq Picked(c)' /\ fallback' \subseteq ConnIds
  <2>1. /\ \A d \in ConnIds : Picked(d) \subseteq Picked(d)'
        /\ fallback' \subseteq ConnIds /\ fallback \subseteq fallback'
    BY <1>1, <1>2 DEF Picked
  <2>2. CASE seed = {}
    <3>1. c \in fallback' /\ GrantedOf(n) \subseteq Defaults
      BY <1>1, <1>3, <2>2
    <3> QED BY <2>1, <3>1 DEF Picked
  <2>3. CASE seed # {}
    <3>1. GrantedOf(n) \subseteq chosen[c] /\ chosen' = chosen
      BY <1>1, <1>2, <1>3, <2>3
    <3> QED BY <2>1, <3>1 DEF Picked
  <2> QED BY <2>2, <2>3
<1>6. /\ conn' \in [ConnIds -> Connection \cup {None}] /\ conn'[c] = n
      /\ \A d \in ConnIds \ {c} : conn'[d] = conn[d]
      /\ invite' \in [ConnIds -> (SUBSET Perms) \cup {None}] /\ invite'[c] = None
      /\ \A d \in ConnIds \ {c} : invite'[d] = invite[d]
  BY <1>1, <1>2, <1>3
<1>7. /\ \A u \in Tabs : /\ TabFits(tab[u])'
                         /\ tab'[u].view # None =>
                              GrantedOf(tab[u].view)' \subseteq Picked(tab[u].id)'
      /\ \A g \in Flows : flow'[g] # None =>
           FlowFits(flow[g])' /\ PageFits(flow[g])' /\ FlowPicked(flow[g])'
  <2>1. Known \subseteq Known' /\ \A d \in Known : Picked(d) \subseteq Picked(d)'
    BY <1>4, <1>5, KnownIds DEF Inv
  <2> QED BY <1>1, <2>1, Keeps
<1>8. FitsInv'
  <2>1. Typed'
    BY <1>1, <1>2, <1>5, <1>6 DEF Inv, FitsInv, Typed
  <2>2. \A d \in ConnIds : conn'[d] # None => d \in Known'
    BY <1>4, <1>6 DEF Inv, FitsInv
  <2>3. \A d \in ConnIds : invite'[d] # None => d \in 1..issued'
    BY <1>1, <1>6 DEF Inv, FitsInv
  <2> QED BY <1>7, <2>1, <2>2, <2>3 DEF FitsInv
<1>9. PickedInv'
  <2>1. \A d \in ConnIds : conn'[d] # None => GrantedOf(conn'[d]) \subseteq Picked(d)'
    <3>1. \A d \in ConnIds \ {c} : conn[d] # None => GrantedOf(conn[d]) \subseteq Picked(d)'
      BY <1>5 DEF Inv, PickedInv
    <3> QED BY <1>5, <1>6, <3>1
  <2>2. \A d \in ConnIds : invite'[d] # None => invite'[d] \subseteq chosen'[d]
    BY <1>1, <1>6 DEF Inv, PickedInv
  <2> QED BY <1>7, <2>1, <2>2 DEF PickedInv, GrantedOf
<1>10. AloneInv'
  <2> SUFFICES ASSUME NEW u \in Tabs, Alone(u)' PROVE AloneWith(u)'
    BY DEF AloneInv
  <2>1. Alone(u) /\ tab[u].page = "connection"
    BY <1>1 DEF Alone
  <2>2. tab[u].id \in ConnIds /\ tab[u].id # c
    BY <1>2, <2>1, KnownIds DEF Inv, FitsInv, TabFits
  <2>3. conn'[tab[u].id] = conn[tab[u].id] /\ FlowsOf(u)' = FlowsOf(u)
    BY <1>1, <1>6, <2>2 DEF FlowsOf
  <2> QED BY <1>1, <2>1, <2>3 DEF Inv, AloneInv, AloneWith
<1> QED BY <1>8, <1>9, <1>10 DEF Inv
\* A call of the list's forms is answered, and the next number is given.
LEMMA NumberedInv ==
  ASSUME Inv, NEW f \in Flows, NEW r, Answered(f, r), r.op \in Lists,
         issued < MaxConns, NEW i, i = issued + 1, issued' = i,
         invite' \in [ConnIds -> (SUBSET Perms) \cup {None}],
         conn' \in [ConnIds -> Connection \cup {None}], chosen' \in [ConnIds -> SUBSET Perms],
         \A d \in ConnIds \ {i} :
           invite'[d] = invite[d] /\ conn'[d] = conn[d] /\ chosen'[d] = chosen[d],
         invite'[i] # None => conn'[i] = None /\ invite'[i] \subseteq chosen'[i],
         conn'[i] # None => GrantedOf(conn'[i]) \subseteq chosen'[i],
         UNCHANGED <<inputs, fallback, behind>>
  PROVE  Inv'
<1>1. Typed /\ FitsInv /\ issued \in 1..MaxConns /\ MaxConns \in Nat \ {0}
  BY PagesAssumption DEF Inv, FitsInv, Typed
<1>2. i \in ConnIds /\ i \notin 1..issued /\ i \notin Known /\ i \in 1..issued'
      /\ 1..issued' = (1..issued) \cup {i} /\ 1..issued \subseteq ConnIds
  BY <1>1 DEF ConnIds, Known
<1>3. Known \subseteq Known' /\ Known' \subseteq Known \cup {i} /\ (invite'[i] = None => i \in Known')
  BY <1>2 DEF Known
<1>4. \A d \in ConnIds \ {i} : Picked(d)' = Picked(d)
  BY DEF Picked
<1>5. /\ flow' \in [Flows -> Flow \cup {None}] /\ tab' \in [Tabs -> Tab] /\ tab' = tab
      /\ flow'[f] = r /\ \A g \in Flows \ {f} : flow'[g] = flow[g]
      /\ \A u \in Tabs : /\ TabFits(tab[u])'
                         /\ tab'[u].view # None =>
                              GrantedOf(tab[u].view)' \subseteq Picked(tab[u].id)'
      /\ \A g \in Flows : flow'[g] # None =>
           FlowFits(flow[g])' /\ PageFits(flow[g])' /\ FlowPicked(flow[g])'
  <2>1. \A d \in Known : Picked(d) \subseteq Picked(d)'
    BY <1>1, <1>2, <1>4, KnownIds
  <2> QED BY <1>3, <2>1, AnsweredFits DEF Answered
<1>6. FitsInv'
  <2>1. Typed'
    BY <1>1, <1>2, <1>5 DEF Typed, ConnIds
  <2>2. \A d \in ConnIds : conn'[d] # None => d \in Known'
    BY <1>1, <1>3 DEF FitsInv
  <2>3. \A d \in ConnIds : invite'[d] # None => d \in 1..issued'
    BY <1>1, <1>2 DEF FitsInv
  <2> QED BY <1>5, <2>1, <2>2, <2>3 DEF FitsInv
<1>7. PickedInv'
  <2>1. \A d \in ConnIds : conn'[d] # None => GrantedOf(conn'[d]) \subseteq Picked(d)'
    <3>1. conn'[i] # None => GrantedOf(conn'[i]) \subseteq Picked(i)'
      BY DEF Picked
    <3>2. \A d \in ConnIds \ {i} : conn[d] # None => GrantedOf(conn[d]) \subseteq Picked(d)'
      BY <1>4 DEF Inv, PickedInv
    <3> QED BY <3>1, <3>2
  <2>2. \A d \in ConnIds : invite'[d] # None => invite'[d] \subseteq chosen'[d]
    BY DEF Inv, PickedInv
  <2> QED BY <1>5, <2>1, <2>2 DEF PickedInv, GrantedOf
<1>8. AloneInv'
  <2> SUFFICES ASSUME NEW u \in Tabs, Alone(u)' PROVE AloneWith(u)'
    BY DEF AloneInv
  <2>1. Alone(u) /\ tab[u].page = "connection"
    BY <1>5 DEF Alone
  <2>2. tab[u].id \in ConnIds /\ tab[u].id # i
    BY <1>1, <1>2, <2>1, KnownIds DEF FitsInv, TabFits
  <2>3. f \notin FlowsOf(u)
    <3>1. flow[f] # None => PageFits(flow[f])
      BY <1>1 DEF FitsInv
    <3> QED BY <2>1, <3>1 DEF FlowsOf, PageFits, Answered
  <2>4. conn'[tab[u].id] = conn[tab[u].id]
    BY <2>2
  <2>5. flow'[f].tab = flow[f].tab /\ flow'[f].live = flow[f].live /\ flow[f] # None
    BY <1>5 DEF Answered
  <2> QED BY <1>5, <2>1, <2>3, <2>4, <2>5, KeepsAlone
<1> QED BY <1>6, <1>7, <1>8 DEF Inv

\* An invitation is made.
LEMMA ServeGenerateInv ==
  ASSUME Inv, NEW f \in Flows, ServeGenerate(f)
  PROVE  Inv'
<1> DEFINE q == flow[f]
<1>1. /\ q # None /\ q.op = "generate" /\ q.step = "call" /\ issued < MaxConns
      /\ UNCHANGED <<conn, tab, inputs, fallback, behind>>
  BY DEF ServeGenerate, Arrives, Gets
<1>2. /\ q \in Flow /\ FlowFits(q) /\ q.perms \in SUBSET Perms
      /\ issued \in 1..MaxConns /\ MaxConns \in Nat \ {0}
      /\ flow \in [Flows -> Flow \cup {None}]
      /\ conn \in [ConnIds -> Connection \cup {None}]
      /\ invite \in [ConnIds -> (SUBSET Perms) \cup {None}]
      /\ chosen \in [ConnIds -> SUBSET Perms]
  BY <1>1, Records, PagesAssumption DEF Inv, FitsInv, Typed
<1>3. PICK i \in ConnIds : i = issued + 1
  BY <1>1, <1>2 DEF ConnIds
<1> DEFINE r == [[q EXCEPT !.answer = "ok"] EXCEPT !.id = i]
<1>4. /\ issued' = i /\ invite' = [invite EXCEPT ![i] = q.perms]
      /\ chosen' = [chosen EXCEPT ![i] = q.perms]
      /\ AnswerWith(f, [q EXCEPT !.answer = "ok", !.id = i])
  BY <1>3 DEF ServeGenerate
<1>5. flow' = [flow EXCEPT ![f] = r]
  BY <1>2, <1>4 DEF AnswerWith
<1>6. /\ r \in Flow /\ r.tab = q.tab /\ r.live = q.live /\ r.op = q.op
      /\ r.id = i /\ r.step = q.step /\ r.perms = q.perms
      /\ r.value = q.value /\ r.listed = q.listed /\ r.answer = "ok" /\ r.view = q.view
  BY <1>2 DEF Flow
<1>7. q.view = None /\ q.listed \subseteq Known /\ q.op \notin Loads /\ q.op \in Lists
  BY <1>1, <1>2 DEF FlowFits, Loads, Edits, Lists
<1> HIDE DEF r
<1>8. Answered(f, r)
  BY <1>1, <1>5, <1>6, <1>7 DEF Answered
<1>9. conn[i] = None
  BY <1>2, <1>3 DEF Inv, FitsInv, Known
<1>10. /\ invite' \in [ConnIds -> (SUBSET Perms) \cup {None}] /\ invite'[i] = q.perms
       /\ chosen' \in [ConnIds -> SUBSET Perms] /\ chosen'[i] = q.perms
       /\ \A d \in ConnIds \ {i} : invite'[d] = invite[d] /\ chosen'[d] = chosen[d]
  BY <1>2, <1>4
<1> QED BY <1>1, <1>2, <1>3, <1>4, <1>6, <1>7, <1>8, <1>9, <1>10, NumberedInv

\* A connection is made of a URI.
LEMMA ServeCreateInv ==
  ASSUME Inv, NEW f \in Flows, ServeCreate(f)
  PROVE  Inv'
<1> DEFINE q == flow[f]
<1>1. /\ q # None /\ q.op = "import" /\ q.step = "call" /\ issued < MaxConns
      /\ UNCHANGED <<invite, tab, inputs, fallback, behind>> /\ Answer(f, "ok", None)
  BY DEF ServeCreate, Arrives, Gets
<1>2. /\ q \in Flow /\ q.perms \in SUBSET Perms
      /\ issued \in 1..MaxConns /\ MaxConns \in Nat \ {0}
      /\ conn \in [ConnIds -> Connection \cup {None}]
      /\ invite \in [ConnIds -> (SUBSET Perms) \cup {None}]
      /\ chosen \in [ConnIds -> SUBSET Perms]
  BY <1>1, Records, PagesAssumption DEF Inv, FitsInv, Typed
<1>3. PICK i \in ConnIds : i = issued + 1
  BY <1>1, <1>2 DEF ConnIds
<1>4. /\ issued' = i
      /\ \E status \in {"PENDING", "ACTIVE"} : Start(i, q.perms, status)
      /\ chosen' = [chosen EXCEPT ![i] = IF q.perms = {} THEN Defaults ELSE q.perms]
  BY <1>3 DEF ServeCreate
<1>5. PICK n \in Connection :
        /\ conn' = [conn EXCEPT ![i] = n]
        /\ GrantedOf(n) \subseteq IF q.perms = {} THEN Defaults ELSE q.perms
  <2>1. PICK status \in {"PENDING", "ACTIVE"} : Start(i, q.perms, status)
    BY <1>4
  <2> QED BY <1>2, <2>1, StartGrants
<1>6. q.op \notin Loads /\ q.op \in Lists
  BY <1>1 DEF Loads, Edits, Lists
<1>7. PICK r : Answered(f, r) /\ r.op = q.op
  <2> DEFINE v == None
             a == "ok"
  <2>1. v \in Connection \cup {None} /\ v = None /\ Answer(f, a, v) /\ a = "ok" /\ a \in {"ok", "failed"}
    BY <1>1
  <2> HIDE DEF v, a
  <2> QED BY <1>1, <1>6, <2>1, AnswerAnswered
<1>8. invite'[i] = None
  BY <1>1, <1>2, <1>3 DEF Inv, FitsInv
<1>9. /\ conn' \in [ConnIds -> Connection \cup {None}] /\ conn'[i] = n
      /\ \A d \in ConnIds \ {i} : conn'[d] = conn[d]
  BY <1>2, <1>5
<1>10. /\ chosen' \in [ConnIds -> SUBSET Perms] /\ GrantedOf(n) \subseteq chosen'[i]
       /\ \A d \in ConnIds \ {i} : chosen'[d] = chosen[d]
  <2> DEFINE P == IF q.perms = {} THEN Defaults ELSE q.perms
  <2>1. P \in SUBSET Perms /\ chosen' = [chosen EXCEPT ![i] = P] /\ GrantedOf(n) \subseteq P
    BY <1>2, <1>4, <1>5, PagePerms
  <2> HIDE DEF P
  <2> QED BY <1>2, <2>1
<1> QED BY <1>1, <1>2, <1>3, <1>4, <1>6, <1>7, <1>8, <1>9, <1>10, NumberedInv
-----------------------------------------------------------------------------
(* Every step.                                                               *)

\* At the start one connection was made, and no handler runs.
LEMMA InitInv == Init => Inv
<1> SUFFICES ASSUME Init PROVE Inv
  OBVIOUS
<1> DEFINE none == {}
           r == [permissions |-> {AsRow(Sign(0), TRUE)}, status |-> "ACTIVE", logging |-> TRUE]
           first == {1}
           s == [ListPage EXCEPT !.listed = first]
           P == {Sign(0)}
<1>1. 1 \in ConnIds /\ MaxConns \in Nat \ {0} /\ 1 \in 1..MaxConns /\ 0 \in 0..MaxInputs
  BY PagesAssumption DEF ConnIds
<1>2. none \in SUBSET Perms /\ P \in SUBSET Perms /\ none \subseteq ConnIds /\ none \subseteq Tabs
  BY PagePerms
<1>3. r \in Connection /\ GrantedOf(r) \subseteq P
  <2>1. AsRow(Sign(0), TRUE) \in Rows /\ Named(AsRow(Sign(0), TRUE)) = Sign(0)
    BY PagePerms, RowNames
  <2>2. r \in Connection
    BY <2>1 DEF Connection
  <2> QED BY <2>1, <2>2 DEF GrantedOf
<1>4. s \in Tab /\ s.page = "list" /\ s.id = None /\ s.view = None /\ s.listed = first
  <2>1. ListPage \in Tab
    BY MountedPages
  <2>2. first \in SUBSET ConnIds
    BY <1>1
  <2> HIDE DEF first
  <2> QED BY <2>1, <2>2, MountedPages DEF Tab
<1>5. /\ invite = [c \in ConnIds |-> None] /\ issued = 1 /\ inputs = 0
      /\ conn = [c \in ConnIds |-> IF c > 1 THEN None ELSE r]
      /\ tab = [t \in Tabs |-> s] /\ flow = [f \in Flows |-> None]
      /\ chosen = [c \in ConnIds |-> IF c > 1 THEN none ELSE P]
      /\ fallback = none /\ behind = none
  BY DEF Init
<1> HIDE DEF none, r, first, s, P
<1>6. Typed
  BY <1>1, <1>2, <1>3, <1>4, <1>5 DEF Typed
<1>7. 1 \in Known
  BY <1>1, <1>5 DEF Known
<1>8. \A c \in ConnIds : conn[c] # None => c = 1 /\ conn[c] = r
  BY <1>5, PagesAssumption DEF ConnIds
<1>9. FitsInv
  <2>1. TabFits(s)
    BY <1>4, <1>7 DEF TabFits, first
  <2> QED BY <1>5, <1>6, <1>7, <1>8, <2>1 DEF FitsInv
<1>10. PickedInv
  <2>1. \A c \in ConnIds : conn[c] # None => GrantedOf(conn[c]) \subseteq Picked(c)
    BY <1>1, <1>3, <1>5, <1>8 DEF Picked
  <2> QED BY <1>4, <1>5, <2>1 DEF PickedInv
<1>11. AloneInv
  BY <1>4, <1>5 DEF AloneInv, Alone
<1> QED BY <1>9, <1>10, <1>11 DEF Inv

\* A step that changes nothing.
LEMMA StutterInv ==
  ASSUME Inv, UNCHANGED vars
  PROVE  Inv'
<1>1. UNCHANGED <<invite, conn, issued, tab, flow, inputs, chosen, fallback, behind>>
  BY DEF vars
<1>2. Known' = Known /\ \A c : Picked(c)' = Picked(c)
  BY <1>1 DEF Known, Picked
<1>3. FitsInv'
  BY <1>1, <1>2 DEF Inv, FitsInv, Typed, TabFits, FlowFits, PageFits
<1>4. PickedInv'
  BY <1>1, <1>2 DEF Inv, PickedInv, FlowPicked, GrantedOf
<1>5. AloneInv'
  BY <1>1 DEF Inv, AloneInv, Alone, AloneWith, FlowsOf, FlowSees
<1> QED BY <1>3, <1>4, <1>5 DEF Inv

\* Every step keeps the invariant.
LEMMA NextInv ==
  ASSUME Inv, [Next]_vars
  PROVE  Inv'
<1>1. ASSUME NEW f \in Flows, Serve(f) PROVE Inv'
  BY <1>1, ServeEditInv, ServeDeleteInv, ServeGetInv, ServeGenerateInv, ServeCreateInv DEF Serve
<1>2. ASSUME NEW f \in Flows, Apply(f) PROVE Inv'
  BY <1>2, ApplyInv
<1>3. ASSUME NEW f \in Flows, Lose(f) PROVE Inv'
  BY <1>3, LoseInv
<1>4. ASSUME NEW f \in Flows, NEW t \in Tabs,
             Navigate(f, t) \/ ClickConnection(f, t) \/ Submit(f, t)
      PROVE  Inv'
  BY <1>4, NavigateInv, ClickConnectionClicks, SubmitClicks, ClicksInv
<1>5. ASSUME NEW t \in Tabs, Fill(t) PROVE Inv'
  BY <1>5, FillInv
<1>6. ASSUME Client PROVE Inv'
  BY <1>6, PairInv, AskInv DEF Client
<1>7. CASE UNCHANGED vars
  BY <1>7, StutterInv
<1> QED BY <1>1, <1>2, <1>3, <1>4, <1>5, <1>6, <1>7 DEF Next

\* The invariant holds in every state.
LEMMA InvAlways == Spec => []Inv
<1>1. Init => Inv
  BY InitInv
<1>2. Inv /\ [Next]_vars => Inv'
  BY NextInv
<1> QED BY <1>1, <1>2, PTL DEF Spec

\* The pages, the handlers and the tables hold what their types say, however
\* many of them there are (ConnectionPages.TypeOK).
THEOREM TypeCorrect == Spec => []TypeOK
<1>1. Inv => TypeOK
  BY DEF Inv, FitsInv, Typed, TypeOK
<1> QED BY <1>1, InvAlways, PTL

\* Nothing is granted that nobody picked, with any number of tabs, old copies,
\* lost requests and clients that ask (setGranted, approvePending, create).
THEOREM GrantsWerePickedAlways == Spec => []GrantsWerePicked
<1>1. Inv => GrantsWerePicked
  BY DEF Inv, PickedInv, Picked, GrantedOf, GrantsWerePicked, Granted
<1> QED BY <1>1, InvAlways, PTL

\* A page alone with its connection, with nothing under way, shows what the
\* server has (reloadConnection, toggleLogging, revokeConnection).
THEOREM AloneSeesAllAlways == Spec => []AloneSeesAll
<1>1. Inv => AloneSeesAll
  BY DEF Inv, AloneInv, Alone, AloneWith, AloneSeesAll
<1> QED BY <1>1, InvAlways, PTL
==============================================================================
