--------------------------- MODULE ConnectionPages ---------------------------
(***************************************************************************)
(* The pages on which an operator invites clients and edits what they may  *)
(* do: ConnectionsView.vue and ConnectionDetailView.vue, open in several   *)
(* tabs.  A page works on the copy it loaded; meanwhile clients ask for    *)
(* more, other tabs edit, and requests and answers are lost or overtake    *)
(* each other.                                                             *)
(*                                                                         *)
(* A flow is a handler of a page that waits for an answer.  Leaving the    *)
(* page does not stop it, but what it then writes nobody sees.  A call of  *)
(* the server is one step here: DashboardApi has its parts.  Keys, names,  *)
(* the search and the log of a connection are left out.                    *)
(***************************************************************************)
EXTENDS Permissions

CONSTANTS
  Tabs,
  Flows,       \* handlers that can be waiting at a time
  Methods,     \* the methods whose switches operators use ...
  Kinds,       \* ... and the kinds they type
  Asked,       \* what clients ask for
  Pasted,      \* what nostrconnect:// URIs declare: lists of descriptors, as sets
  MaxConns,    \* bound: invitations and connections ever made
  MaxInputs,   \* bound: clicks and requests of clients
  None

ConnIds == 1..MaxConns

Defaults == Range(DEFAULT_CONNECTION_PERMISSIONS)

AllKinds(m) == [method |-> m, kind |-> NoKind]
Sign(k) == [method |-> "sign_event", kind |-> k]

\* A row of connection_permissions; those of one descriptor count as one.
Row == [method : Nip46Methods, kind : Int, allowed : BOOLEAN]

AsRow(p, allowed) == [method |-> p.method, kind |-> p.kind, allowed |-> allowed]

\* The method and kind of a row.
Named(r) == [method |-> r.method, kind |-> r.kind]

Rows == {AsRow(p, allowed) : p \in Perms, allowed \in BOOLEAN}

\* What a GET answers, and a page keeps.
Connection == [permissions : SUBSET Rows, status : {"PENDING", "ACTIVE", "REVOKED"},
               logging : BOOLEAN]

\* page: the list (with the forms) or one connection, id; view: its copy.
Tab == [page : {"list", "connection"}, id : ConnIds \cup {None},
        view : Connection \cup {None}, listed : SUBSET ConnIds,
        mode : {"idle", "generate", "import"}, seed : SUBSET Perms,
        uri : ConnIds \cup {None}, busy : BOOLEAN]

Edits == {"set", "approve", "deny"}

Op == Edits \cup {"open", "load", "logging", "status", "delete", "generate", "import"}

\* live: the page that began it is still there; perms, value: what it sends;
\* view, listed: what a GET answered.
Flow == [tab : Tabs, live : BOOLEAN, op : Op, id : ConnIds \cup {None},
         step : {"call", "get", "parse"}, perms : SUBSET Perms,
         value : {"ACTIVE", "REVOKED", "on", "off", "none"},
         answer : {"none", "ok", "failed"},
         view : Connection \cup {None}, listed : SUBSET ConnIds]

ASSUME PagesAssumption ==
  /\ Methods \subseteq GatedMethods
  /\ {AllKinds(m) : m \in GatedMethods} \cup {Sign(k) : k \in Kinds} \subseteq Perms
  /\ Asked \subseteq Perms /\ Pasted \subseteq SUBSET Perms
  /\ MaxConns \in Nat \ {0} /\ MaxInputs \in Nat
  /\ \A P \in SUBSET Perms : None # P
  /\ None \notin ConnIds \cup Connection \cup Flow

VARIABLES
  invite,   \* invitations that wait for a client: number -> the seed, or None
  conn,     \* connections: number (that of the invitation) -> row, or None
  issued,   \* numbers given so far
  tab,      \* Tabs -> its page
  flow,     \* Flows -> the waiting handler, or None
  inputs,   \* clicks and requests so far
  chosen,   \* history: what operators picked for a connection, click by click
  fallback, \* history: connections of an invitation without a seed
  behind    \* history: tabs that were not alone with their connection

vars == <<invite, conn, issued, tab, flow, inputs, chosen, fallback, behind>>
tables == <<invite, conn, issued>>
history == <<chosen, fallback, behind>>

TypeOK ==
  /\ \A c \in ConnIds : invite[c] = None \/ invite[c] \subseteq Perms
  /\ \A c \in ConnIds : conn[c] = None \/ conn[c] \in Connection
  /\ issued \in 0..MaxConns
  /\ \A t \in Tabs : tab[t] \in Tab
  /\ \A f \in Flows : flow[f] = None \/ flow[f] \in Flow
  /\ inputs \in 0..MaxInputs
  /\ chosen \in [ConnIds -> SUBSET Perms]
  /\ fallback \subseteq ConnIds
  /\ behind \subseteq Tabs

\* The list, freshly mounted.
ListPage ==
  [page |-> "list", id |-> None, view |-> None, listed |-> {}, mode |-> "idle",
   seed |-> Defaults, uri |-> None, busy |-> FALSE]

Page(c) == [ListPage EXCEPT !.page = "connection", !.id = c, !.seed = {}]

\* Connection 1 may do one thing that was picked for it; the lists are loaded.
Init ==
  /\ invite = [c \in ConnIds |-> None]
  /\ conn = [c \in ConnIds |->
       IF c > 1 THEN None
       ELSE [permissions |-> {AsRow(Sign(0), TRUE)}, status |-> "ACTIVE",
             logging |-> TRUE]]
  /\ issued = 1
  /\ tab = [t \in Tabs |-> [ListPage EXCEPT !.listed = {1}]]
  /\ flow = [f \in Flows |-> None]
  /\ inputs = 0
  /\ chosen = [c \in ConnIds |-> IF c > 1 THEN {} ELSE {Sign(0)}]
  /\ fallback = {}
  /\ behind = {}
-----------------------------------------------------------------------------
(* Handlers of a page.                                                       *)

FlowsOf(t) == {f \in Flows : flow[f] # None /\ flow[f].tab = t /\ flow[f].live}

\* Tabs that show, or are loading, connection c.
Showing(c) == {t \in Tabs : tab[t].id = c}

Input ==
  /\ inputs < MaxInputs
  /\ inputs' = inputs + 1

NewFlow(t, op, c, perms, value) ==
  [tab |-> t, live |-> TRUE, op |-> op, id |-> c,
   step |-> IF op \in {"open", "load"} THEN "get" ELSE IF op = "import" THEN "parse" ELSE "call",
   perms |-> perms, value |-> value, answer |-> "none", view |-> None, listed |-> {}]

\* A click in tab t, whose page becomes s.
Begin(f, t, s, op, perms, value) ==
  /\ flow[f] = None
  /\ flow' = [flow EXCEPT ![f] = NewFlow(t, op, tab[t].id, perms, value)]
  /\ tab' = [tab EXCEPT ![t] = s]
  /\ behind' = IF FlowsOf(t) = {} THEN behind ELSE behind \cup {t}
  /\ Input

\* The handler goes on to a GET, or ends; what it writes to its page is s.
Continue(f, step) == flow' = [flow EXCEPT ![f].step = step, ![f].answer = "none", ![f].view = None]

Ends(f) == flow' = [flow EXCEPT ![f] = None]

Writes(f, s) == tab' = IF flow[f].live THEN [tab EXCEPT ![flow[f].tab] = s] ELSE tab

At(f) == tab[flow[f].tab]

Gets(f, ops, step, answer) ==
  /\ flow[f] # None
  /\ flow[f].op \in ops /\ flow[f].step = step /\ flow[f].answer = answer

\* Tab t mounts page s: what still runs there goes on unseen, and the page
\* loads what it shows.
Mounts(t, s, f, without) ==
  /\ f \notin without => flow[f] = None
  /\ flow' = [g \in Flows |->
       IF g = f THEN NewFlow(t, IF s.page = "list" THEN "load" ELSE "open", s.id, {}, "none")
       ELSE IF g \in without THEN None
       ELSE IF flow[g] # None /\ flow[g].tab = t THEN [flow[g] EXCEPT !.live = FALSE]
       ELSE flow[g]]
  /\ tab' = [tab EXCEPT ![t] = s]
  /\ behind' = behind \ {t}

\* From the list to a connection, or back.
Navigate(f, t) ==
  /\ \/ tab[t].page = "list" /\ \E c \in tab[t].listed : Mounts(t, Page(c), f, {})
     \/ tab[t].page = "connection" /\ Mounts(t, ListPage, f, {})
  /\ Input
  /\ UNCHANGED <<tables, chosen, fallback>>

\* A request or its answer is lost.
Lose(f) ==
  /\ flow[f] # None /\ flow[f].answer # "failed"
  /\ flow' = [flow EXCEPT ![f].answer = "failed", ![f].view = None, ![f].listed = {}]
  /\ behind' = behind \cup {flow[f].tab}
  /\ UNCHANGED <<tables, tab, inputs, chosen, fallback>>
-----------------------------------------------------------------------------
(* ConnectionDetailView.                                                     *)

\* Mutant: the rows of pending requests count as granted.
AnyPerms(v) == v.permissions

GrantedPerms(v) == {p \in v.permissions : p.allowed}
PendingPerms(v) == {p \in v.permissions : ~ p.allowed}

\* Mutant: a kind is sent when it is truthy, which 0 is not.
WireTruthyKind(p) == [method |-> p.method, kind |-> IF p.kind = 0 THEN NoKind ELSE p.kind]

\* Mutant: the row is sent as the page has it.
WireRow(p) == p

WirePerm(p) == Named(p)

IsMethodAllKinds(v, m) == \E p \in GrantedPerms(v) : p.method = m /\ p.kind = NoKind

OtherMethods(v, m) == {p \in GrantedPerms(v) : p.method # m}

AlreadyGranted(v, p) ==
  \E q \in GrantedPerms(v) : q.method = p.method /\ q.kind \in {NoKind, p.kind}

\* setGranted sends the whole list, made of the page's copy; what the operator
\* picked of it goes down in history.
SetGranted(f, t, list, picked) ==
  /\ Begin(f, t, tab[t], "set", {WirePerm(p) : p \in list}, "none")
  /\ chosen' = [chosen EXCEPT ![tab[t].id] = @ \cup picked]

GrantAllKinds(f, t, m) ==
  LET v == tab[t].view IN
  /\ ~ IsMethodAllKinds(v, m)
  /\ SetGranted(f, t, OtherMethods(v, m) \cup {AllKinds(m)}, {AllKinds(m)})

RevokeMethod(f, t, m) ==
  /\ IsMethodAllKinds(tab[t].view, m)
  /\ SetGranted(f, t, OtherMethods(tab[t].view, m), {})

GrantKind(f, t, k) ==
  /\ ~ AlreadyGranted(tab[t].view, Sign(k))
  /\ SetGranted(f, t, GrantedPerms(tab[t].view) \cup {Sign(k)}, {Sign(k)})

RevokePerm(f, t, p) ==
  SetGranted(f, t, {q \in GrantedPerms(tab[t].view) : Named(q) # Named(p)}, {})

GrantAll(f, t) ==
  LET all == {AllKinds(m) : m \in GatedMethods} IN SetGranted(f, t, all, all)

RevokeAll(f, t) ==
  /\ GrantedPerms(tab[t].view) # {}
  /\ SetGranted(f, t, {}, {})

EditGranted(f, t) ==
  \/ \E m \in Methods : GrantAllKinds(f, t, m) \/ RevokeMethod(f, t, m)
  \/ \E k \in Kinds : GrantKind(f, t, k)
  \/ \E p \in GrantedPerms(tab[t].view) : RevokePerm(f, t, p)
  \/ GrantAll(f, t)
  \/ RevokeAll(f, t)

\* approvePerm, denyPerm and, with no list, approveAllPending and denyAllPending.
DecidePending(f, t) ==
  \E op \in {"approve", "deny"}, p \in PendingPerms(tab[t].view) :
    \/ /\ Begin(f, t, tab[t], op, {WirePerm(p)}, "none")
       /\ chosen' = IF op = "approve"
                    THEN [chosen EXCEPT ![tab[t].id] = @ \cup {Named(p)}] ELSE chosen
    \/ /\ Begin(f, t, tab[t], op, {}, "none")
       /\ UNCHANGED chosen

\* toggleLogging, revokeConnection, reactivateConnection, confirmDeleteConnection.
Govern(f, t) ==
  /\ \/ Begin(f, t, tab[t], "logging", {}, IF tab[t].view.logging THEN "off" ELSE "on")
     \/ tab[t].view.status = "ACTIVE" /\ Begin(f, t, tab[t], "status", {}, "REVOKED")
     \/ tab[t].view.status = "REVOKED" /\ Begin(f, t, tab[t], "status", {}, "ACTIVE")
     \/ Begin(f, t, tab[t], "delete", {}, "none")
  /\ UNCHANGED chosen

ClickConnection(f, t) ==
  /\ tab[t].page = "connection" /\ tab[t].view # None
  /\ EditGranted(f, t) \/ DecidePending(f, t) \/ Govern(f, t)
  /\ UNCHANGED <<tables, fallback>>

\* Mutant: the page is not loaded again after a denial.
ReloadsUnlessDenied(op) == op \in {"set", "approve"}

Reloads(op) == op \in Edits

\* An edit was stored: the page loads the connection again.
Edited(f) ==
  /\ Gets(f, Edits, "call", "ok")
  /\ IF Reloads(flow[f].op) /\ flow[f].live THEN Continue(f, "get") ELSE Ends(f)
  /\ UNCHANGED <<tables, tab, inputs, history>>

\* What onMounted or reloadConnection got; a page that cannot load goes back.
Loaded(f) ==
  /\ Gets(f, Edits \cup {"open"}, "get", "ok")
  /\ Writes(f, [At(f) EXCEPT !.view = flow[f].view])
  /\ Ends(f)
  /\ UNCHANGED <<tables, inputs, history>>

Unloaded(f) ==
  /\ Gets(f, {"open"}, "get", "failed")
  /\ \E g \in Flows : Mounts(flow[f].tab, ListPage, g, {f})
  /\ UNCHANGED <<tables, inputs, chosen, fallback>>

\* The page takes the new switch or status for granted.
Governed(f) ==
  /\ Gets(f, {"logging", "status"}, "call", "ok")
  /\ Writes(f, IF flow[f].op = "logging" THEN [At(f) EXCEPT !.view.logging = flow[f].value = "on"]
               ELSE [At(f) EXCEPT !.view.status = flow[f].value])
  /\ Ends(f)
  /\ UNCHANGED <<tables, inputs, history>>

\* Deleted: on to the list, from whatever page the tab shows by now.
Deleted(f) ==
  /\ Gets(f, {"delete"}, "call", "ok")
  /\ IF At(f).page = "list" THEN Ends(f) /\ UNCHANGED <<tab, behind>>
     ELSE \E g \in Flows : Mounts(flow[f].tab, ListPage, g, {f})
  /\ UNCHANGED <<tables, inputs, chosen, fallback>>

\* Nothing catches the error: the page stays as it was.
Fails(f) ==
  /\ flow[f] # None /\ flow[f].answer = "failed" /\ flow[f].op # "open"
  /\ Writes(f, IF flow[f].op \in {"generate", "import"} THEN [At(f) EXCEPT !.busy = FALSE]
               ELSE At(f))
  /\ Ends(f)
  /\ UNCHANGED <<tables, inputs, history>>
-----------------------------------------------------------------------------
(* ConnectionsView.                                                          *)

Reset(s) == [s EXCEPT !.mode = "idle", !.seed = Defaults, !.uri = None, !.busy = FALSE]

IsSeedAllKinds(s, m) == AllKinds(m) \in s.seed

ToggleSeedMethod(s, m) ==
  LET others == {p \in s.seed : p.method # m} IN
  [s EXCEPT !.seed = IF IsSeedAllKinds(s, m) THEN others ELSE others \cup {AllKinds(m)}]

RemoveSeedPerm(s, p) == [s EXCEPT !.seed = @ \ {p}]

AddSeedKind(s, k) ==
  [s EXCEPT !.seed =
     IF \E p \in @ : p.method = "sign_event" /\ p.kind \in {NoKind, k} THEN @ ELSE @ \cup {Sign(k)}]

\* The switch over all methods grants every one of them, or clears the seed.
ToggleAllSeed(s) ==
  LET all == {AllKinds(m) : m \in GatedMethods} IN
  [s EXCEPT !.seed = IF all \subseteq @ THEN {} ELSE all]

Picks(s) ==
  {ToggleSeedMethod(s, m) : m \in Methods} \cup {RemoveSeedPerm(s, p) : p \in s.seed}
    \cup {AddSeedKind(s, k) : k \in Kinds} \cup {ToggleAllSeed(s)}

\* Clicks that ask nothing of the server: the modes, Cancel, the seed, and
\* Generate Another.
Fill(t) ==
  LET s == tab[t] IN
  /\ s.page = "list"
  /\ \/ s.mode = "idle" /\ \E m \in {"generate", "import"} :
                             tab' = [tab EXCEPT ![t] = [s EXCEPT !.mode = m]]
     \/ s.mode # "idle" /\ tab' = [tab EXCEPT ![t] = Reset(s)]
     \/ s.mode = "generate" /\ s.uri = None /\ \E r \in Picks(s) : tab' = [tab EXCEPT ![t] = r]
     \/ s.mode = "generate" /\ s.uri # None /\ tab' = [tab EXCEPT ![t] = [s EXCEPT !.uri = None]]
  /\ Input
  /\ UNCHANGED <<tables, flow, history>>

\* The buttons Generate URI, Create Connection and Refresh.
Generate(f, t) ==
  LET s == tab[t] IN
  /\ s.mode = "generate" /\ s.uri = None /\ ~ s.busy
  /\ Begin(f, t, [s EXCEPT !.busy = TRUE], "generate", s.seed, "none")

Import(f, t) ==
  LET s == tab[t] IN
  /\ s.mode = "import" /\ ~ s.busy
  /\ \E P \in Pasted : Begin(f, t, [s EXCEPT !.busy = TRUE], "import", P, "none")

Refresh(f, t) ==
  /\ tab[t].mode = "generate" /\ tab[t].uri # None
  /\ Begin(f, t, tab[t], "load", {}, "none")

Submit(f, t) ==
  /\ tab[t].page = "list"
  /\ Generate(f, t) \/ Import(f, t) \/ Refresh(f, t)
  /\ UNCHANGED <<tables, chosen, fallback>>

Generated(f) ==
  /\ Gets(f, {"generate"}, "call", "ok")
  /\ Writes(f, [At(f) EXCEPT !.uri = flow[f].id, !.busy = FALSE])
  /\ Ends(f)
  /\ UNCHANGED <<tables, inputs, history>>

\* Parsed, created, listed: the form is reset.
Imported(f) ==
  /\ \/ Gets(f, {"import"}, "parse", "ok") /\ Continue(f, "call") /\ UNCHANGED tab
     \/ Gets(f, {"import"}, "call", "ok") /\ Continue(f, "get") /\ UNCHANGED tab
     \/ /\ Gets(f, {"import"}, "get", "ok")
        /\ Writes(f, [Reset(At(f)) EXCEPT !.listed = flow[f].listed])
        /\ Ends(f)
  /\ UNCHANGED <<tables, inputs, history>>

Listed(f) ==
  /\ Gets(f, {"load"}, "get", "ok")
  /\ Writes(f, [At(f) EXCEPT !.listed = flow[f].listed])
  /\ Ends(f)
  /\ UNCHANGED <<tables, inputs, history>>
-----------------------------------------------------------------------------
(* The server.                                                               *)

Answer(f, a, view) == flow' = [flow EXCEPT ![f].answer = a, ![f].view = view]

AnswerWith(f, r) == flow' = [flow EXCEPT ![f] = r]

Arrives(f, ops, step) == Gets(f, ops, step, "none")

\* The granted rows become those of the list; pending ones that are not in it stay.
SetPermissions(rows, list) ==
  {r \in rows : ~ r.allowed /\ Named(r) \notin list} \cup {AsRow(p, TRUE) : p \in list}

Decided(rows, list) == {r \in rows : ~ r.allowed /\ (list = {} \/ Named(r) \in list)}

Stores(list) == \A p \in list : Storable(p.kind)

\* What the calls of a page make of a connection.
After(f, r) ==
  LET q == flow[f]
      rows == r.permissions
      decided == Decided(rows, q.perms) IN
  CASE q.op = "set" /\ Stores(q.perms) ->
         [r EXCEPT !.permissions = SetPermissions(rows, q.perms)]
    [] q.op = "set" /\ ~ Stores(q.perms) ->
         [r EXCEPT !.permissions = {p \in rows : ~ p.allowed}]
    [] q.op = "approve" ->
         [r EXCEPT !.permissions = (rows \ decided) \cup {AsRow(d, TRUE) : d \in decided}]
    [] q.op = "deny" -> [r EXCEPT !.permissions = rows \ decided]
    [] q.op = "logging" -> [r EXCEPT !.logging = q.value = "on"]
    [] q.op = "status" -> [r EXCEPT !.status = q.value]

\* An edit, a switch, a status.  A list with a kind the column cannot hold
\* fails when the old grants are gone already.
ServeEdit(f) ==
  LET c == flow[f].id IN
  /\ Arrives(f, Edits \cup {"logging", "status"}, "call")
  /\ IF conn[c] = None
     THEN Answer(f, "failed", None) /\ UNCHANGED <<conn, chosen, behind>>
     ELSE /\ conn' = [conn EXCEPT ![c] = After(f, @)]
          /\ Answer(f, IF Stores(flow[f].perms) THEN "ok" ELSE "failed", None)
          /\ chosen' = IF flow[f].op = "approve" /\ flow[f].perms = {}
                       THEN [chosen EXCEPT ![c] =
                               @ \cup {Named(p) : p \in Decided(conn[c].permissions, {})}]
                       ELSE chosen
          /\ behind' = behind \cup (Showing(c) \ {t \in Tabs : flow[f].tab = t /\ flow[f].live})
                         \cup (IF Stores(flow[f].perms) THEN {} ELSE {flow[f].tab})
  /\ UNCHANGED <<invite, issued, tab, inputs, fallback>>

ServeDelete(f) ==
  LET c == flow[f].id IN
  /\ Arrives(f, {"delete"}, "call")
  /\ Answer(f, IF conn[c] = None THEN "failed" ELSE "ok", None)
  /\ conn' = [conn EXCEPT ![c] = None]
  /\ behind' = behind \cup Showing(c)
  /\ UNCHANGED <<invite, issued, tab, inputs, chosen, fallback>>

ServeGet(f) ==
  /\ \/ /\ Arrives(f, Edits \cup {"open"}, "get")
        /\ IF conn[flow[f].id] = None THEN Answer(f, "failed", None)
           ELSE Answer(f, "ok", conn[flow[f].id])
     \/ /\ Arrives(f, {"load", "import"}, "get")
        /\ AnswerWith(f, [flow[f] EXCEPT !.answer = "ok",
                                         !.listed = {c \in ConnIds : conn[c] # None}])
     \/ Arrives(f, {"import"}, "parse") /\ Answer(f, "ok", None)
  /\ behind' = IF flow'[f].answer = "failed" THEN behind \cup {flow[f].tab} ELSE behind
  /\ UNCHANGED <<tables, tab, inputs, chosen, fallback>>

\* generate-bunker-uri keeps the seed for the client that will connect.
ServeGenerate(f) ==
  /\ Arrives(f, {"generate"}, "call")
  /\ issued < MaxConns
  /\ issued' = issued + 1
  /\ invite' = [invite EXCEPT ![issued'] = flow[f].perms]
  /\ chosen' = [chosen EXCEPT ![issued'] = flow[f].perms]
  /\ AnswerWith(f, [flow[f] EXCEPT !.answer = "ok", !.id = issued'])
  /\ UNCHANGED <<conn, tab, inputs, fallback, behind>>

\* A connection that starts with the given permissions or, without any, with the
\* defaults.  A list that cannot be stored leaves nothing.
Start(c, seed, status) ==
  LET start == IF seed = {} THEN Defaults ELSE IF Stores(seed) THEN seed ELSE {} IN
  /\ conn' = [conn EXCEPT ![c] =
       [permissions |-> {AsRow(p, TRUE) : p \in start}, status |-> status, logging |-> TRUE]]

\* A pairing by nostrconnect:// starts with the defaults or what the URI declares.
ServeCreate(f) ==
  /\ Arrives(f, {"import"}, "call")
  /\ issued < MaxConns
  /\ issued' = issued + 1
  /\ \E status \in {"PENDING", "ACTIVE"} : Start(issued', flow[f].perms, status)
  /\ chosen' = [chosen EXCEPT ![issued'] = IF flow[f].perms = {} THEN Defaults ELSE flow[f].perms]
  /\ Answer(f, "ok", None)
  /\ UNCHANGED <<invite, tab, inputs, fallback, behind>>

Serve(f) == ServeEdit(f) \/ ServeDelete(f) \/ ServeGet(f) \/ ServeGenerate(f) \/ ServeCreate(f)
-----------------------------------------------------------------------------
(* The clients.                                                              *)

\* A client connects with an invitation; a seed that cannot be stored fails it.
Pair(c) ==
  /\ invite[c] # None
  /\ invite' = [invite EXCEPT ![c] = None]
  /\ Start(c, invite[c], IF Stores(invite[c]) THEN "ACTIVE" ELSE "PENDING")
  /\ fallback' = IF invite[c] = {} THEN fallback \cup {c} ELSE fallback
  /\ Input
  /\ UNCHANGED <<issued, tab, flow, chosen, behind>>

\* A connect, or a request that is denied, asks for p.
Ask(c, p) ==
  /\ conn[c] # None /\ conn[c].status # "REVOKED"
  /\ conn' = [conn EXCEPT ![c].status = "ACTIVE",
       ![c].permissions = IF p.kind # NoKind /\ AsRow(p, TRUE) \in @ THEN @
                          ELSE @ \cup {AsRow(p, FALSE)}]
  /\ conn' # conn
  /\ behind' = behind \cup Showing(c)
  /\ Input
  /\ UNCHANGED <<invite, issued, tab, flow, chosen, fallback>>

Client == \E c \in ConnIds : Pair(c) \/ \E p \in Asked : Ask(c, p)

Apply(f) ==
  \/ Edited(f) \/ Loaded(f) \/ Unloaded(f) \/ Governed(f) \/ Deleted(f)
  \/ Fails(f) \/ Generated(f) \/ Imported(f) \/ Listed(f)

Next ==
  \/ \E f \in Flows : Serve(f) \/ Apply(f) \/ Lose(f)
  \/ \E f \in Flows, t \in Tabs : Navigate(f, t) \/ ClickConnection(f, t) \/ Submit(f, t)
  \/ \E t \in Tabs : Fill(t)
  \/ Client

Spec == Init /\ [][Next]_vars
-----------------------------------------------------------------------------
(* Properties.                                                               *)

Granted(c) == {Named(p) : p \in {r \in conn[c].permissions : r.allowed}}

\* However old the copies are that lists are made of: whatever a connection may
\* do somebody picked, in the seed, by a switch, an approval or the URI pasted, or it
\* is of the defaults and the seed was empty.
GrantsWerePicked ==
  \A c \in ConnIds :
    conn[c] # None =>
      Granted(c) \subseteq chosen[c] \cup (IF c \in fallback THEN Defaults ELSE {})

\* The page of an operator who is alone with a connection, does one thing at a
\* time and saw nothing fail shows, when all is answered, what the server has.
AloneSeesAll ==
  \A t \in Tabs :
    tab[t].page = "connection" /\ t \notin behind /\ FlowsOf(t) = {} =>
      tab[t].view = conn[tab[t].id]

\* "No permissions selected - the connection starts able to do nothing until
\* you grant some" (ConnectionsView.vue, 403).
NothingSelectedNothingGranted ==
  \A c \in ConnIds : conn[c] # None /\ chosen[c] = {} => Granted(c) = {}
==============================================================================
