------------------------------ MODULE RpcHandler ------------------------------
(***************************************************************************)
(* handleRequest of apps/server/src/bunker/bunker-rpc.handler.ts, run once *)
(* for every NIP-46 request that arrives on a relay.  The handler is       *)
(* asynchronous: it gives up the event loop at every await, so each action *)
(* below is the code from one await to the next and any other request,     *)
(* dashboard call or timer may run in between.  What it knows of the       *)
(* connection is the row and the grants it read at the start.              *)
(***************************************************************************)
EXTENDS PendingSecrets

CONSTANTS
  Reqs,       \* identifiers of requests; each is received at most once
  RpcMenu,    \* the requests clients may send
  NoReq,
  NoSnap

\* A decrypted, parsed request.  kind is the event's kind (NoKind when the
\* event has none) and wellFormed says that the parameters the method needs
\* are present and can be used; perms and secret are those of a connect.
Request == [client : Clients, signer : Pubkeys, method : Nip46Methods, kind : Int,
            wellFormed : BOOLEAN, perms : PermLists, secret : Secrets \cup {NoSecret}]

\* The descriptor a method is checked against, and queued when it is denied.
WantedBy(q) ==
  [method |-> q.method,
   kind   |-> IF q.method = "sign_event" THEN q.kind ELSE NoKind]

\* What findByClientAndSigner returned: the row with its permissions.
Snapshot == [id : ConnIds, row : ConnRow, perms : SUBSET Perms]

ASSUME RpcAssumption ==
  /\ RpcMenu \subseteq Request
  /\ NoReq \notin Request
  /\ NoSnap \notin Snapshot
  /\ \A q \in RpcMenu :
       q.method \in GatedMethods /\ Storable(WantedBy(q).kind) => WantedBy(q) \in Perms

RpcRunning ==
  {"lookup", "pair", "insert", "seed", "refetch", "relookup", "serve", "activate",
   "record", "touch", "queue", "log", "publish"}

\* "unknown" and "answered" sent a response; "dropped" threw before it had
\* one; "lost" was in memory when the server stopped.
RpcEnded == {"unknown", "answered", "dropped", "lost"}

VARIABLES
  rpc,        \* Reqs -> where its handler is
  req,        \* Reqs -> the request
  info,       \* Reqs -> the invitation its connect consumed
  made,       \* Reqs -> id of the connection its connect inserted, or 0
  snap,       \* Reqs -> the connection it was resolved to
  performed,  \* requests whose capability was exercised with the key
  logged      \* requests with a signing_logs row

rpcVars == <<rpc, req, info, made, snap, performed, logged>>

RpcTypeOK ==
  /\ rpc \in [Reqs -> {"free"} \cup RpcRunning \cup RpcEnded]
  /\ req \in [Reqs -> Request \cup {NoReq}]
  /\ info \in [Reqs -> Invite \cup {NoInvite}]
  /\ made \in [Reqs -> 0..MaxConns]
  /\ snap \in [Reqs -> Snapshot \cup {NoSnap}]
  /\ performed \subseteq Reqs
  /\ logged \subseteq Reqs
  /\ \A r \in Reqs :
       /\ rpc[r] # "free" => req[r] \in Request
       /\ rpc[r] \in {"insert", "seed", "refetch"} => info[r] \in Invite
       /\ rpc[r] \in {"seed", "refetch"} => made[r] \in ConnIds
       /\ rpc[r] \in {"serve", "activate", "record", "touch", "queue", "log", "publish"} =>
            snap[r] \in Snapshot

RpcInit ==
  /\ rpc = [r \in Reqs |-> "free"]
  /\ req = [r \in Reqs |-> NoReq]
  /\ info = [r \in Reqs |-> NoInvite]
  /\ made = [r \in Reqs |-> 0]
  /\ snap = [r \in Reqs |-> NoSnap]
  /\ performed = {}
  /\ logged = {}

GoTo(r, pc) == rpc' = [rpc EXCEPT ![r] = pc]
-----------------------------------------------------------------------------
(* The decisions the handler takes on its snapshot.                          *)

Gated(r) == req[r].method \in GatedMethods

Wanted(r) == WantedBy(req[r])

\* sign_event parses its parameter before the check, the other methods look
\* at theirs after it.
Checked(r) == Gated(r) /\ (req[r].method = "sign_event" => req[r].wellFormed)

Denied(r) == Checked(r) /\ ~Permits(snap[r].perms, Wanted(r))

\* Mutant: the permission check is forgotten.
PerformsUnchecked(r) ==
  Checked(r) /\ req[r].wellFormed /\ (req[r].method = "sign_event" => req[r].kind # NoKind)

\* finalizeEvent throws on an event without a kind.
Performs(r) ==
  /\ Checked(r)
  /\ req[r].wellFormed
  /\ Permits(snap[r].perms, Wanted(r))
  /\ req[r].method = "sign_event" => req[r].kind # NoKind

\* The eventKind of the log entry: set once the event was parsed.
LoggedKind(r) ==
  IF req[r].method = "sign_event" /\ req[r].wellFormed THEN req[r].kind ELSE NoKind

\* The connection and its granted permissions, in one query.
TakeSnapshot(r, c) ==
  snap' = [snap EXCEPT ![r] = [id |-> c, row |-> conn[c], perms |-> Grants(c)]]

Live(r) == LiveFor(req[r].client, req[r].signer)
-----------------------------------------------------------------------------
(* Resolving the connection.                                                 *)

Receive(r) ==
  /\ rpc[r] = "free"
  /\ \E q \in RpcMenu : req' = [req EXCEPT ![r] = q]
  /\ GoTo(r, "lookup")
  /\ UNCHANGED <<db, pendingSecrets, issued, info, made, snap, performed, logged>>

\* await findByClientAndSigner.  A revoked connection is not found, so its
\* client gets the answer of an unknown one.
Lookup(r) ==
  /\ rpc[r] = "lookup"
  /\ \/ /\ \E c \in Newest(Live(r)) : TakeSnapshot(r, c)
        /\ GoTo(r, "serve")
     \/ /\ Live(r) = {}
        /\ GoTo(r, IF req[r].method = "connect" THEN "pair" ELSE "unknown")
        /\ UNCHANGED snap
  /\ UNCHANGED <<db, pendingSecrets, issued, req, info, made, performed, logged>>

\* handleNewConnect takes the invitation; it is gone whatever happens next.
Pair(r) ==
  LET found == Matching(req[r].signer, req[r].secret) IN
  /\ rpc[r] = "pair"
  /\ \/ /\ found = {}
        /\ GoTo(r, "unknown")
        /\ UNCHANGED <<pendingSecrets, issued, info>>
     \/ \E i \in found :
          /\ ConsumePendingSecret(i)
          /\ info' = [info EXCEPT ![r] = i]
          /\ GoTo(r, "insert")
  /\ UNCHANGED <<db, req, made, snap, performed, logged>>

\* createConnection: the key of that owner, then the row.  A missing key, a
\* row of the same client and key or a vanished key ends in the same null.
NewRow(r) ==
  [user |-> info[r].user, key |-> info[r].key, client |-> req[r].client,
   status |-> "PENDING", secret |-> req[r].secret]

PairInsert(r) ==
  /\ rpc[r] = "insert"
  /\ \/ /\ KeyOwner[info[r].key] = info[r].user
        /\ CanInsertConnection(NewRow(r))
        /\ InsertConnection(NewRow(r))
        /\ made' = [made EXCEPT ![r] = created + 1]
        /\ GoTo(r, "seed")
     \/ /\ ~ (KeyOwner[info[r].key] = info[r].user /\ CanInsertConnection(NewRow(r)))
        /\ GoTo(r, "unknown")
        /\ UNCHANGED <<db, made>>
  /\ UNCHANGED <<pendingSecrets, issued, req, info, snap, performed, logged>>

\* The operator's seed, or the defaults when it is empty.
SeedOf(list) == IF list = <<>> THEN DEFAULT_CONNECTION_PERMISSIONS ELSE list

PairSeed(r) ==
  /\ rpc[r] = "seed"
  /\ \/ /\ CanGrant(made[r], SeedOf(info[r].seed))
        /\ GrantRows(made[r], SeedOf(info[r].seed))
        /\ GoTo(r, "refetch")
     \/ /\ ~ CanGrant(made[r], SeedOf(info[r].seed))
        /\ GoTo(r, "unknown")
        /\ UNCHANGED db
  /\ UNCHANGED <<pendingSecrets, issued, req, info, made, snap, performed, logged>>

\* Mutant: a new connection is served without being looked up.
PairRefetchUnseen(r) ==
  /\ rpc[r] = "refetch"
  /\ GoTo(r, IF Exists(made[r]) THEN "serve" ELSE "unknown")
  /\ UNCHANGED <<db, pendingSecrets, issued, req, info, made, snap, performed, logged>>

\* The end of createConnection: publishUserActivity, which changes nothing
\* here, and findUniqueOrThrow.
PairRefetch(r) ==
  /\ rpc[r] = "refetch"
  /\ GoTo(r, IF Exists(made[r]) THEN "relookup" ELSE "unknown")
  /\ UNCHANGED <<db, pendingSecrets, issued, req, info, made, snap, performed, logged>>

PairLookup(r) ==
  /\ rpc[r] = "relookup"
  /\ \/ /\ \E c \in Newest(Live(r)) : TakeSnapshot(r, c)
        /\ GoTo(r, "serve")
     \/ /\ Live(r) = {}
        /\ GoTo(r, "unknown")
        /\ UNCHANGED snap
  /\ UNCHANGED <<db, pendingSecrets, issued, req, info, made, performed, logged>>
-----------------------------------------------------------------------------
(* Serving the method from the snapshot.                                     *)

\* Mutant: every connect activates its connection.
ServeConnectAlways(r) ==
  /\ rpc[r] = "serve"
  /\ req[r].method = "connect"
  /\ GoTo(r, "activate")
  /\ UNCHANGED <<db, pendingSecrets, issued, req, info, made, snap, performed, logged>>

ServeConnect(r) ==
  /\ rpc[r] = "serve"
  /\ req[r].method = "connect"
  /\ GoTo(r, IF snap[r].row.status = "PENDING" THEN "activate"
             ELSE IF req[r].perms # <<>> THEN "record" ELSE "touch")
  /\ UNCHANGED <<db, pendingSecrets, issued, req, info, made, snap, performed, logged>>

\* Sign, encrypt or decrypt with the key read in the snapshot.
ServePerform(r) ==
  /\ rpc[r] = "serve"
  /\ Performs(r)
  /\ performed' = performed \cup {r}
  /\ GoTo(r, "touch")
  /\ UNCHANGED <<db, pendingSecrets, issued, req, info, made, snap, logged>>

\* Denied, malformed, or a method that needs neither a grant nor a statement.
ServeOther(r) ==
  /\ rpc[r] = "serve"
  /\ req[r].method # "connect"
  /\ ~ Performs(r)
  /\ GoTo(r, "touch")
  /\ UNCHANGED <<db, pendingSecrets, issued, req, info, made, snap, performed, logged>>

\* Mutant: the statement is retried until the row is there.
ActivateOrWait(r) ==
  /\ rpc[r] = "activate"
  /\ Exists(snap[r].id)
  /\ UpdateConnectionStatus(snap[r].id, "ACTIVE")
  /\ GoTo(r, IF req[r].perms # <<>> THEN "record" ELSE "touch")
  /\ UNCHANGED <<pendingSecrets, issued, req, info, made, snap, performed, logged>>

\* The status is written as it was decided on the snapshot.  If the row is
\* gone the statement throws and the perms of the request are not recorded.
Activate(r) ==
  /\ rpc[r] = "activate"
  /\ \/ /\ Exists(snap[r].id)
        /\ UpdateConnectionStatus(snap[r].id, "ACTIVE")
        /\ GoTo(r, IF req[r].perms # <<>> THEN "record" ELSE "touch")
     \/ /\ ~ Exists(snap[r].id)
        /\ GoTo(r, "touch")
        /\ UNCHANGED db
  /\ UNCHANGED <<pendingSecrets, issued, req, info, made, snap, performed, logged>>

\* The perms of a connect are requests, whatever becomes of the statement.
Record(r) ==
  /\ rpc[r] = "record"
  /\ IF CanRequest(snap[r].id, req[r].perms)
     THEN RequestPermissions(snap[r].id, req[r].perms)
     ELSE UNCHANGED db
  /\ GoTo(r, "touch")
  /\ UNCHANGED <<pendingSecrets, issued, req, info, made, snap, performed, logged>>
-----------------------------------------------------------------------------
(* What follows every method.                                                *)

\* Mutant: the statement wants a connection that is not revoked.
TouchLive(r) ==
  /\ rpc[r] = "touch"
  /\ GoTo(r, IF ~ Exists(snap[r].id) \/ conn[snap[r].id].status = "REVOKED" THEN "dropped"
             ELSE IF Denied(r) THEN "queue" ELSE "log")
  /\ UNCHANGED <<db, pendingSecrets, issued, req, info, made, snap, performed, logged>>

\* touchActivity is outside the try: without its row it throws, and there is
\* neither a log entry nor a response.
Touch(r) ==
  /\ rpc[r] = "touch"
  /\ GoTo(r, IF ~ Exists(snap[r].id) THEN "dropped"
             ELSE IF Denied(r) THEN "queue" ELSE "log")
  /\ UNCHANGED <<db, pendingSecrets, issued, req, info, made, snap, performed, logged>>

\* Mutant: the denial is not recorded.
QueueForgotten(r) ==
  /\ rpc[r] = "queue"
  /\ GoTo(r, "log")
  /\ UNCHANGED <<db, pendingSecrets, issued, req, info, made, snap, performed, logged>>

Queue(r) ==
  /\ rpc[r] = "queue"
  /\ IF CanRequest(snap[r].id, <<Wanted(r)>>)
     THEN RequestPermissions(snap[r].id, <<Wanted(r)>>)
     ELSE UNCHANGED db
  /\ GoTo(r, "log")
  /\ UNCHANGED <<pendingSecrets, issued, req, info, made, snap, performed, logged>>

\* Mutant: only requests on an active connection are logged.
LogActive(r) ==
  /\ rpc[r] = "log"
  /\ logged' = IF Exists(snap[r].id) /\ Storable(LoggedKind(r)) /\ snap[r].row.status = "ACTIVE"
               THEN logged \cup {r} ELSE logged
  /\ GoTo(r, "publish")
  /\ UNCHANGED <<db, pendingSecrets, issued, req, info, made, snap, performed>>

\* logSigningAction swallows its errors: no row for a deleted connection or
\* an event kind the column cannot hold, and the handler goes on all the same.
Log(r) ==
  /\ rpc[r] = "log"
  /\ logged' = IF Exists(snap[r].id) /\ Storable(LoggedKind(r))
               THEN logged \cup {r} ELSE logged
  /\ GoTo(r, "publish")
  /\ UNCHANGED <<db, pendingSecrets, issued, req, info, made, snap, performed>>

\* publishUserActivity tells Redis, and then the response is sent.
Publish(r) ==
  /\ rpc[r] = "publish"
  /\ GoTo(r, "answered")
  /\ UNCHANGED <<db, pendingSecrets, issued, req, info, made, snap, performed, logged>>

Handle(r) ==
  \/ Lookup(r) \/ Pair(r) \/ PairInsert(r) \/ PairSeed(r) \/ PairRefetch(r) \/ PairLookup(r)
  \/ ServeConnect(r) \/ ServePerform(r) \/ ServeOther(r) \/ Activate(r) \/ Record(r)
  \/ Touch(r) \/ Queue(r) \/ Log(r) \/ Publish(r)
==============================================================================
