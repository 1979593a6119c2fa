---------------------------- MODULE RelayListeners ----------------------------
(***************************************************************************)
(* Listening for NIP-46 requests: the listeners of bunker.service.ts with  *)
(* their watchdog, the relay settings and generateBunkerUri of             *)
(* bunker.controller.ts, the relays of create in connections.controller.ts *)
(* and the page SettingsRelaysView.vue that edits the settings.            *)
(*                                                                         *)
(* The SimplePool of nostr-tools is external.  As the service uses it: it  *)
(* holds one connection per relay; subscribe and publish dial the relays   *)
(* that have none; a connection that breaks takes the subscriptions on it  *)
(* along, and nobody but the service opens them again (the comment on      *)
(* startConnectionWatchdog).                                               *)
(***************************************************************************)
EXTENDS Naturals, FiniteSets

CONSTANTS
  Calls,     \* identifiers of API calls; each is made at most once
  Menu,      \* the calls that may be made, those of the settings page apart
  Users,
  Viewers,   \* those who open the settings page ...
  Typed,     \* ... and the URLs they type there
  Flaky,     \* the relays that may fail
  Keys,      \* identifiers of nsec keys
  Pubs,      \* their public keys; two users may hold the same
  Urls,      \* relay URLs ...
  Address,   \* ... and what they name
  Defaults,  \* NOSTR_DEFAULT_RELAYS
  Keys0,     \* the nsec_keys table to start with
  Settings0, \* relay_configs to start with: the URLs of every user
  None

\* What isPrivateOrLocalHost tells apart by how the hostname is spelled; of an
\* IPv4 address two bytes matter.
Host ==
  [kind : {"name", "localhost", "unspecified", "loopback6", "linkLocal6", "uniqueLocal6",
           "mapped6"}]
    \cup [kind : {"ipv4"}, a : 0..255, b : 0..255]

\* Mutant: the last block of 172.16.0.0/12 is forgotten.
IsPrivateOrLocalHostShort(h) ==
  IF h.kind = "ipv4"
  THEN \/ h.a \in {10, 127}
       \/ h.a = 172 /\ h.b \in 16..30
       \/ <<h.a, h.b>> \in {<<192, 168>>, <<169, 254>>}
  ELSE h.kind # "name"

IsPrivateOrLocalHost(h) ==
  IF h.kind = "ipv4"
  THEN \/ h.a \in {10, 127}
       \/ h.a = 172 /\ h.b \in 16..31
       \/ <<h.a, h.b>> \in {<<192, 168>>, <<169, 254>>}
  ELSE h.kind # "name"

\* SafeRelayUrlSchema.
SafeRelayUrl(u) == Address[u].scheme = "wss" /\ ~ IsPrivateOrLocalHost(Address[u].host)

Safe(R) == {u \in R : SafeRelayUrl(u)}

KeyRow == [owner : Users, pub : Pubs]

\* POST generate-bunker-uri, POST connections and POST relays.  reply: the
\* client invited itself with a secret that it wants back.
Request ==
  [op : {"generate"}, user : Users, key : Keys]
    \cup [op : {"create"}, user : Users, key : Keys, relays : SUBSET Urls, reply : BOOLEAN]
    \cup [op : {"save"}, user : Users, relays : SUBSET Urls]

\* A client's connection that is active or pending.
Conn == [key : Keys, relays : SUBSET Urls]

\* The relay settings page: the list shown, and the defaults it was told.
Page == [user : Users, relays : SUBSET Urls, defaults : {Defaults, {}}]

ASSUME RelayAssumption ==
  /\ Address \in [Urls -> [scheme : {"wss", "ws", "https"}, host : Host]]
  /\ Defaults \subseteq Safe(Urls) /\ Defaults # {}
  /\ Menu \subseteq Request
  /\ Viewers \subseteq Users
  /\ Typed \subseteq Urls
  /\ Flaky \subseteq Urls
  /\ Keys0 \in [Keys -> KeyRow \cup {None}]
  /\ Settings0 \in [Users -> SUBSET Safe(Urls)]
  /\ None \notin KeyRow \cup Request \cup Conn \cup Page

VARIABLES
  key,        \* nsec_keys: Keys -> row, or None
  config,     \* relay_configs: Users -> URLs
  conn,       \* bunker_connections: the row of the call that made it, or None
  running,    \* the process is up, its watchdog with it
  listener,   \* activeListeners: Pubs -> relays; {} where there is no entry
  open,       \* Pubs -> how many subscriptions are open at the pool
  heard,      \* Pubs -> the relays its newest subscription is live on ...
  awaiting,   \* ... and those it still waits for
  dialing,    \* the relays the pool is connecting to
  connected,  \* those it is connected to
  up,         \* the relays that accept connections
  at,         \* Calls -> where its handler is
  call,       \* Calls -> the request
  read,       \* Calls -> the relays it has read
  page        \* the settings page that is open, or None

tables == <<key, config, conn>>
pool == <<listener, open, heard, awaiting, dialing>>
network == <<connected, up>>
calls == <<at, call, read>>
vars == <<tables, running, pool, network, calls, page>>

TypeOK ==
  /\ key \in [Keys -> KeyRow \cup {None}]
  /\ config \in [Users -> SUBSET Safe(Urls)]
  /\ conn \in [Calls -> Conn \cup {None}]
  /\ running \in BOOLEAN
  /\ listener \in [Pubs -> SUBSET Urls]
  /\ open \in [Pubs -> Nat]
  /\ heard \in [Pubs -> SUBSET Urls]
  /\ awaiting \in [Pubs -> SUBSET Urls]
  /\ dialing \subseteq Urls
  /\ connected \subseteq Urls
  /\ up \subseteq Urls
  /\ at \in [Calls -> {"free", "start", "relays", "owner", "base", "reply", "send", "write",
                       "ok", "failed", "over"}]
  /\ call \in [Calls -> Request \cup {None}]
  /\ read \in [Calls -> SUBSET Urls]
  /\ page \in Page \cup {None}
  /\ \A e \in Calls : at[e] \notin {"free", "over"} => call[e] \in Request

Init ==
  /\ key = Keys0
  /\ config = Settings0
  /\ conn = [e \in Calls |-> None]
  /\ running = FALSE
  /\ listener = [p \in Pubs |-> {}]
  /\ open = [p \in Pubs |-> 0]
  /\ heard = [p \in Pubs |-> {}]
  /\ awaiting = [p \in Pubs |-> {}]
  /\ dialing = {}
  /\ connected = {}
  /\ up = Urls
  /\ at = [e \in Calls |-> "free"]
  /\ call = [e \in Calls |-> None]
  /\ read = [e \in Calls |-> {}]
  /\ page = None
-----------------------------------------------------------------------------
(* The pool.                                                                 *)

Dial(R) == dialing' = dialing \cup (R \ connected)

\* Mutant: the subscription that is replaced stays open.
OthersOpenLeft(p) == open[p]

\* The subscriptions for p that stay when its listener is closed.
OthersOpen(p) == IF listener[p] = {} THEN open[p] ELSE open[p] - 1

\* Close the listeners of P, where there are any, and subscribe to R[p] instead.
Subscribe(P, R) ==
  /\ listener' = [p \in Pubs |-> IF p \in P THEN R[p] ELSE listener[p]]
  /\ open' = [p \in Pubs |-> IF p \in P THEN OthersOpen(p) + 1 ELSE open[p]]
  /\ heard' = [p \in Pubs |-> IF p \in P THEN R[p] \cap connected ELSE heard[p]]
  /\ awaiting' = [p \in Pubs |-> IF p \in P THEN R[p] \ connected ELSE awaiting[p]]
  /\ Dial(UNION {R[p] : p \in P})

\* A connection attempt ends, well or not.
Dialed(u) ==
  /\ u \in dialing
  /\ dialing' = dialing \ {u}
  /\ connected' = IF u \in up THEN connected \cup {u} ELSE connected
  /\ heard' = [p \in Pubs |->
       IF u \in up /\ u \in awaiting[p] THEN heard[p] \cup {u} ELSE heard[p]]
  /\ awaiting' = [p \in Pubs |-> awaiting[p] \ {u}]
  /\ UNCHANGED <<tables, running, listener, open, up, calls, page>>

\* A socket dies with an error; its relay may be gone or not.
LoseRelay(u) ==
  /\ u \in up \cap Flaky
  /\ up' \in {up, up \ {u}}
  /\ connected' = connected \ {u}
  /\ heard' = [p \in Pubs |-> heard[p] \ {u}]
  /\ UNCHANGED <<tables, running, listener, open, awaiting, dialing, calls, page>>

RelayReturns(u) ==
  /\ u \notin up
  /\ up' = up \cup {u}
  /\ UNCHANGED <<tables, running, pool, connected, calls, page>>
-----------------------------------------------------------------------------
(* The listeners.                                                            *)

\* The user's own relays, or else the defaults.
BaseRelays(u) == IF config[u] # {} THEN config[u] ELSE Defaults

\* What startListeningForKey makes of the relays it is given.
Effective(R) == IF Safe(R) = {} THEN Defaults ELSE Safe(R)

\* Mutant: whoever listens already is left alone.
StartListeningOnce(p, R) ==
  IF listener[p] # {} THEN UNCHANGED pool ELSE Subscribe({p}, [listener EXCEPT ![p] = Effective(R)])

\* New relays are merged with the old ones, on one new subscription.
StartListeningForKey(p, R) ==
  IF listener[p] # {} /\ Effective(R) \subseteq listener[p]
  THEN UNCHANGED pool
  ELSE Subscribe({p}, [listener EXCEPT ![p] = @ \cup Effective(R)])

KeysOf(p) == {k \in Keys : key[k] # None /\ key[k].pub = p}

\* Mutant: only the settings count.
WantedByOwner(k) == BaseRelays(key[k].owner)

\* The relays of a key when the process starts.
Wanted(k) ==
  BaseRelays(key[k].owner)
    \cup UNION {conn[e].relays : e \in {f \in Calls : conn[f] # None /\ conn[f].key = k}}

\* onModuleInit: resumeAllListeners, and the watchdog.
Resume ==
  /\ ~ running
  /\ running' = TRUE
  /\ Subscribe({p \in Pubs : KeysOf(p) # {}},
               [p \in Pubs |-> UNION {Effective(Wanted(k)) : k \in KeysOf(p)}])
  /\ UNCHANGED <<tables, network, calls, page>>

\* onModuleDestroy, or a crash: listeners, pending secrets and calls are gone.
Stop ==
  /\ running
  /\ running' = FALSE
  /\ listener' = [p \in Pubs |-> {}]
  /\ open' = [p \in Pubs |-> 0]
  /\ heard' = [p \in Pubs |-> {}]
  /\ awaiting' = [p \in Pubs |-> {}]
  /\ dialing' = {}
  /\ connected' = {}
  /\ at' = [e \in Calls |-> IF at[e] = "free" THEN "free" ELSE "over"]
  /\ UNCHANGED <<tables, up, call, read, page>>

\* Mutant: a listener counts as alive while one of its relays is.
DisconnectedEntirely == {p \in Pubs : listener[p] # {} /\ listener[p] \cap connected = {}}

\* The listeners with a relay whose connection status is not true.
Disconnected == {p \in Pubs : ~ listener[p] \subseteq connected}

\* One tick of the watchdog: restartListener for each of them.
CheckConnections ==
  /\ running
  /\ Disconnected # {}
  /\ Subscribe(Disconnected, listener)
  /\ UNCHANGED <<tables, running, network, calls, page>>

\* An event arrives, and its answer is published on all the relays.
AnswerRequest(p) ==
  /\ heard[p] # {}
  /\ Dial(listener[p])
  /\ UNCHANGED <<tables, running, listener, open, heard, awaiting, network, calls, page>>
-----------------------------------------------------------------------------
(* The calls.                                                                *)

GoTo(e, pc) == at' = [at EXCEPT ![e] = pc]

ReceiveRequest(e, q) ==
  /\ running
  /\ at[e] = "free"
  /\ call' = [call EXCEPT ![e] = q]
  /\ GoTo(e, "start")
  /\ UNCHANGED <<tables, running, pool, network, read>>

Receive(e) == (\E q \in Menu : ReceiveRequest(e, q)) /\ UNCHANGED page

Starts(e, op) == at[e] = "start" /\ call[e].op = op

Owned(e) == key[call[e].key] # None /\ key[call[e].key].owner = call[e].user

\* The second half of a handler's guards: nothing but the call moves on.
Step(e, pc) ==
  /\ GoTo(e, pc)
  /\ UNCHANGED <<tables, running, pool, network, call, page>>

\* generateBunkerUri: the key, and then the relays for the URI.
FindKey(e) ==
  /\ Starts(e, "generate")
  /\ Step(e, IF Owned(e) THEN "relays" ELSE "failed")
  /\ UNCHANGED read

GetActiveRelays(e) ==
  /\ at[e] = "relays"
  /\ read' = [read EXCEPT ![e] = BaseRelays(call[e].user)]
  /\ Step(e, "owner")

\* create: the relays are validated before the row is inserted.
CreateConnection(e) ==
  /\ Starts(e, "create")
  /\ LET R == call[e].relays IN
     IF Owned(e) /\ R = Safe(R)
     THEN /\ conn' = [conn EXCEPT ![e] = [key |-> call[e].key, relays |-> R]]
          /\ read' = [read EXCEPT ![e] = R]
          /\ GoTo(e, "owner")
     ELSE /\ GoTo(e, "failed")
          /\ UNCHANGED <<conn, read>>
  /\ UNCHANGED <<key, config, running, pool, network, call, page>>

Replies(e) == call[e].op = "create" /\ call[e].reply

AfterListening(e) == IF Replies(e) THEN "reply" ELSE "ok"

\* ensureListeningForConnection finds the key once more ...
FindKeyOfOwner(e) ==
  /\ at[e] = "owner"
  /\ Step(e, IF Owned(e) THEN "base" ELSE AfterListening(e))
  /\ UNCHANGED read

\* ... and the owner's relays, and listens.  The public key is that of the row
\* it found, which may be gone by now.
EnsureListening(e, p) ==
  /\ at[e] = "base"
  /\ Keys0[call[e].key].pub = p
  /\ StartListeningForKey(p, read[e] \cup BaseRelays(call[e].user))
  /\ GoTo(e, AfterListening(e))
  /\ UNCHANGED <<tables, running, network, call, read, page>>

\* sendConnectResponse: the key a third time ...
FindKeyForReply(e) ==
  /\ at[e] = "reply"
  /\ Step(e, IF Owned(e) THEN "send" ELSE "ok")
  /\ UNCHANGED read

\* ... and the secret, on the client's relays and the owner's.
SendConnectResponse(e) ==
  /\ at[e] = "send"
  /\ Dial(read[e] \cup BaseRelays(call[e].user))
  /\ GoTo(e, "ok")
  /\ UNCHANGED <<tables, running, listener, open, heard, awaiting, network, call, read, page>>

\* Mutant: the list is not validated.
DeleteRelaysUnchecked(e) ==
  /\ Starts(e, "save")
  /\ config' = [config EXCEPT ![call[e].user] = {}]
  /\ GoTo(e, IF call[e].relays = {} THEN "ok" ELSE "write")
  /\ UNCHANGED <<key, conn, running, pool, network, call, read, page>>

\* setRelays replaces the settings by two statements.
DeleteRelays(e) ==
  /\ Starts(e, "save")
  /\ LET R == call[e].relays IN
     IF R = Safe(R)
     THEN /\ config' = [config EXCEPT ![call[e].user] = {}]
          /\ GoTo(e, IF R = {} THEN "ok" ELSE "write")
     ELSE /\ GoTo(e, "failed")
          /\ UNCHANGED config
  /\ UNCHANGED <<key, conn, running, pool, network, call, read, page>>

\* createMany fails as a whole when another call has stored one of the URLs.
CreateRelays(e) ==
  LET u == call[e].user
      R == call[e].relays IN
  /\ at[e] = "write"
  /\ IF R \cap config[u] = {}
     THEN config' = [config EXCEPT ![u] = @ \cup R] /\ GoTo(e, "ok")
     ELSE UNCHANGED config /\ GoTo(e, "failed")
  /\ UNCHANGED <<key, conn, running, pool, network, call, read, page>>

\* deleteConnection, or its status becomes REVOKED.
EndConnection(e) ==
  /\ conn[e] # None
  /\ conn' = [conn EXCEPT ![e] = None]
  /\ UNCHANGED <<key, config, running, pool, network, calls, page>>

\* deleteNsecKey, with the connections that hang on it.
DeleteKey(k) ==
  /\ key[k] # None
  /\ key' = [key EXCEPT ![k] = None]
  /\ conn' = [e \in Calls |-> IF conn[e] # None /\ conn[e].key = k THEN None ELSE conn[e]]
  /\ UNCHANGED <<config, running, pool, network, calls, page>>
-----------------------------------------------------------------------------
(* SettingsRelaysView.vue.                                                   *)

Show(R) ==
  /\ page' = [page EXCEPT !.relays = R]
  /\ UNCHANGED <<tables, running, pool, network, calls>>

\* onMounted; an error is ignored and leaves both lists empty.
LoadRelays(u) ==
  /\ \/ running /\ page' = [user |-> u, relays |-> BaseRelays(u), defaults |-> Defaults]
     \/ page' = [user |-> u, relays |-> {}, defaults |-> {}]
  /\ UNCHANGED <<tables, running, pool, network, calls>>

AddRelay(r) ==
  /\ page # None
  /\ Address[r].scheme \in {"wss", "ws"}
  /\ r \notin page.relays
  /\ Show(page.relays \cup {r})

RemoveRelay(r) ==
  /\ page # None
  /\ r \in page.relays
  /\ Show(page.relays \ {r})

ResetToDefaults ==
  /\ page # None
  /\ Show(page.defaults)

\* The list is sent as it is shown; the button waits for the answer.
SaveRelays(e) ==
  /\ page # None
  /\ \A f \in Calls : at[f] \in {"start", "write"} =>
       ~ (call[f].op = "save" /\ call[f].user = page.user)
  /\ ReceiveRequest(e, [op |-> "save", user |-> page.user, relays |-> page.relays])
  /\ UNCHANGED page
-----------------------------------------------------------------------------
Handle(e) ==
  \/ Receive(e) \/ SaveRelays(e)
  \/ FindKey(e) \/ GetActiveRelays(e) \/ CreateConnection(e) \/ FindKeyOfOwner(e)
  \/ \E p \in Pubs : EnsureListening(e, p)
  \/ FindKeyForReply(e) \/ SendConnectResponse(e)
  \/ DeleteRelays(e) \/ CreateRelays(e) \/ EndConnection(e)

Next ==
  \/ Resume \/ Stop \/ CheckConnections \/ ResetToDefaults
  \/ \E e \in Calls : Handle(e)
  \/ \E p \in Pubs : AnswerRequest(p)
  \/ \E u \in Urls : Dialed(u) \/ LoseRelay(u) \/ RelayReturns(u) \/ RemoveRelay(u)
  \/ \E u \in Typed : AddRelay(u)
  \/ \E k \in Keys : DeleteKey(k)
  \/ \E u \in Viewers : LoadRelays(u)

\* The watchdog's timer fires while the process runs, and an attempt to connect
\* ends, if only by a timeout.  Nobody has to make a call or restart a process.
Fairness == WF_vars(CheckConnections) /\ \A u \in Urls : WF_vars(Dialed(u))

Spec == Init /\ [][Next]_vars /\ Fairness
-----------------------------------------------------------------------------
(* Properties.                                                               *)

\* However listeners are merged, restarted and resumed, for every entry of
\* activeListeners exactly one subscription is open, and no other: a request is
\* handled once, and what is open can still be closed.
OneSubscription == \A p \in Pubs : open[p] = IF listener[p] = {} THEN 0 ELSE 1

\* The signer listens on every relay that a bunker:// URI names, from the moment
\* generateBunkerUri returns it, while its secret lasts (the process runs) and
\* its key exists: whatever else was saved, merged or restarted meanwhile.
InvitationIsHeard ==
  \A e \in Calls :
    at[e] = "ok" /\ call[e].op = "generate" /\ Owned(e)
      => read[e] \subseteq listener[key[call[e].key].pub]

\* The signer listens on the relays of every connection it keeps, also after a
\* restart, once the call that made it has come to that (resumeAllListeners,
\* ensureListeningForConnection).
ConnectionIsHeard ==
  \A e \in Calls :
    running /\ conn[e] # None /\ at[e] \notin {"owner", "base"}
      => conn[e].relays \subseteq listener[key[conn[e].key].pub]

\* An address in the block that begins at a.b.0.0 and is `size` times a /16.
InBlock(h, a, b, size) == (256 * h.a + h.b) \div size = (256 * a + b) \div size

\* The process dials wss relays on public addresses only: neither the settings
\* page nor a connection brings it to one of the blocks that the comments of
\* isPrivateOrLocalHost name.
DialsOnlyPublic ==
  \A u \in dialing \cup connected :
    LET h == Address[u].host IN
    /\ Address[u].scheme = "wss"
    /\ h.kind = "ipv4" =>
         ~ \/ InBlock(h, 127, 0, 256) \/ InBlock(h, 10, 0, 256) \/ InBlock(h, 172, 16, 16)
           \/ InBlock(h, 192, 168, 1) \/ InBlock(h, 169, 254, 1)

\* A connection is kept whose relay u is up, the process runs.
Expected(u) ==
  /\ running
  /\ u \in up
  /\ \E e \in Calls :
       conn[e] # None /\ u \in conn[e].relays /\ at[e] \notin {"owner", "base"}

\* A relay that a connection names and that accepts connections is connected to
\* again and again, however often its sockets break and whatever the state of
\* the other relays (checkConnections).
ReachableIsConnected == \A u \in Urls : <>[]Expected(u) => []<>(u \in connected)

\* The sockets no longer break.
Calm == <>[][\A u \in Urls : ~ LoseRelay(u)]_vars

\* What the comment on startConnectionWatchdog says of the watchdog: once the
\* relays are well again, the listener recovers.
ListenerRecovers ==
  Calm => \A u \in Urls : <>[]Expected(u) => []<>(\E p \in Pubs : u \in heard[p])
==============================================================================
