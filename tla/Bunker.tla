-------------------------------- MODULE Bunker --------------------------------
(***************************************************************************)
(* The bunker as a whole: the requests of clients (RpcHandler) and the     *)
(* calls of operators (DashboardApi) interleave, await by await, over one  *)
(* database and one map of pending secrets; timers fire and the server may *)
(* stop and start again.                                                   *)
(***************************************************************************)
EXTENDS RpcHandler, DashboardApi

CONSTANTS
  MaxRestarts,   \* bound: restarts of the server
  RedisAnswers   \* whether a command sent to Redis is ever settled

ASSUME RestartAssumption == MaxRestarts \in Nat /\ RedisAnswers \in BOOLEAN

VARIABLE restarts

vars == <<db, pendingSecrets, issued, rpcVars, apiVars, restarts>>

TypeOK ==
  /\ StoreTypeOK
  /\ PendingSecretsTypeOK
  /\ RpcTypeOK
  /\ ApiTypeOK
  /\ restarts \in 0..MaxRestarts

Init ==
  /\ StoreInit
  /\ PendingSecretsInit
  /\ RpcInit
  /\ ApiInit
  /\ restarts = 0

\* A client sends a request, or its handler runs to the next await.
Client(r) ==
  /\ Receive(r) \/ Handle(r)
  /\ UNCHANGED <<apiVars, restarts>>

\* An operator makes a call, or its handler runs to the next await.
Operator(e) ==
  /\ Call(e) \/ Process(e)
  /\ UNCHANGED <<rpcVars, restarts>>

Expire ==
  /\ \E i \in pendingSecrets : ExpireSecret(i)
  /\ UNCHANGED <<db, rpcVars, apiVars, restarts>>

\* The process stops (a crash, a deployment) and starts again: the tables are
\* as the last statement left them, handlers and pending secrets are gone.
Restart ==
  /\ restarts < MaxRestarts
  /\ restarts' = restarts + 1
  /\ ForgetPendingSecrets
  /\ rpc' = [r \in Reqs |-> IF rpc[r] \in RpcRunning THEN "lost" ELSE rpc[r]]
  /\ api' = [e \in Calls |-> IF api[e] \in ApiRunning THEN "lost" ELSE api[e]]
  /\ UNCHANGED <<db, req, info, made, snap, performed, logged, call, target>>

Next ==
  \/ \E r \in Reqs : Client(r)
  \/ \E e \in Calls : Operator(e)
  \/ Expire
  \/ Restart

Spec == Init /\ [][Next]_vars

\* The event loop runs every handler whose await was settled, and the database
\* settles every await.  So does Redis when it is up, or not configured: the
\* client of EventsService waits for one that is down without limit
\* (maxRetriesPerRequest null).  Clients and operators owe nothing.
HandlerStep(r) ==
  /\ rpc[r] \in {"refetch", "publish"} => RedisAnswers
  /\ Handle(r)
  /\ UNCHANGED <<apiVars, restarts>>

CallStep(e) ==
  /\ api[e] = "refetch" => RedisAnswers
  /\ Process(e)
  /\ UNCHANGED <<rpcVars, restarts>>

FairSpec ==
  /\ Spec
  /\ \A r \in Reqs : WF_vars(HandlerStep(r))
  /\ \A e \in Calls : WF_vars(CallStep(e))
-----------------------------------------------------------------------------
(* Safety.                                                                   *)

\* An invitation pairs at most one client, however connects that carry its
\* secret interleave and whatever is deleted in between: pendingSecrets is
\* read and cleared without an await (consumePendingSecret).
SecretPairsOnce ==
  \A r, s \in Reqs :
    made[r] # 0 /\ made[s] # 0 /\ info[r].secret = info[s].secret => r = s

\* A connection is bound to a key that its owner owns and that exists, so
\* that no operator can have another operator's key sign.
OwnKeysOnly ==
  \A c \in ConnIds :
    Exists(c) => conn[c].key \in keys /\ KeyOwner[conn[c].key] = conn[c].user

\* Whatever a request exercised was done with the key it was addressed to,
\* under a connection of the client that sent it.
ServedByAddressedKey ==
  \A r \in performed :
    /\ snap[r].row.client = req[r].client
    /\ PubOf[snap[r].row.key] = req[r].signer

\* A request that used the key and ran to its end has a log entry, unless its
\* connection was deleted meanwhile or its kind does not fit the column.
UseIsLogged ==
  \A r \in performed :
    rpc[r] \in {"publish", "answered", "dropped"} /\ r \notin logged =>
      ~ Exists(snap[r].id) \/ ~ Storable(LoggedKind(r))

\* A request that ended without a response had its connection deleted.
DroppedOnlyIfDeleted ==
  \A r \in Reqs : rpc[r] = "dropped" => ~ Exists(snap[r].id)
-----------------------------------------------------------------------------
(* What a step may never do.                                                 *)

\* What an operator (or the invitation of one) is granting at this moment.
Mandated(c, p) ==
  \/ \E e \in Calls :
       /\ target[e] = c
       /\ \/ api[e] = "grant" /\ p \in Range(call[e].perms)
          \/ api[e] = "seed" /\ p \in Range(DEFAULT_CONNECTION_PERMISSIONS)
          \/ api[e] = "decide" /\ Op(e) = "approve" /\ p \in Chosen(e) /\ pending[c][p] > 0
  \/ \E r \in Reqs :
       rpc[r] = "seed" /\ made[r] = c /\ p \in Range(SeedOf(info[r].seed))

\* A client can never self-escalate: a granted row appears only where an
\* operator's call or invitation names it.
NoSelfEscalation ==
  [][\A c \in ConnIds, p \in Perms : granted'[c][p] > granted[c][p] => Mandated(c, p)]_vars

\* A revoked connection is active again only by a call that says so, or by a
\* connect whose look at it, as pending, came before the revocation: whoever
\* looks later is not served.
RevivedByEarlierLook ==
  [][\A c \in ConnIds :
       Exists(c) /\ conn[c].status = "REVOKED" /\ conn'[c] # NoRow /\ conn'[c].status = "ACTIVE" =>
         \/ \E e \in Calls : api[e] = "status" /\ target[e] = c
         \/ \E r \in Reqs :
              rpc[r] = "activate" /\ snap[r].id = c /\ snap[r].row.status = "PENDING"]_vars

\* The use of keys is that of SigningAuthority.
Book(c) ==
  IF Exists(c)
  THEN [client |-> conn[c].client, signer |-> PubOf[conn[c].key],
        open |-> conn[c].status # "REVOKED",
        grants |-> {p \in Perms : granted[c][p] > 0}]
  ELSE NoRow

Authority == INSTANCE SigningAuthority WITH
  Wants  <- {WantedBy(q) : q \in RpcMenu},
  None   <- NoRow,
  Covers <- Permits,
  book   <- [c \in ConnIds |-> Book(c)],
  ask    <- [r \in Reqs |-> IF req[r] = NoReq THEN NoRow
                            ELSE [client |-> req[r].client, signer |-> req[r].signer,
                                  want |-> Wanted(r)]],
  view   <- [r \in Reqs |-> IF snap[r] = NoSnap THEN NoRow ELSE snap[r].perms],
  acted  <- performed

\* NoRow, which stands for "none" in the mapping, is none of those values.
ASSUME AuthorityAssumption ==
  /\ NoRow \notin [client : Clients, signer : Pubkeys, open : BOOLEAN, grants : SUBSET Perms]
  /\ NoRow \notin [client : Clients, signer : Pubkeys, want : {WantedBy(q) : q \in RpcMenu}]
  /\ \A P \in SUBSET Perms : NoRow # P

ImplementsAuthority == Authority!Spec
-----------------------------------------------------------------------------
(* Liveness, under FairSpec.                                                 *)

\* No handler waits for ever: a request that was received gets a response, or
\* is dropped or lost.  It needs a Redis that answers, or none.
EveryRequestEnds == \A r \in Reqs : rpc[r] \in RpcRunning ~> rpc[r] \in RpcEnded

Surfaced(r) ==
  \/ rpc[r] = "lost"
  \/ /\ snap[r] # NoSnap
     /\ Wanted(r) \in Perms
     /\ ~ Exists(snap[r].id) \/ Stored(snap[r].id, Wanted(r)) > 0

\* A capability that was denied surfaces in the dashboard: it gets a row, be it
\* pending or by now granted, unless the connection or the server goes first.
DeniedIsQueued ==
  \A r \in Reqs : rpc[r] = "touch" /\ Denied(r) /\ Storable(Wanted(r).kind) ~> Surfaced(r)
==============================================================================
