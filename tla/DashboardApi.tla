----------------------------- MODULE DashboardApi -----------------------------
(***************************************************************************)
(* The HTTP handlers with which an operator manages keys, invitations,     *)
(* connections and permissions (connections.controller.ts, and             *)
(* generate-bunker-uri of bunker.controller.ts, with the service methods   *)
(* they call).  As in RpcHandler an action is the code up to the next      *)
(* await.  A handler that rejects (404, 403 or 500) ends in "failed",      *)
(* whatever it had already written.                                        *)
(***************************************************************************)
EXTENDS PendingSecrets

CONSTANTS
  Calls,      \* identifiers of API calls; each is made at most once
  ApiMenu,    \* the calls operators may make
  NoCall

\* perms = <<>> in an approve or a deny means every pending request.
SetCall     == [op : {"set"}, user : Users, id : ConnIds, perms : PermLists]
DecideCall  == [op : {"approve", "deny"}, user : Users, id : ConnIds, perms : PermLists]
StatusCall  == [op : {"status"}, user : Users, id : ConnIds, status : {"ACTIVE", "REVOKED"}]
DeleteCall  == [op : {"delete"}, user : Users, id : ConnIds]
InviteCall  == [op : {"invite"}, user : Users, key : Keys, perms : PermLists]
\* secret = NoSecret is a create that is not a nostrconnect:// pairing.
CreateCall  == [op : {"create"}, user : Users, key : Keys, client : Clients,
                perms : PermLists, secret : Secrets \cup {NoSecret}]
KeyCall     == {q \in [op : {"addKey", "deleteKey"}, user : Users, key : Keys] :
                  q.op = "addKey" => q.user = KeyOwner[q.key]}

ConnectionCall == SetCall \cup DecideCall \cup StatusCall \cup DeleteCall

ApiCall == ConnectionCall \cup InviteCall \cup CreateCall \cup KeyCall

ASSUME ApiAssumption ==
  /\ ApiMenu \subseteq ApiCall
  /\ NoCall \notin ApiCall

ApiRunning ==
  {"start", "clear", "drop", "grant", "decide", "status", "delete", "register",
   "seed", "refetch", "respond", "deleteKey"}

ApiEnded == {"ok", "failed", "lost"}

VARIABLES
  api,        \* Calls -> where its handler is
  call,       \* Calls -> the call
  target      \* Calls -> the connection it works on, or 0

apiVars == <<api, call, target>>

ApiTypeOK ==
  /\ api \in [Calls -> {"free"} \cup ApiRunning \cup ApiEnded]
  /\ call \in [Calls -> ApiCall \cup {NoCall}]
  /\ target \in [Calls -> 0..MaxConns]
  /\ \A e \in Calls :
       /\ api[e] # "free" => call[e] \in ApiCall
       /\ api[e] = "start" /\ call[e] \in ConnectionCall => target[e] \in ConnIds
       /\ api[e] \in {"clear", "drop", "grant", "decide", "status", "delete", "seed",
                     "refetch", "respond"} => target[e] \in ConnIds
       /\ api[e] \in {"clear", "drop", "grant"} => call[e].op \in {"set", "create"}
       /\ api[e] = "decide" => call[e].op \in {"approve", "deny"}
       /\ api[e] = "status" => call[e].op \in {"status", "create"}
       /\ api[e] \in {"seed", "refetch", "respond"} => call[e].op = "create"
       /\ api[e] = "register" => call[e].op = "invite"
       /\ api[e] = "deleteKey" => call[e].op = "deleteKey"

ApiInit ==
  /\ api = [e \in Calls |-> "free"]
  /\ call = [e \in Calls |-> NoCall]
  /\ target = [e \in Calls |-> 0]

Step(e, pc) == api' = [api EXCEPT ![e] = pc]

Op(e) == call[e].op

\* A call about a connection names one the dashboard has listed, and a key
\* that is added gets an id of its own.
NewKey(k) ==
  /\ k \notin keys
  /\ \A e \in Calls : call[e] # NoCall /\ call[e].op \in {"addKey", "deleteKey"} => call[e].key # k

Call(e) ==
  /\ api[e] = "free"
  /\ \E q \in ApiMenu :
       /\ q \in ConnectionCall => Exists(q.id)
       /\ q.op = "addKey" => NewKey(q.key)
       /\ call' = [call EXCEPT ![e] = q]
       /\ target' = [target EXCEPT ![e] = IF q \in ConnectionCall THEN q.id ELSE 0]
  /\ Step(e, "start")
  /\ UNCHANGED <<db, pendingSecrets, issued>>
-----------------------------------------------------------------------------
(* Calls about one connection.                                               *)

\* getConnection or findUnique, and the comparison of its owner.
FirstStatement ==
  [set |-> "clear", approve |-> "decide", deny |-> "decide", status |-> "status",
   delete |-> "delete"]

Check(e) ==
  /\ api[e] = "start"
  /\ Op(e) \in DOMAIN FirstStatement
  /\ Step(e, IF Exists(target[e]) /\ conn[target[e]].user = call[e].user
             THEN FirstStatement[Op(e)] ELSE "failed")
  /\ UNCHANGED <<db, pendingSecrets, issued, call, target>>

\* A create ignores an exception of setPermissions, a PUT reports it.
EndOfSet(e, outcome) ==
  IF Op(e) = "create" THEN Step(e, "respond") ELSE Step(e, outcome)

\* setPermissions, first deleteMany: every granted row.
SetClear(e) ==
  /\ api[e] = "clear"
  /\ DeleteGranted(target[e])
  /\ IF call[e].perms = <<>> THEN EndOfSet(e, "ok") ELSE Step(e, "drop")
  /\ UNCHANGED <<pendingSecrets, issued, call, target>>

\* second deleteMany: pending rows that are about to be granted.
SetDrop(e) ==
  /\ api[e] = "drop"
  /\ \/ /\ AllStorable(call[e].perms)
        /\ DeletePending(target[e], Range(call[e].perms))
        /\ Step(e, "grant")
     \/ /\ ~ AllStorable(call[e].perms)
        /\ EndOfSet(e, "failed")
        /\ UNCHANGED db
  /\ UNCHANGED <<pendingSecrets, issued, call, target>>

\* createMany of the new grants, without skipDuplicates.
SetGrant(e) ==
  /\ api[e] = "grant"
  /\ \/ /\ CanGrant(target[e], call[e].perms)
        /\ GrantRows(target[e], call[e].perms)
        /\ EndOfSet(e, "ok")
     \/ /\ ~ CanGrant(target[e], call[e].perms)
        /\ EndOfSet(e, "failed")
        /\ UNCHANGED db
  /\ UNCHANGED <<pendingSecrets, issued, call, target>>

\* approveRequests and denyRequests.
Chosen(e) == IF call[e].perms = <<>> THEN Perms ELSE Range(call[e].perms)

\* Mutant: approve and deny are swapped.
DecideSwapped(e) ==
  /\ api[e] = "decide"
  /\ AllStorable(call[e].perms)
  /\ IF Op(e) = "deny" THEN ApprovePending(target[e], Chosen(e))
                       ELSE DeletePending(target[e], Chosen(e))
  /\ Step(e, "ok")
  /\ UNCHANGED <<pendingSecrets, issued, call, target>>

Decide(e) ==
  /\ api[e] = "decide"
  /\ \/ /\ AllStorable(call[e].perms)
        /\ IF Op(e) = "approve" THEN ApprovePending(target[e], Chosen(e))
                                ELSE DeletePending(target[e], Chosen(e))
        /\ Step(e, "ok")
     \/ /\ ~ AllStorable(call[e].perms)
        /\ Step(e, "failed")
        /\ UNCHANGED db
  /\ UNCHANGED <<pendingSecrets, issued, call, target>>

\* updateConnectionStatus, of a PATCH or at the end of a nostrconnect create.
SetStatus(e) ==
  /\ api[e] = "status"
  /\ \/ /\ Exists(target[e])
        /\ UpdateConnectionStatus(target[e],
             IF Op(e) = "create" THEN "ACTIVE" ELSE call[e].status)
        /\ Step(e, "ok")
     \/ /\ ~ Exists(target[e])
        /\ Step(e, "failed")
        /\ UNCHANGED db
  /\ UNCHANGED <<pendingSecrets, issued, call, target>>

Delete(e) ==
  /\ api[e] = "delete"
  /\ Step(e, IF Exists(target[e]) THEN "ok" ELSE "failed")
  /\ DeleteConnections({target[e]})
  /\ UNCHANGED <<keys, pendingSecrets, issued, call, target>>
-----------------------------------------------------------------------------
(* POST /connections.                                                        *)

RowOf(e) ==
  [user |-> call[e].user, key |-> call[e].key, client |-> call[e].client,
   status |-> "PENDING", secret |-> call[e].secret]

\* Mutant: the key may be anyone's.
CreateInsertAnyKey(e) ==
  /\ api[e] = "start"
  /\ Op(e) = "create"
  /\ CanInsertConnection(RowOf(e))
  /\ InsertConnection(RowOf(e))
  /\ target' = [target EXCEPT ![e] = created + 1]
  /\ Step(e, "seed")
  /\ UNCHANGED <<pendingSecrets, issued, call>>

\* createConnection: the key of the caller, then the row.
CreateInsert(e) ==
  /\ api[e] = "start"
  /\ Op(e) = "create"
  /\ \/ /\ KeyOwner[call[e].key] = call[e].user
        /\ CanInsertConnection(RowOf(e))
        /\ InsertConnection(RowOf(e))
        /\ target' = [target EXCEPT ![e] = created + 1]
        /\ Step(e, "seed")
     \/ /\ ~ (KeyOwner[call[e].key] = call[e].user /\ CanInsertConnection(RowOf(e)))
        /\ Step(e, "failed")
        /\ UNCHANGED <<db, target>>
  /\ UNCHANGED <<pendingSecrets, issued, call>>

\* A create names no seed: its perms replace the defaults afterwards.
CreateSeed(e) ==
  /\ api[e] = "seed"
  /\ \/ /\ CanGrant(target[e], DEFAULT_CONNECTION_PERMISSIONS)
        /\ GrantRows(target[e], DEFAULT_CONNECTION_PERMISSIONS)
        /\ Step(e, "refetch")
     \/ /\ ~ CanGrant(target[e], DEFAULT_CONNECTION_PERMISSIONS)
        /\ Step(e, "failed")
        /\ UNCHANGED db
  /\ UNCHANGED <<pendingSecrets, issued, call, target>>

CreateRefetch(e) ==
  /\ api[e] = "refetch"
  /\ Step(e, IF ~ Exists(target[e]) THEN "failed"
             ELSE IF call[e].perms # <<>> THEN "clear" ELSE "respond")
  /\ UNCHANGED <<db, pendingSecrets, issued, call, target>>

\* A nostrconnect client is answered, whether or not a relay took the event,
\* and then the connection is active.
CreateRespond(e) ==
  /\ api[e] = "respond"
  /\ Step(e, IF call[e].secret # NoSecret THEN "status"
             ELSE IF Exists(target[e]) THEN "ok" ELSE "failed")
  /\ UNCHANGED <<db, pendingSecrets, issued, call, target>>
-----------------------------------------------------------------------------
(* Invitations and keys.                                                     *)

OwnsKey(e) == call[e].key \in keys /\ KeyOwner[call[e].key] = call[e].user

CheckKey(e) ==
  /\ api[e] = "start"
  /\ Op(e) = "invite"
  /\ Step(e, IF OwnsKey(e) THEN "register" ELSE "failed")
  /\ UNCHANGED <<db, pendingSecrets, issued, call, target>>

\* generate-bunker-uri, after it read the relays of the user.
RegisterInvite(e) ==
  /\ api[e] = "register"
  /\ \E s \in Secrets :
       RegisterPendingSecret(s,
         [signer |-> PubOf[call[e].key], secret |-> s, user |-> call[e].user,
          key |-> call[e].key, seed |-> call[e].perms])
  /\ Step(e, "ok")
  /\ UNCHANGED <<db, call, target>>

\* addNsecKey is one INSERT under @@unique([userId, publicKey]).
AddKey(e) ==
  /\ api[e] = "start"
  /\ Op(e) = "addKey"
  /\ \/ /\ KeysUnique(keys \cup {call[e].key})
        /\ InsertKey(call[e].key)
        /\ Step(e, "ok")
     \/ /\ ~ KeysUnique(keys \cup {call[e].key})
        /\ Step(e, "failed")
        /\ UNCHANGED db
  /\ UNCHANGED <<pendingSecrets, issued, call, target>>

\* deleteNsecKey counts the connections of the key, and deletes it later.
CountConnections(e) ==
  /\ api[e] = "start"
  /\ Op(e) = "deleteKey"
  /\ Step(e, IF OwnsKey(e) /\ ~ \E c \in ConnIds : Exists(c) /\ conn[c].key = call[e].key
             THEN "deleteKey" ELSE "failed")
  /\ UNCHANGED <<db, pendingSecrets, issued, call, target>>

RemoveKey(e) ==
  /\ api[e] = "deleteKey"
  /\ Step(e, IF call[e].key \in keys THEN "ok" ELSE "failed")
  /\ DeleteKey(call[e].key)
  /\ UNCHANGED <<pendingSecrets, issued, call, target>>

Process(e) ==
  \/ Check(e) \/ SetClear(e) \/ SetDrop(e) \/ SetGrant(e) \/ Decide(e) \/ SetStatus(e)
  \/ Delete(e) \/ CreateInsert(e) \/ CreateSeed(e) \/ CreateRefetch(e) \/ CreateRespond(e)
  \/ CheckKey(e) \/ RegisterInvite(e) \/ AddKey(e) \/ CountConnections(e) \/ RemoveKey(e)
==============================================================================
