------------------------- MODULE BunkerSafety_proofs -------------------------
(***************************************************************************)
(* Safety of Bunker, for every value of the constants: one connection per  *)
(* invitation, every connection with a key of its owner, grants only by    *)
(* operators; what a lost response and a missing log row go back to, and   *)
(* who brings a revoked connection back.  And that it implements           *)
(* SigningAuthority: with all its awaits, snapshots, restarts and          *)
(* deletions, a key is used only for a request whose own look at an open   *)
(* connection covered it.                                                  *)
(***************************************************************************)
EXTENDS Bunker_proofs

\* An open invitation is the only holder of its secret, and the secret of an
\* invitation that a request consumed is held by that request alone.
InviteInv ==
  /\ \A i, j \in pendingSecrets : i.secret = j.secret => i = j
  /\ \A i \in pendingSecrets : i.secret \in issued
  /\ \A r \in Reqs : info[r] # NoInvite =>
       /\ info[r].secret \in issued
       /\ \A i \in pendingSecrets : i.secret # info[r].secret
  /\ \A r, s \in Reqs :
       info[r] # NoInvite /\ info[s] # NoInvite /\ info[r].secret = info[s].secret => r = s
  /\ \A r \in Reqs : made[r] # 0 => info[r] # NoInvite
-----------------------------------------------------------------------------
(* Which variables an action can change.                                     *)

\* Of the calls only RegisterInvite touches what InviteInv speaks of.
LEMMA CallFrame ==
  ASSUME NEW e \in Calls, Operator(e)
  PROVE  /\ UNCHANGED rpcVars
         /\ RegisterInvite(e) \/ UNCHANGED <<pendingSecrets, issued>>
BY DEF Operator, Call, Process, Check, SetClear, SetDrop, SetGrant, Decide, SetStatus, Delete,
       CreateInsert, CreateSeed, CreateRefetch, CreateRespond, CheckKey, AddKey,
       CountConnections, RemoveKey

\* Of the requests only Pair and PairInsert do.
LEMMA RequestFrame ==
  ASSUME NEW r \in Reqs, Client(r)
  PROVE  /\ Pair(r) \/ UNCHANGED <<pendingSecrets, issued, info>>
         /\ PairInsert(r) \/ UNCHANGED made
BY DEF Client, Receive, Handle, Lookup, Pair, PairInsert, PairSeed, PairRefetch, PairLookup,
       ServeConnect, ServePerform, ServeOther, Activate, Record, Touch, Queue, Log, Publish
-----------------------------------------------------------------------------
(* One invitation, one connection.                                           *)

\* Nothing is invited at first.
LEMMA InviteInvInit == Init => InviteInv
BY DEF Init, PendingSecretsInit, RpcInit, InviteInv

\* A secret is issued once, leaves the map when it is consumed, and only the
\* request that consumed it inserts a connection for it.
LEMMA InviteInvStep ==
  ASSUME TypeOK, InviteInv, [Next]_vars
  PROVE  InviteInv'
<1>0. PendingSecretsTypeOK /\ RpcTypeOK
  BY DEF TypeOK
<1>1. ASSUME NEW r \in Reqs, Client(r) PROVE InviteInv'
  <2>1. CASE Pair(r)
    <3>1. made' = made
      BY <2>1 DEF Pair
    <3>2. CASE UNCHANGED <<pendingSecrets, issued, info>>
      BY <3>1, <3>2 DEF InviteInv
    <3>3. CASE \E i \in Matching(req[r].signer, req[r].secret) :
                 ConsumePendingSecret(i) /\ info' = [info EXCEPT ![r] = i]
      <4>1. PICK i \in pendingSecrets :
              ConsumePendingSecret(i) /\ info' = [info EXCEPT ![r] = i]
        BY <3>3 DEF Matching
      <4>2. i \in Invite /\ i # NoInvite
        BY <1>0, InviteAssumption DEF PendingSecretsTypeOK
      <4>3. info'[r] = i /\ \A s \in Reqs : s # r => info'[s] = info[s]
        BY <1>0, <4>1 DEF RpcTypeOK
      <4> QED
        BY <3>1, <4>1, <4>2, <4>3 DEF InviteInv, ConsumePendingSecret
    <3> QED
      BY <2>1, <3>2, <3>3 DEF Pair
  <2>2. CASE PairInsert(r)
    <3>1. info[r] \in Invite
      BY <1>0, <2>2 DEF PairInsert, RpcTypeOK
    <3>2. info[r] # NoInvite
      BY <3>1, InviteAssumption
    <3>3. UNCHANGED <<pendingSecrets, issued, info>>
      BY <2>2 DEF PairInsert
    <3>4. \A s \in Reqs : made'[s] # 0 => made[s] # 0 \/ s = r
      BY <1>0, <2>2 DEF PairInsert, RpcTypeOK
    <3> QED
      BY <3>2, <3>3, <3>4 DEF InviteInv
  <2>3. CASE UNCHANGED <<pendingSecrets, issued, info, made>>
    BY <2>3 DEF InviteInv
  <2> QED
    BY <1>1, <2>1, <2>2, <2>3, RequestFrame
<1>2. ASSUME NEW e \in Calls, Operator(e) PROVE InviteInv'
  <2>1. UNCHANGED <<info, made>>
    BY <1>2, CallFrame DEF rpcVars
  <2>2. CASE RegisterInvite(e)
    <3>1. PICK s \in Secrets :
            RegisterPendingSecret(s,
              [signer |-> PubOf[call[e].key], secret |-> s, user |-> call[e].user,
               key |-> call[e].key, seed |-> call[e].perms])
      BY <2>2 DEF RegisterInvite
    <3> DEFINE new == [signer |-> PubOf[call[e].key], secret |-> s, user |-> call[e].user,
                       key |-> call[e].key, seed |-> call[e].perms]
    <3>2. /\ s \notin issued
          /\ issued' = issued \cup {s}
          /\ pendingSecrets' = pendingSecrets \cup {new}
          /\ new.secret = s
      BY <3>1 DEF RegisterPendingSecret
    <3> HIDE DEF new
    <3> QED
      BY <2>1, <3>2 DEF InviteInv
  <2>3. CASE UNCHANGED <<pendingSecrets, issued>>
    BY <2>1, <2>3 DEF InviteInv
  <2> QED
    BY <1>2, <2>2, <2>3, CallFrame
<1>3. CASE Expire
  BY <1>3 DEF Expire, ExpireSecret, rpcVars, InviteInv
<1>4. CASE Restart
  BY <1>4 DEF Restart, ForgetPendingSecrets, InviteInv
<1>5. CASE UNCHANGED vars
  BY <1>5 DEF vars, rpcVars, InviteInv
<1> QED
  BY <1>1, <1>2, <1>3, <1>4, <1>5 DEF Next

\* However many connects carry the same secret, one of them at most makes a
\* connection.
THEOREM OneConnectionPerSecret == Spec => []SecretPairsOnce
<1>1. InviteInv => SecretPairsOnce
  BY DEF InviteInv, SecretPairsOnce
<1> QED
  BY <1>1, TypeCorrect, InviteInvInit, InviteInvStep, PTL DEF Spec
-----------------------------------------------------------------------------
(* Every connection with a key of its owner.                                 *)

\* An insert checks that the key exists, and its callers that its owner calls.
LEMMA InsertOwn ==
  ASSUME StoreTypeOK, OwnKeysOnly, NEW row \in ConnRow, CanInsertConnection(row),
         KeyOwner[row.key] = row.user, InsertConnection(row)
  PROVE  OwnKeysOnly'
<1>1. /\ created + 1 \in ConnIds
      /\ conn' = [conn EXCEPT ![created + 1] = row]
      /\ keys' = keys
      /\ conn \in [ConnIds -> ConnRow \cup {NoRow}]
  BY InsertConnectionType DEF InsertConnection, StoreTypeOK
<1>2. ASSUME NEW c \in ConnIds, conn'[c] # NoRow
      PROVE  conn'[c].key \in keys /\ KeyOwner[conn'[c].key] = conn'[c].user
  <2>1. CASE c = created + 1
    BY <1>1, <2>1 DEF CanInsertConnection
  <2>2. CASE c # created + 1
    BY <1>1, <1>2, <2>2 DEF OwnKeysOnly, Exists
  <2> QED
    BY <2>1, <2>2
<1> QED
  BY <1>1, <1>2 DEF OwnKeysOnly, Exists

\* A new status leaves the key and the user of a row alone.
LEMMA StatusOwn ==
  ASSUME StoreTypeOK, OwnKeysOnly, NEW c \in ConnIds, Exists(c), NEW status \in Statuses,
         UpdateConnectionStatus(c, status)
  PROVE  OwnKeysOnly'
<1>1. conn[c] \in ConnRow
  BY DEF StoreTypeOK, Exists
<1>2. /\ conn'[c].key = conn[c].key
      /\ conn'[c].user = conn[c].user
      /\ \A d \in ConnIds : d # c => conn'[d] = conn[d]
      /\ keys' = keys
  BY <1>1 DEF UpdateConnectionStatus, StoreTypeOK, ConnRow
<1> QED
  BY <1>2 DEF OwnKeysOnly, Exists

\* Deleted rows have no owner to respect.
LEMMA DeleteOwn ==
  ASSUME StoreTypeOK, OwnKeysOnly, NEW S, DeleteConnections(S), keys' = keys
  PROVE  OwnKeysOnly'
BY DEF StoreTypeOK, OwnKeysOnly, Exists, DeleteConnections

\* The cascade: no connection survives its key.
LEMMA DeleteKeyOwn ==
  ASSUME StoreTypeOK, OwnKeysOnly, NEW k, DeleteKey(k)
  PROVE  OwnKeysOnly'
BY DEF StoreTypeOK, OwnKeysOnly, Exists, DeleteKey, DeleteConnections

\* More keys can do no harm.
LEMMA UnchangedOwn ==
  ASSUME OwnKeysOnly, UNCHANGED conn, keys \subseteq keys'
  PROVE  OwnKeysOnly'
BY DEF OwnKeysOnly, Exists

\* Requests: only PairInsert and Activate write connection rows.
LEMMA RequestOwn ==
  ASSUME TypeOK, OwnKeysOnly, NEW r \in Reqs, Client(r)
  PROVE  OwnKeysOnly'
<1>0. StoreTypeOK /\ RpcTypeOK
  BY DEF TypeOK
<1>1. CASE PairInsert(r) /\ ~ UNCHANGED db
  <2>1. info[r] \in Invite /\ req[r] \in Request
    BY <1>0, <1>1 DEF PairInsert, RpcTypeOK
  <2>2. /\ CanInsertConnection(NewRow(r))
        /\ InsertConnection(NewRow(r))
        /\ KeyOwner[NewRow(r).key] = NewRow(r).user
    BY <1>1 DEF PairInsert, NewRow
  <2> QED
    BY <1>0, <2>1, <2>2, NewRowType, InsertOwn
<1>2. CASE Activate(r) /\ ~ UNCHANGED db
  <2>1. snap[r].id \in ConnIds
    BY <1>0, <1>2 DEF Activate, RpcTypeOK, Snapshot
  <2> QED
    BY <1>0, <1>2, <2>1, StatusOwn DEF Activate, Statuses
<1>3. CASE UNCHANGED <<conn, keys>>
  BY <1>3, UnchangedOwn
<1>4. PairInsert(r) \/ Activate(r) \/ UNCHANGED <<conn, keys>>
  BY DEF Client, Receive, Handle, Lookup, Pair, PairSeed, PairRefetch, PairLookup, GrantRows,
         ServeConnect, ServePerform, ServeOther, Record, RequestPermissions, Touch, Queue, Log, Publish, db
<1>5. UNCHANGED db => UNCHANGED <<conn, keys>>
  BY DEF db
<1> QED
  BY <1>1, <1>2, <1>3, <1>4, <1>5

\* Calls: creating, status, deleting a connection and deleting a key do.
LEMMA CallOwn ==
  ASSUME TypeOK, OwnKeysOnly, NEW e \in Calls, Operator(e)
  PROVE  OwnKeysOnly'
<1>0. StoreTypeOK /\ ApiTypeOK
  BY DEF TypeOK
<1>1. CASE CreateInsert(e) /\ ~ UNCHANGED db
  <2>1. call[e] \in ApiCall /\ call[e].op = "create"
    BY <1>0, <1>1 DEF CreateInsert, ApiTypeOK, Op
  <2>2. RowOf(e) \in ConnRow
    BY <2>1, CallFields DEF RowOf, ConnRow, Statuses
  <2>3. /\ CanInsertConnection(RowOf(e))
        /\ InsertConnection(RowOf(e))
        /\ KeyOwner[RowOf(e).key] = RowOf(e).user
    BY <1>1 DEF CreateInsert, RowOf
  <2> QED
    BY <1>0, <2>2, <2>3, InsertOwn
<1>2. CASE SetStatus(e) /\ ~ UNCHANGED db
  <2> DEFINE status == IF Op(e) = "create" THEN "ACTIVE" ELSE call[e].status
  <2>1. target[e] \in ConnIds /\ status \in Statuses
    BY <1>0, <1>2, CallFields DEF SetStatus, ApiTypeOK, Statuses, Op
  <2>2. Exists(target[e]) /\ UpdateConnectionStatus(target[e], status)
    BY <1>2 DEF SetStatus
  <2> HIDE DEF status
  <2> QED
    BY <1>0, <2>1, <2>2, StatusOwn
<1>3. CASE Delete(e)
  BY <1>0, <1>3, DeleteOwn DEF Delete
<1>4. CASE RemoveKey(e)
  BY <1>0, <1>4, DeleteKeyOwn DEF RemoveKey
<1>5. CASE UNCHANGED conn /\ keys \subseteq keys'
  BY <1>5, UnchangedOwn
<1>6. CreateInsert(e) \/ SetStatus(e) \/ Delete(e) \/ RemoveKey(e)
        \/ (UNCHANGED conn /\ keys \subseteq keys')
  BY DEF Operator, Call, Process, Check, SetClear, DeleteGranted, SetDrop, DeletePending,
         SetGrant, GrantRows, Decide, ApprovePending, CreateSeed, CreateRefetch, CreateRespond,
         CheckKey, RegisterInvite, AddKey, InsertKey, CountConnections, db
<1>7. UNCHANGED db => UNCHANGED conn /\ keys \subseteq keys'
  BY DEF db
<1> QED
  BY <1>1, <1>2, <1>3, <1>4, <1>5, <1>6, <1>7

\* For any number of operators, keys and connections: a connection has a
\* key that exists and that its own operator imported.
THEOREM OwnKeysAlways == Spec => []OwnKeysOnly
<1>1. Init => OwnKeysOnly
  BY DEF Init, StoreInit, OwnKeysOnly, Exists
<1>2. TypeOK /\ OwnKeysOnly /\ [Next]_vars => OwnKeysOnly'
  <2> SUFFICES ASSUME TypeOK, OwnKeysOnly, [Next]_vars PROVE OwnKeysOnly'
    OBVIOUS
  <2>1. CASE Expire \/ Restart \/ UNCHANGED vars
    BY <2>1, UnchangedOwn DEF Expire, Restart, vars, db
  <2> QED
    BY <2>1, RequestOwn, CallOwn DEF Next
<1> QED
  BY <1>1, <1>2, TypeCorrect, PTL DEF Spec
-----------------------------------------------------------------------------
(* No grant without an operator.                                             *)

\* A list adds rows only for the descriptors it names.
LEMMA TimesPositive ==
  ASSUME NEW list \in Seq(Perms), NEW p, Times(list, p) # 0
  PROVE  p \in Range(list)
<1>1. SUFFICES ASSUME p \notin Range(list) PROVE Times(list, p) = 0
  OBVIOUS
<1>2. {i \in DOMAIN list : list[i] = p} = {}
  BY <1>1 DEF Range
<1> QED
  BY <1>2, FS_EmptySet DEF Times

\* createMany of granted rows adds to the descriptors of the list only.
LEMMA GrantRowsAdds ==
  ASSUME StoreTypeOK, NEW d \in ConnIds, NEW list \in Seq(Perms), GrantRows(d, list),
         NEW c \in ConnIds, NEW p \in Perms, granted'[c][p] > granted[c][p]
  PROVE  c = d /\ p \in Range(list)
<1>1. Times(list, p) \in Nat /\ granted[c][p] \in Nat
  BY TimesType DEF StoreTypeOK
<1>2. granted'[c][p] = granted[c][p] + (IF c = d THEN Times(list, p) ELSE 0)
  BY <1>1 DEF GrantRows, StoreTypeOK
<1>3. c = d /\ Times(list, p) # 0
  BY <1>1, <1>2
<1> QED
  BY <1>3, TimesPositive

\* Deleting rows adds to nothing.
LEMMA DeleteAddsNothing ==
  ASSUME StoreTypeOK, NEW S, DeleteConnections(S), NEW c \in ConnIds, NEW p \in Perms
  PROVE  ~ (granted'[c][p] > granted[c][p])
<1>1. granted[c][p] \in Nat
  BY DEF StoreTypeOK
<1>2. granted'[c][p] \in {0, granted[c][p]}
  BY DEF DeleteConnections, NoRows
<1> QED
  BY <1>1, <1>2

\* Requests: only the seed of an invitation grants.
LEMMA RequestGrants ==
  ASSUME TypeOK, NEW r \in Reqs, Client(r),
         NEW c \in ConnIds, NEW p \in Perms, granted'[c][p] > granted[c][p]
  PROVE  Mandated(c, p)
<1>0. StoreTypeOK /\ RpcTypeOK
  BY DEF TypeOK
<1>1. granted[c][p] \in Nat
  BY <1>0 DEF StoreTypeOK
<1>2. granted' # granted
  BY <1>1
<1>3. PairSeed(r)
  BY <1>2 DEF Client, Receive, Handle, Lookup, Pair, PairInsert, InsertConnection, PairRefetch,
       PairLookup, ServeConnect, ServePerform, ServeOther, Activate, UpdateConnectionStatus,
       Record, RequestPermissions, Touch, Queue, Log, Publish, db
<1>4. /\ rpc[r] = "seed"
      /\ GrantRows(made[r], SeedOf(info[r].seed))
  BY <1>2, <1>3 DEF PairSeed, db
<1>5. made[r] \in ConnIds /\ info[r].seed \in PermLists
  BY <1>0, <1>4, NewRowType DEF RpcTypeOK
<1>6. made[r] = c /\ p \in Range(SeedOf(info[r].seed))
  BY <1>0, <1>4, <1>5, SeedType, GrantRowsAdds
<1> QED
  BY <1>4, <1>6 DEF Mandated

\* Calls: an edit, the defaults of a new connection and an approval grant.
LEMMA CallGrants ==
  ASSUME TypeOK, NEW e \in Calls, Operator(e),
         NEW c \in ConnIds, NEW p \in Perms, granted'[c][p] > granted[c][p]
  PROVE  Mandated(c, p)
<1>0. StoreTypeOK /\ ApiTypeOK
  BY DEF TypeOK
<1>1. granted[c][p] \in Nat
  BY <1>0 DEF StoreTypeOK
<1>2. granted' # granted
  BY <1>1
<1>3. CASE SetClear(e)
  <2>1. target[e] \in ConnIds
    BY <1>0, <1>3 DEF SetClear, ApiTypeOK
  <2>2. granted'[c][p] \in {0, granted[c][p]}
    BY <1>0, <1>3, <2>1 DEF SetClear, DeleteGranted, NoRows, StoreTypeOK
  <2> QED
    BY <1>1, <2>2
<1>4. CASE SetGrant(e)
  <2>1. api[e] = "grant" /\ GrantRows(target[e], call[e].perms)
    BY <1>2, <1>4 DEF SetGrant, db
  <2>2. target[e] \in ConnIds /\ call[e].perms \in PermLists
    BY <1>0, <2>1, CallFields DEF ApiTypeOK
  <2>3. target[e] = c /\ p \in Range(call[e].perms)
    BY <1>0, <2>1, <2>2, SeedType, GrantRowsAdds
  <2> QED
    BY <2>1, <2>3 DEF Mandated
<1>5. CASE Decide(e)
  <2>1. api[e] = "decide" /\ Op(e) = "approve" /\ ApprovePending(target[e], Chosen(e))
    BY <1>2, <1>5 DEF Decide, DeletePending, db
  <2>2. target[e] \in ConnIds
    BY <1>0, <2>1 DEF ApiTypeOK
  <2>3. pending[c][p] \in Nat
    BY <1>0 DEF StoreTypeOK
  <2>4. granted'[c][p] = granted[c][p]
          + (IF c = target[e] /\ p \in Chosen(e) THEN pending[c][p] ELSE 0)
    BY <1>0, <1>1, <2>1, <2>2 DEF ApprovePending, StoreTypeOK
  <2>5. c = target[e] /\ p \in Chosen(e) /\ pending[c][p] > 0
    BY <1>1, <2>3, <2>4
  <2> QED
    BY <2>1, <2>5 DEF Mandated
<1>6. CASE CreateSeed(e)
  <2>1. api[e] = "seed" /\ GrantRows(target[e], DEFAULT_CONNECTION_PERMISSIONS)
    BY <1>2, <1>6 DEF CreateSeed, db
  <2>2. target[e] \in ConnIds /\ DEFAULT_CONNECTION_PERMISSIONS \in Seq(Perms)
    BY <1>0, <2>1, SeedType, InviteAssumption DEF ApiTypeOK
  <2>3. target[e] = c /\ p \in Range(DEFAULT_CONNECTION_PERMISSIONS)
    BY <1>0, <2>1, <2>2, GrantRowsAdds
  <2> QED
    BY <2>1, <2>3 DEF Mandated
<1>7. CASE Delete(e) \/ RemoveKey(e)
  BY <1>0, <1>7, DeleteAddsNothing DEF Delete, RemoveKey, DeleteKey
<1>8. SetClear(e) \/ SetGrant(e) \/ Decide(e) \/ CreateSeed(e) \/ Delete(e) \/ RemoveKey(e)
  BY <1>2 DEF Operator, Call, Process, Check, SetDrop, DeletePending, SetStatus,
       UpdateConnectionStatus, CreateInsert, InsertConnection, CreateRefetch, CreateRespond,
       CheckKey, RegisterInvite, AddKey, InsertKey, CountConnections, db
<1> QED
  BY <1>3, <1>4, <1>5, <1>6, <1>7, <1>8

\* A client can never widen its own permissions, whatever it sends and when:
\* every granted row is one an operator's call or invitation asks for.
THEOREM NoSelfEscalationAlways == Spec => NoSelfEscalation
<1>1. TypeOK /\ [Next]_vars =>
        [\A c \in ConnIds, p \in Perms : granted'[c][p] > granted[c][p] => Mandated(c, p)]_vars
  <2> SUFFICES ASSUME TypeOK, Next, NEW c \in ConnIds, NEW p \in Perms,
                      granted'[c][p] > granted[c][p]
               PROVE  Mandated(c, p)
    OBVIOUS
  <2>1. granted[c][p] \in Nat
    BY DEF TypeOK, StoreTypeOK
  <2>2. ~ (Expire \/ Restart)
    BY <2>1 DEF Expire, Restart, db
  <2> QED
    BY <2>2, RequestGrants, CallGrants DEF Next
<1> QED
  BY <1>1, TypeCorrect, PTL DEF Spec, NoSelfEscalation
-----------------------------------------------------------------------------
(* What a deleted connection leaves behind.                                  *)

\* Ids are handed out in order, and a snapshot is of a row that was there; who
\* activates a connection saw it pending.
RowInv ==
  /\ \A c \in ConnIds : Exists(c) => c <= created
  /\ \A r \in Reqs : snap[r] # NoSnap => snap[r].id <= created
  /\ \A r \in Reqs : rpc[r] \in {"answered", "dropped"} => snap[r] # NoSnap
  /\ \A r \in Reqs : rpc[r] = "activate" => snap[r].row.status = "PENDING"

\* What a step may do to the connections: a new row gets the next id, and rows
\* change their status or go.
RowsStep ==
  /\ created' \in {created, created + 1}
  /\ \A c \in ConnIds : Exists(c)' => Exists(c) \/ c = created'
  /\ \A c \in ConnIds : Exists(c)' /\ ~ Exists(c) => created' = created + 1

\* The statements of the store that leave the rows where they are.
LEMMA RowsUnchanged ==
  ASSUME StoreTypeOK, UNCHANGED <<conn, created>>
  PROVE  RowsStep
BY DEF RowsStep, Exists

\* An insert adds the next row.
LEMMA RowsInserted ==
  ASSUME StoreTypeOK, NEW row \in ConnRow, InsertConnection(row)
  PROVE  RowsStep
<1>1. /\ created + 1 \in ConnIds
      /\ created' = created + 1
      /\ conn' = [conn EXCEPT ![created + 1] = row]
      /\ conn \in [ConnIds -> ConnRow \cup {NoRow}]
  BY InsertConnectionType DEF InsertConnection, StoreTypeOK
<1> QED
  BY <1>1 DEF RowsStep, Exists

\* An update of a status leaves the rows where they are.
LEMMA RowsUpdated ==
  ASSUME StoreTypeOK, NEW c \in ConnIds, Exists(c), NEW status,
         UpdateConnectionStatus(c, status)
  PROVE  RowsStep
BY DEF StoreTypeOK, UpdateConnectionStatus, RowsStep, Exists

\* A deletion adds none.
LEMMA RowsDeleted ==
  ASSUME StoreTypeOK, NEW S, DeleteConnections(S)
  PROVE  RowsStep
BY DEF StoreTypeOK, DeleteConnections, RowsStep, Exists

\* Requests insert at PairInsert and update at Activate.
LEMMA RequestRows ==
  ASSUME TypeOK, NEW r \in Reqs, Client(r)
  PROVE  RowsStep
<1>0. StoreTypeOK /\ RpcTypeOK
  BY DEF TypeOK
<1>1. CASE PairInsert(r) /\ ~ UNCHANGED db
  <2>1. info[r] \in Invite /\ req[r] \in Request
    BY <1>0, <1>1 DEF PairInsert, RpcTypeOK
  <2>2. InsertConnection(NewRow(r))
    BY <1>1 DEF PairInsert
  <2> QED
    BY <1>0, <2>1, <2>2, NewRowType, RowsInserted
<1>2. CASE Activate(r) /\ ~ UNCHANGED db
  <2>1. snap[r].id \in ConnIds
    BY <1>0, <1>2 DEF Activate, RpcTypeOK, Snapshot
  <2> QED
    BY <1>0, <1>2, <2>1, RowsUpdated DEF Activate
<1>3. CASE UNCHANGED <<conn, created>>
  BY <1>0, <1>3, RowsUnchanged
<1>4. PairInsert(r) \/ Activate(r) \/ UNCHANGED <<conn, created>>
  BY DEF Client, Receive, Handle, Lookup, Pair, PairSeed, PairRefetch, PairLookup, GrantRows,
         ServeConnect, ServePerform, ServeOther, Record, RequestPermissions, Touch, Queue, Log,
         Publish, db
<1>5. UNCHANGED db => UNCHANGED <<conn, created>>
  BY DEF db
<1> QED
  BY <1>1, <1>2, <1>3, <1>4, <1>5

\* Calls insert, update and delete in four actions.
LEMMA CallRows ==
  ASSUME TypeOK, NEW e \in Calls, Operator(e)
  PROVE  RowsStep
<1>0. StoreTypeOK /\ ApiTypeOK
  BY DEF TypeOK
<1>1. CASE CreateInsert(e) /\ ~ UNCHANGED db
  <2>1. call[e] \in ApiCall /\ call[e].op = "create"
    BY <1>0, <1>1 DEF CreateInsert, ApiTypeOK, Op
  <2>2. RowOf(e) \in ConnRow
    BY <2>1, CallFields DEF RowOf, ConnRow, Statuses
  <2>3. InsertConnection(RowOf(e))
    BY <1>1 DEF CreateInsert
  <2> QED
    BY <1>0, <2>2, <2>3, RowsInserted
<1>2. CASE SetStatus(e) /\ ~ UNCHANGED db
  <2>1. target[e] \in ConnIds
    BY <1>0, <1>2 DEF SetStatus, ApiTypeOK
  <2> QED
    BY <1>0, <1>2, <2>1, RowsUpdated DEF SetStatus
<1>3. CASE Delete(e) \/ RemoveKey(e)
  BY <1>0, <1>3, RowsDeleted DEF Delete, RemoveKey, DeleteKey
<1>4. CASE UNCHANGED <<conn, created>>
  BY <1>0, <1>4, RowsUnchanged
<1>5. CreateInsert(e) \/ SetStatus(e) \/ Delete(e) \/ RemoveKey(e) \/ UNCHANGED <<conn, created>>
  BY DEF Operator, Call, Process, Check, SetClear, DeleteGranted, SetDrop, DeletePending,
         SetGrant, GrantRows, Decide, ApprovePending, CreateSeed, CreateRefetch, CreateRespond,
         CheckKey, RegisterInvite, AddKey, InsertKey, CountConnections, db
<1>6. UNCHANGED db => UNCHANGED <<conn, created>>
  BY DEF db
<1> QED
  BY <1>1, <1>2, <1>3, <1>4, <1>5, <1>6

\* Every step adds the next row or none.
LEMMA NextRows ==
  ASSUME TypeOK, [Next]_vars
  PROVE  RowsStep
<1>1. CASE Expire \/ Restart \/ UNCHANGED vars
  <2>1. UNCHANGED <<conn, created>>
    BY <1>1 DEF Expire, Restart, vars, db
  <2> QED
    BY <2>1, RowsUnchanged DEF TypeOK
<1> QED
  BY <1>1, RequestRows, CallRows DEF Next

\* A row that was deleted never comes back.
LEMMA NeverBack ==
  ASSUME TypeOK, [Next]_vars, NEW c \in ConnIds, c <= created, ~ Exists(c)
  PROVE  ~ Exists(c)'
<1>1. c \in Nat /\ created \in Nat
  BY StoreAssumption DEF TypeOK, StoreTypeOK, ConnIds
<1> QED
  BY <1>1, NextRows DEF RowsStep
-----------------------------------------------------------------------------
(* What a step may do to one request.                                        *)

\* Where a request gets its snapshot it starts to be served, and a handler moves
\* on to an end only from the step before it.
LEMMA RequestStep ==
  ASSUME TypeOK, RowInv, [Next]_vars, NEW r \in Reqs
  PROVE  /\ snap'[r] = snap[r]
              \/ (rpc'[r] = "serve" /\ snap'[r].id \in ConnIds /\ Exists(snap'[r].id))
         /\ rpc[r] # "free" => req'[r] = req[r]
         /\ rpc'[r] \in {"answered", "dropped", "publish", "activate"} => snap'[r] = snap[r]
         /\ rpc'[r] = "answered" => rpc[r] \in {"answered", "publish"}
         /\ rpc'[r] = "dropped" => rpc[r] = "dropped" \/ (Touch(r) /\ ~ Exists(snap[r].id))
         /\ rpc'[r] = "publish" => rpc[r] = "publish" \/ Log(r)
         /\ rpc'[r] = "activate" => rpc[r] = "activate" \/ snap[r].row.status = "PENDING"
         /\ r \in performed' => r \in performed \/ rpc'[r] = "touch"
         /\ r \in logged => r \in logged'
<1>0. StoreTypeOK /\ RpcTypeOK
  BY DEF TypeOK
<1>1. CASE Receive(r) \/ Handle(r)
  <2>1. CASE Lookup(r) \/ PairLookup(r)
    <3>1. CASE \E c \in Newest(Live(r)) : TakeSnapshot(r, c)
      <4>1. PICK c \in Newest(Live(r)) : TakeSnapshot(r, c)
        BY <3>1
      <4>2. c \in ConnIds /\ Exists(c)
        BY <4>1 DEF Newest, Live, LiveFor
      <4>3. snap'[r].id = c /\ conn' = conn
        BY <1>0, <2>1, <4>1 DEF TakeSnapshot, RpcTypeOK, Lookup, PairLookup, db
      <4>4. rpc'[r] = "serve"
        BY <1>0, <2>1, <4>1, <4>2 DEF Lookup, PairLookup, GoTo, RpcTypeOK, Newest
      <4> QED
        BY <1>0, <2>1, <4>2, <4>3, <4>4 DEF Exists, Lookup, PairLookup, GoTo, RpcTypeOK
    <3> QED
      BY <1>0, <2>1, <3>1 DEF Lookup, PairLookup, GoTo, RpcTypeOK
  <2>2. CASE Receive(r) \/ Pair(r) \/ PairInsert(r) \/ PairSeed(r) \/ PairRefetch(r)
    BY <1>0, <2>2 DEF Receive, Pair, PairInsert, PairSeed, PairRefetch, GoTo, RpcTypeOK
  <2>3. CASE ServeConnect(r) \/ ServePerform(r) \/ ServeOther(r) \/ Activate(r) \/ Record(r)
               \/ Touch(r) \/ Queue(r) \/ Publish(r)
    BY <1>0, <2>3 DEF ServeConnect, ServePerform, ServeOther, Activate, Record, Touch, Queue,
         Publish, GoTo, RpcTypeOK
  <2>4. CASE Log(r)
    BY <1>0, <2>4 DEF Log, GoTo, RpcTypeOK
  <2> QED
    BY <1>1, <2>1, <2>2, <2>3, <2>4 DEF Handle
<1>2. ASSUME NEW s \in Reqs, s # r, Client(s)
      PROVE  /\ UNCHANGED <<snap[r], req[r], rpc[r]>>
             /\ r \in performed' <=> r \in performed
             /\ r \in logged' <=> r \in logged
  BY <1>0, <1>2 DEF Client, Receive, Handle, Lookup, Pair, PairInsert, PairSeed, PairRefetch,
       PairLookup, TakeSnapshot, ServeConnect, ServePerform, ServeOther, Activate, Record,
       Touch, Queue, Log, Publish, GoTo, RpcTypeOK
<1>3. CASE Restart
  BY <1>0, <1>3 DEF Restart, RpcRunning, RpcTypeOK
<1>4. CASE UNCHANGED rpcVars
  BY <1>4 DEF rpcVars
<1>5. (\E e \in Calls : Operator(e)) \/ Expire \/ UNCHANGED vars => UNCHANGED rpcVars
  BY DEF Operator, Expire, vars
<1> QED
  BY <1>1, <1>2, <1>3, <1>4, <1>5 DEF Next, Client

\* At the start no connection and no request is there.
LEMMA RowInvInit == Init => RowInv
BY DEF Init, StoreInit, RpcInit, RowInv, Exists

\* Every step keeps what handlers know of the rows.
LEMMA RowInvStep ==
  ASSUME TypeOK, TypeOK', RowInv, [Next]_vars
  PROVE  RowInv'
<1>0. created \in Nat /\ created' \in Nat /\ ConnIds \subseteq Nat
  BY StoreAssumption DEF TypeOK, StoreTypeOK, ConnIds
<1>1. RowsStep /\ created <= created'
  BY <1>0, NextRows DEF RowsStep
<1>2. ASSUME NEW c \in ConnIds, Exists(c)'
      PROVE  c <= created'
  BY <1>0, <1>1, <1>2 DEF RowsStep, RowInv
<1>3. ASSUME NEW r \in Reqs, snap'[r] # NoSnap
      PROVE  snap'[r].id <= created'
  <2>1. CASE snap'[r] = snap[r]
    <3>1. snap[r].id \in ConnIds /\ snap[r].id <= created
      BY <1>3, <2>1 DEF RowInv, TypeOK, RpcTypeOK, Snapshot
    <3>2. snap[r].id \in Nat
      BY <1>0, <3>1
    <3> QED
      BY <1>0, <1>1, <2>1, <3>1, <3>2
  <2>2. CASE snap'[r].id \in ConnIds /\ Exists(snap'[r].id)
    <3>1. snap'[r].id \in Nat /\ snap'[r].id <= created
      BY <1>0, <2>2 DEF RowInv
    <3> QED
      BY <1>0, <1>1, <3>1
  <2> QED
    BY <2>1, <2>2, RequestStep
<1>4. ASSUME NEW r \in Reqs, rpc'[r] \in {"answered", "dropped"}
      PROVE  snap'[r] # NoSnap
  <2>1. snap'[r] = snap[r] /\ (rpc[r] \in {"answered", "dropped", "publish"} \/ Touch(r))
    BY <1>4, RequestStep
  <2>2. rpc[r] \in {"answered", "dropped", "publish", "touch"}
    BY <2>1 DEF Touch
  <2>3. rpc[r] \in {"publish", "touch"} => snap[r] \in Snapshot
    BY DEF TypeOK, RpcTypeOK
  <2> QED
    BY <2>1, <2>2, <2>3, RpcAssumption DEF RowInv
<1>5. ASSUME NEW r \in Reqs, rpc'[r] = "activate"
      PROVE  snap'[r].row.status = "PENDING"
  BY <1>5, RequestStep DEF RowInv
<1> QED
  BY <1>2, <1>3, <1>4, <1>5 DEF RowInv, Exists

\* A request loses its response only where its connection was deleted, which
\* then stays so: touchActivity is the one statement outside the try.
THEOREM DroppedOnlyIfDeletedAlways == Spec => []DroppedOnlyIfDeleted
<1>1. Init => DroppedOnlyIfDeleted
  BY DEF Init, RpcInit, DroppedOnlyIfDeleted
<1>2. TypeOK /\ RowInv /\ DroppedOnlyIfDeleted /\ [Next]_vars => DroppedOnlyIfDeleted'
  <2> SUFFICES ASSUME TypeOK, RowInv, DroppedOnlyIfDeleted, [Next]_vars,
                      NEW r \in Reqs, rpc'[r] = "dropped"
               PROVE  ~ Exists(snap[r].id)' /\ snap'[r] = snap[r]
    BY DEF DroppedOnlyIfDeleted, Exists
  <2>1. snap'[r] = snap[r] /\ (rpc[r] = "dropped" \/ Touch(r)) /\ ~ Exists(snap[r].id)
    BY RequestStep DEF DroppedOnlyIfDeleted
  <2>2. snap[r] \in Snapshot
    BY <2>1 DEF RowInv, Touch, TypeOK, RpcTypeOK
  <2>3. snap[r].id \in ConnIds /\ snap[r].id <= created
    BY <2>2, RpcAssumption DEF RowInv, Snapshot
  <2>4. ~ Exists(snap[r].id)'
    BY <2>1, <2>3, NeverBack DEF Exists
  <2> QED
    BY <2>1, <2>4
<1> QED
  BY <1>1, <1>2, RowInvInit, RowInvStep, TypeCorrect, PTL DEF Spec
\* A use of the key that ran to its end is logged, but for a deleted connection
\* and a kind that the column cannot hold.
THEOREM UseIsLoggedAlways == Spec => []UseIsLogged
<1>1. Init => UseIsLogged
  BY DEF Init, RpcInit, UseIsLogged
<1>2. TypeOK /\ TypeOK' /\ RowInv /\ UseIsLogged /\ [Next]_vars => UseIsLogged'
  <2> SUFFICES ASSUME TypeOK, TypeOK', RowInv, UseIsLogged, [Next]_vars, NEW r \in Reqs,
                      r \in performed',
                      rpc'[r] \in {"publish", "answered", "dropped"}, r \notin logged'
               PROVE  ~ Exists(snap[r].id)' \/ ~ Storable(LoggedKind(r)')
    BY DEF UseIsLogged, TypeOK, RpcTypeOK
  <2>1. /\ rpc[r] \in {"publish", "answered", "dropped"} \/ Log(r)
             \/ (Touch(r) /\ ~ Exists(snap[r].id))
        /\ snap'[r] = snap[r]
        /\ r \in performed
        /\ r \notin logged
    BY RequestStep
  <2>2. rpc[r] \in {"publish", "answered", "dropped", "log", "touch"}
    BY <2>1 DEF Log, Touch
  <2>3. LoggedKind(r)' = LoggedKind(r)
    BY <2>2, RequestStep DEF LoggedKind
  <2>4. snap[r] \in Snapshot
    BY <2>2 DEF RowInv, TypeOK, RpcTypeOK
  <2>5. snap[r].id \in ConnIds /\ snap[r].id <= created
    BY <2>4, RpcAssumption DEF RowInv, Snapshot
  <2>6. ~ Exists(snap[r].id) \/ ~ Storable(LoggedKind(r))
    BY <2>1 DEF Log, UseIsLogged
  <2>7. ~ Exists(snap[r].id) => ~ Exists(snap[r].id)'
    BY <2>1, <2>5, NeverBack DEF Exists
  <2> QED
    BY <2>3, <2>6, <2>7
<1> QED
  BY <1>1, <1>2, RowInvInit, RowInvStep, TypeCorrect, PTL DEF Spec
-----------------------------------------------------------------------------
(* Revocation.                                                               *)

\* Requests: only Activate writes a status over another.
LEMMA RequestRevives ==
  ASSUME TypeOK, RowInv, NEW r \in Reqs, Client(r),
         NEW c \in ConnIds, Exists(c), conn[c].status = "REVOKED", conn'[c] # NoRow,
         conn'[c].status = "ACTIVE"
  PROVE  rpc[r] = "activate" /\ snap[r].id = c /\ snap[r].row.status = "PENDING"
<1>0. StoreTypeOK /\ RpcTypeOK
  BY DEF TypeOK
<1>1. conn'[c] # conn[c]
  OBVIOUS
<1>2. conn' # conn
  BY <1>1
<1>3. ~ PairInsert(r)
  <2>1. SUFFICES ASSUME PairInsert(r) PROVE FALSE
    OBVIOUS
  <2>2. InsertConnection(NewRow(r))
    BY <1>2, <2>1 DEF PairInsert, db
  <2>3. c # created + 1
    BY StoreAssumption DEF RowInv, TypeOK, StoreTypeOK, ConnIds
  <2> QED
    BY <1>0, <1>1, <2>2, <2>3 DEF InsertConnection, StoreTypeOK
<1>4. Activate(r)
  BY <1>2, <1>3 DEF Client, Receive, Handle, Lookup, Pair, PairSeed, GrantRows, PairRefetch,
       PairLookup, ServeConnect, ServePerform, ServeOther, Record, RequestPermissions, Touch,
       Queue, Log, Publish, db
<1>5. rpc[r] = "activate" /\ UpdateConnectionStatus(snap[r].id, "ACTIVE")
  BY <1>2, <1>4 DEF Activate, db
<1>6. snap[r].id = c
  BY <1>0, <1>1, <1>5 DEF UpdateConnectionStatus, StoreTypeOK
<1> QED
  BY <1>5, <1>6 DEF RowInv

\* Calls: only a call about the status does.
LEMMA CallRevives ==
  ASSUME TypeOK, RowInv, NEW e \in Calls, Operator(e),
         NEW c \in ConnIds, Exists(c), conn[c].status = "REVOKED", conn'[c] # NoRow,
         conn'[c].status = "ACTIVE"
  PROVE  api[e] = "status" /\ target[e] = c
<1>0. StoreTypeOK
  BY DEF TypeOK
<1>1. conn'[c] # conn[c]
  OBVIOUS
<1>2. conn' # conn
  BY <1>1
<1>3. ~ CreateInsert(e)
  <2>1. SUFFICES ASSUME CreateInsert(e) PROVE FALSE
    OBVIOUS
  <2>2. InsertConnection(RowOf(e))
    BY <1>2, <2>1 DEF CreateInsert, db
  <2>3. c # created + 1
    BY StoreAssumption DEF RowInv, TypeOK, StoreTypeOK, ConnIds
  <2> QED
    BY <1>0, <1>1, <2>2, <2>3 DEF InsertConnection, StoreTypeOK
<1>4. ~ (Delete(e) \/ RemoveKey(e))
  BY <1>1 DEF Delete, RemoveKey, DeleteKey, DeleteConnections
<1>5. SetStatus(e)
  BY <1>2, <1>3, <1>4 DEF Operator, Call, Process, Check, SetClear, DeleteGranted, SetDrop,
       DeletePending, SetGrant, GrantRows, Decide, ApprovePending, CreateSeed, CreateRefetch,
       CreateRespond, CheckKey, RegisterInvite, AddKey, InsertKey, CountConnections, db
<1> QED
  BY <1>0, <1>1, <1>2, <1>5 DEF SetStatus, UpdateConnectionStatus, StoreTypeOK, db

\* A revocation is undone by a call that says so, or by a connect that saw the
\* connection pending: never by a request that looks after it.
THEOREM RevivedByEarlierLookAlways == Spec => RevivedByEarlierLook
<1>1. TypeOK /\ RowInv /\ [Next]_vars =>
        [\A c \in ConnIds :
           Exists(c) /\ conn[c].status = "REVOKED" /\ conn'[c] # NoRow
             /\ conn'[c].status = "ACTIVE" =>
             \/ \E e \in Calls : api[e] = "status" /\ target[e] = c
             \/ \E r \in Reqs :
                  rpc[r] = "activate" /\ snap[r].id = c /\ snap[r].row.status = "PENDING"]_vars
  <2> SUFFICES ASSUME TypeOK, RowInv, Next, NEW c \in ConnIds, Exists(c),
                      conn[c].status = "REVOKED", conn'[c] # NoRow, conn'[c].status = "ACTIVE"
               PROVE  \/ \E e \in Calls : api[e] = "status" /\ target[e] = c
                      \/ \E r \in Reqs :
                           rpc[r] = "activate" /\ snap[r].id = c
                             /\ snap[r].row.status = "PENDING"
    OBVIOUS
  <2>1. ~ (Expire \/ Restart)
    BY DEF Expire, Restart, db
  <2> QED
    BY <2>1, RequestRevives, CallRevives DEF Next
<1> QED
  BY <1>1, RowInvInit, RowInvStep, TypeCorrect, PTL DEF Spec, RevivedByEarlierLook
-----------------------------------------------------------------------------
(* The bunker implements SigningAuthority.                                   *)

\* A request looks at a connection at most once, after it was received and
\* before it acts, and what it looks at is its own.
ViewInv ==
  \A r \in Reqs :
    /\ rpc[r] = "free" => req[r] = NoReq
    /\ req[r] # NoReq => req[r] \in RpcMenu
    /\ rpc[r] \in {"free", "lookup", "pair", "insert", "seed", "refetch", "relookup"} =>
         snap[r] = NoSnap
    /\ rpc[r] = "serve" => r \notin performed
    /\ r \in performed => snap[r] # NoSnap
    /\ snap[r] # NoSnap =>
         /\ snap[r] \in Snapshot
         /\ snap[r].row.client = req[r].client
         /\ PubOf[snap[r].row.key] = req[r].signer
-----------------------------------------------------------------------------
(* ViewInv is inductive.                                                     *)

Unresolved == {"free", "lookup", "pair", "insert", "seed", "refetch", "relookup"}

\* A snapshot is of an open connection of the request's client and signer.
LEMMA SnapshotIsOwn ==
  ASSUME StoreTypeOK, RpcTypeOK, NEW r \in Reqs, NEW c \in Newest(Live(r)), TakeSnapshot(r, c)
  PROVE  /\ snap'[r] \in Snapshot
         /\ snap'[r] # NoSnap
         /\ snap'[r].row.client = req[r].client
         /\ PubOf[snap'[r].row.key] = req[r].signer
         /\ \A s \in Reqs : s # r => snap'[s] = snap[s]
<1>1. /\ c \in ConnIds
      /\ conn[c].client = req[r].client
      /\ PubOf[conn[c].key] = req[r].signer
  BY DEF Newest, Live, LiveFor
<1>2. snap \in [Reqs -> Snapshot \cup {NoSnap}]
  BY DEF RpcTypeOK
<1>3. /\ snap'[r] \in Snapshot
      /\ \A s \in Reqs : s # r => snap'[s] = snap[s]
  BY <1>2, TakeSnapshotType
<1>4. snap'[r].row = conn[c]
  BY <1>2 DEF TakeSnapshot
<1> QED
  BY <1>1, <1>3, <1>4, RpcAssumption

\* Every step of a request keeps ViewInv: a snapshot is taken on the way to
\* "serve", and the key is used on the way out of it.
LEMMA ViewInvRequest ==
  ASSUME TypeOK, ViewInv, NEW r \in Reqs, Client(r)
  PROVE  ViewInv'
<1>0. StoreTypeOK /\ RpcTypeOK
  BY DEF TypeOK
<1>1. CASE Receive(r)
  <2>1. req[r] = NoReq /\ snap[r] = NoSnap /\ r \notin performed
    BY <1>1 DEF Receive, ViewInv
  <2> QED
    BY <1>0, <1>1, <2>1 DEF Receive, GoTo, RpcTypeOK, ViewInv
<1>2. CASE /\ Lookup(r) \/ PairLookup(r)
           /\ \E c \in Newest(Live(r)) : TakeSnapshot(r, c)
           /\ GoTo(r, "serve")
  <2>1. PICK c \in Newest(Live(r)) : TakeSnapshot(r, c)
    BY <1>2
  <2>2. snap[r] = NoSnap /\ r \notin performed
    BY <1>2 DEF Lookup, PairLookup, ViewInv
  <2>3. /\ rpc' = [rpc EXCEPT ![r] = "serve"]
        /\ UNCHANGED <<req, performed>>
    BY <1>2 DEF Lookup, PairLookup, GoTo
  <2> QED
    BY <1>0, <2>1, <2>2, <2>3, SnapshotIsOwn DEF RpcTypeOK, ViewInv
<1>3. CASE ServePerform(r)
  <2>1. snap[r] # NoSnap
    BY <1>0, <1>3, RpcAssumption DEF ServePerform, RpcTypeOK
  <2> QED
    BY <1>0, <1>3, <2>1 DEF ServePerform, GoTo, RpcTypeOK, ViewInv
<1> DEFINE Passes == /\ UNCHANGED <<req, snap, performed>>
                     /\ \A s \in Reqs : s # r => rpc'[s] = rpc[s]
                     /\ rpc'[r] \notin {"free", "serve"}
                     /\ rpc[r] \in Unresolved \ {"free"} \/ rpc'[r] \notin Unresolved
<1>4. CASE Passes
  BY <1>0, <1>4 DEF Unresolved, RpcTypeOK, ViewInv
<1>5. rpc \in [Reqs -> {"free"} \cup RpcRunning \cup RpcEnded]
  BY <1>0 DEF RpcTypeOK
<1>6. (Lookup(r) \/ PairLookup(r)) /\ Live(r) = {} => Passes
  BY <1>5 DEF Lookup, PairLookup, Newest, GoTo, Unresolved
<1>7. Pair(r) \/ PairInsert(r) \/ PairSeed(r) \/ PairRefetch(r) => Passes
  BY <1>5 DEF Pair, PairInsert, PairSeed, PairRefetch, GoTo, Unresolved
<1>8. ServeConnect(r) \/ ServeOther(r) \/ Activate(r) \/ Record(r) => Passes
  BY <1>5 DEF ServeConnect, ServeOther, Activate, Record, GoTo, Unresolved
<1>9. Touch(r) \/ Queue(r) \/ Log(r) \/ Publish(r) => Passes
  BY <1>5 DEF Touch, Queue, Log, Publish, GoTo, Unresolved
<1> QED
  BY <1>1, <1>2, <1>3, <1>4, <1>6, <1>7, <1>8, <1>9 DEF Client, Handle, Lookup, PairLookup

\* ViewInv is an invariant: no call and no restart touches what a request saw.
LEMMA ViewInvAlways == Spec => []ViewInv
<1>1. Init => ViewInv
  BY DEF Init, RpcInit, ViewInv
<1>2. TypeOK /\ ViewInv /\ [Next]_vars => ViewInv'
  <2> SUFFICES ASSUME TypeOK, ViewInv, [Next]_vars PROVE ViewInv'
    OBVIOUS
  <2>1. CASE \E e \in Calls : Operator(e)
    BY <2>1 DEF Operator, rpcVars, ViewInv
  <2>2. CASE Expire \/ UNCHANGED vars
    BY <2>2 DEF Expire, vars, rpcVars, ViewInv
  <2>3. CASE Restart
    BY <2>3 DEF Restart, RpcRunning, ViewInv
  <2> QED
    BY <2>1, <2>2, <2>3, ViewInvRequest DEF Next
<1> QED
  BY <1>1, <1>2, TypeCorrect, PTL DEF Spec

\* A key is used for the signer that was addressed and the client that asked,
\* for any number of clients, keys, users and connections.
THEOREM ServedByAddressedKeyAlways == Spec => []ServedByAddressedKey
<1>1. TypeOK /\ ViewInv => ServedByAddressedKey
  BY DEF TypeOK, RpcTypeOK, ViewInv, ServedByAddressedKey
<1> QED
  BY <1>1, TypeCorrect, ViewInvAlways, PTL
-----------------------------------------------------------------------------
(* The refinement, step by step.                                             *)

Books == [c \in ConnIds |-> Book(c)]

Asks == [r \in Reqs |-> IF req[r] = NoReq THEN NoRow
                        ELSE [client |-> req[r].client, signer |-> req[r].signer,
                              want |-> Wanted(r)]]

Views == [r \in Reqs |-> IF snap[r] = NoSnap THEN NoRow ELSE snap[r].perms]

Wants == {WantedBy(q) : q \in RpcMenu}

Entries == [client : Clients, signer : Pubkeys, open : BOOLEAN, grants : SUBSET Perms]

\* What the tables say of a connection is an entry of the book.
LEMMA BookType == StoreTypeOK => \A c \in ConnIds : Book(c) \in Entries \cup {NoRow}
<1> SUFFICES ASSUME StoreTypeOK, NEW c \in ConnIds
             PROVE  Book(c) \in Entries \cup {NoRow}
  OBVIOUS
<1>1. CASE Exists(c)
  <2>1. conn[c] \in ConnRow
    BY <1>1 DEF StoreTypeOK, Exists
  <2>2. PubOf[conn[c].key] \in Pubkeys
    BY <2>1, StoreAssumption DEF ConnRow
  <2> QED
    BY <1>1, <2>1, <2>2 DEF Book, Entries, ConnRow
<1>2. CASE ~ Exists(c)
  BY <1>2 DEF Book
<1> QED
  BY <1>1, <1>2

\* A step that neither asks, looks nor acts is the operator's: whatever it
\* does to the tables is a change of the book.
LEMMA GovernStep ==
  ASSUME StoreTypeOK', UNCHANGED <<req, snap, performed>>
  PROVE  Authority!Govern
<1>1. (\A c \in ConnIds : Book(c) \in Entries \cup {NoRow})'
  BY BookType, PTL
<1>2. Books' \in [ConnIds -> Entries \cup {NoRow}]
  BY <1>1 DEF Books
<1>3. Asks' = Asks /\ Views' = Views
  BY DEF Asks, Views, Wanted
<1> QED
  BY <1>2, <1>3 DEF Authority!Govern, Authority!Entry, Books, Asks, Views, Entries

\* A received request is a question that was not asked before.
LEMMA AskStep ==
  ASSUME TypeOK, ViewInv, NEW r \in Reqs, Receive(r)
  PROVE  Authority!Ask(r)
<1>1. req[r] = NoReq
  BY DEF Receive, ViewInv
<1>2. PICK q \in RpcMenu : req' = [req EXCEPT ![r] = q]
  BY DEF Receive
<1>3. q \in Request /\ q # NoReq
  BY <1>2, RpcAssumption
<1> DEFINE asked == [client |-> q.client, signer |-> q.signer, want |-> WantedBy(q)]
<1>4. asked \in [client : Clients, signer : Pubkeys, want : Wants]
  BY <1>2, <1>3 DEF Request, Wants
<1>5. Asks[r] = NoRow /\ Asks' = [Asks EXCEPT ![r] = asked]
  BY <1>1, <1>2, <1>3 DEF Asks, Wanted, TypeOK, RpcTypeOK
<1>6. Books' = Books /\ Views' = Views /\ performed' = performed
  BY DEF Receive, db, Books, Book, Exists, Views
<1> HIDE DEF asked
<1> QED
  BY <1>4, <1>5, <1>6 DEF Authority!Ask, Authority!Question, Books, Asks, Views, Wants

\* Resolving a connection is the one look that a request takes.
LEMMA LookStep ==
  ASSUME TypeOK, ViewInv, NEW r \in Reqs, Lookup(r) \/ PairLookup(r),
         NEW c \in Newest(Live(r)), TakeSnapshot(r, c)
  PROVE  Authority!Look(r)
<1>0. StoreTypeOK /\ RpcTypeOK
  BY DEF TypeOK
<1>1. /\ c \in ConnIds
      /\ Exists(c)
      /\ conn[c].client = req[r].client
      /\ conn[c].status \in {"ACTIVE", "PENDING"}
      /\ PubOf[conn[c].key] = req[r].signer
  BY DEF Newest, Live, LiveFor
<1>2. snap[r] = NoSnap /\ req[r] \in Request
  BY <1>0 DEF Lookup, PairLookup, ViewInv, RpcTypeOK
<1>3. req[r] \in RpcMenu /\ req[r] # NoReq
  BY <1>2, RpcAssumption DEF ViewInv
<1>4. /\ Asks[r].client = req[r].client
      /\ Asks[r].signer = req[r].signer
      /\ Asks[r] # NoRow
  <2>1. [client |-> req[r].client, signer |-> req[r].signer, want |-> Wanted(r)]
          \in [client : Clients, signer : Pubkeys, want : Wants]
    BY <1>2, <1>3 DEF Request, Wants, Wanted
  <2> QED
    BY <1>3, <2>1, AuthorityAssumption DEF Asks, Wants
<1>5. /\ Books[c] # NoRow
      /\ Books[c].open
      /\ Books[c].client = req[r].client
      /\ Books[c].signer = req[r].signer
      /\ Books[c].grants = Grants(c)
  <2>1. Book(c) = [client |-> conn[c].client, signer |-> PubOf[conn[c].key],
                   open |-> TRUE, grants |-> Grants(c)]
    <3>1. (conn[c].status # "REVOKED") = TRUE
      BY <1>1
    <3> QED
      BY <1>1, <3>1 DEF Book, Grants
  <2>2. Book(c) \in Entries
    <3>1. conn[c] \in ConnRow /\ PubOf[conn[c].key] \in Pubkeys
      BY <1>0, <1>1, StoreAssumption DEF StoreTypeOK, Exists, ConnRow
    <3> QED
      BY <2>1, <3>1 DEF Entries, ConnRow, Grants
  <2>3. Book(c) # NoRow
    BY <2>2, AuthorityAssumption DEF Entries
  <2>4. Book(c).open
    BY <1>1, <2>1
  <2> QED
    BY <1>1, <2>1, <2>3, <2>4 DEF Books
<1>6. Views[r] = NoRow
  BY <1>2 DEF Views
<1>7. Views' = [Views EXCEPT ![r] = Grants(c)]
  <2>1. /\ snap'[r].perms = Grants(c)
        /\ \A s \in Reqs : s # r => snap'[s] = snap[s]
    BY <1>0 DEF TakeSnapshot, RpcTypeOK
  <2>2. snap'[r] # NoSnap
    BY <1>0, SnapshotIsOwn
  <2> QED
    BY <2>1, <2>2 DEF Views
<1>8. Books' = Books /\ Asks' = Asks /\ performed' = performed
  BY DEF Lookup, PairLookup, db, Books, Book, Exists, Asks, Wanted
<1>9. Authority!Look(r) <=>
        /\ Asks[r] # NoRow
        /\ Views[r] = NoRow
        /\ \E d \in ConnIds :
             /\ Books[d] # NoRow
             /\ Books[d].open
             /\ Books[d].client = Asks[r].client
             /\ Books[d].signer = Asks[r].signer
             /\ Views' = [Views EXCEPT ![r] = Books[d].grants]
        /\ UNCHANGED <<Books, Asks, performed>>
  BY Zenon DEF Authority!Look, Books, Asks, Views
<1> QED
  BY <1>1, <1>4, <1>5, <1>6, <1>7, <1>8, <1>9

\* Signing, encrypting or decrypting is the one act that a request's own view
\* covers.
LEMMA ActStep ==
  ASSUME TypeOK, ViewInv, NEW r \in Reqs, ServePerform(r)
  PROVE  Authority!Act(r)
<1>1. snap[r] \in Snapshot /\ req[r] \in Request
  BY DEF TypeOK, RpcTypeOK, ServePerform
<1>2. snap[r] # NoSnap /\ req[r] # NoReq /\ r \notin performed
  BY <1>1, RpcAssumption DEF ServePerform, ViewInv
<1>3. Views[r] = snap[r].perms /\ Views[r] # NoRow
  BY <1>1, <1>2, AuthorityAssumption DEF Views, Snapshot
<1>4. Asks[r].want = Wanted(r)
  BY <1>2 DEF Asks
<1>5. Permits(Views[r], Asks[r].want)
  BY <1>3, <1>4 DEF ServePerform, Performs
<1>6. Books' = Books /\ Asks' = Asks /\ Views' = Views /\ performed' = performed \cup {r}
  BY DEF ServePerform, db, Books, Book, Exists, Asks, Wanted, Views
<1> QED
  BY <1>2, <1>3, <1>5, <1>6 DEF Authority!Act, Books, Asks, Views

\* Every step of a request is one of the four.
LEMMA RequestRefines ==
  ASSUME TypeOK, TypeOK', ViewInv, NEW r \in Reqs, Client(r)
  PROVE  Authority!Next
<1>1. CASE Receive(r)
  BY <1>1, AskStep DEF Authority!Next
<1>2. CASE /\ Lookup(r) \/ PairLookup(r)
           /\ \E c \in Newest(Live(r)) : TakeSnapshot(r, c)
  BY <1>2, LookStep DEF Authority!Next
<1>3. CASE ServePerform(r)
  BY <1>3, ActStep DEF Authority!Next
<1>4. CASE UNCHANGED <<req, snap, performed>>
  BY <1>4, GovernStep DEF TypeOK, Authority!Next
<1> QED
  BY <1>1, <1>2, <1>3, <1>4
  DEF Client, Handle, Lookup, Pair, PairInsert, PairSeed, PairRefetch, PairLookup, ServeConnect,
      ServeOther, Activate, Record, Touch, Queue, Log, Publish

\* The bunker implements the abstract authority over keys: each step of it is
\* one of its steps, or changes nothing it can see.
THEOREM BunkerImplementsAuthority == Spec => ImplementsAuthority
<1>1. Init => Authority!Init
  BY DEF Init, StoreInit, RpcInit, Authority!Init, Book, Exists
<1>2. TypeOK /\ TypeOK' /\ ViewInv /\ [Next]_vars => [Authority!Next]_(Authority!vars)
  <2> SUFFICES ASSUME TypeOK, TypeOK', ViewInv, [Next]_vars
               PROVE  Authority!Next \/ UNCHANGED Authority!vars
    OBVIOUS
  <2>1. CASE (\E e \in Calls : Operator(e)) \/ Expire \/ Restart
    <3>1. UNCHANGED <<req, snap, performed>>
      BY <2>1 DEF Operator, Expire, Restart, rpcVars
    <3> QED
      BY <3>1, GovernStep DEF TypeOK, Authority!Next
  <2>2. CASE UNCHANGED vars
    BY <2>2, GovernStep DEF TypeOK, vars, rpcVars, Authority!Next
  <2> QED
    BY <2>1, <2>2, RequestRefines DEF Next
<1> QED
  BY <1>1, <1>2, TypeCorrect, ViewInvAlways, PTL DEF Spec, ImplementsAuthority, Authority!Spec
==============================================================================
