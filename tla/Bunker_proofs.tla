---------------------------- MODULE Bunker_proofs ----------------------------
(***************************************************************************)
(* Proofs about Bunker, for every value of its constants.                  *)
(***************************************************************************)
EXTENDS Bunker, FiniteSetTheorems, SequenceTheorems, TLAPS

-----------------------------------------------------------------------------
(* Statements keep the tables well typed.                                    *)

\* A list names a descriptor a natural number of times.
LEMMA TimesType ==
  ASSUME NEW list \in Seq(Perms), NEW p
  PROVE  Times(list, p) \in Nat
<1> DEFINE S == {i \in DOMAIN list : list[i] = p}
<1>1. DOMAIN list = 1..Len(list) /\ Len(list) \in Nat
  OBVIOUS
<1>2. IsFiniteSet(1..Len(list))
  BY <1>1, FS_Interval
<1>3. IsFiniteSet(S)
  BY <1>1, <1>2, FS_Subset
<1> QED
  BY <1>3, FS_CardinalityType DEF Times

\* The same for the one-element list a denied request queues.
LEMMA SingletonTimesType ==
  ASSUME NEW q, NEW p
  PROVE  Times(<<q>>, p) \in Nat
<1>1. <<q>> \in Seq({q})
  OBVIOUS
<1>2. DOMAIN <<q>> = 1..1
  OBVIOUS
<1>3. IsFiniteSet({i \in DOMAIN <<q>> : <<q>>[i] = p})
  BY <1>2, FS_Interval, FS_Subset
<1> QED
  BY <1>3, FS_CardinalityType DEF Times

\* The default permissions are a list of descriptors, and so is every seed.
LEMMA SeedType ==
  ASSUME NEW list \in PermLists
  PROVE  /\ DEFAULT_CONNECTION_PERMISSIONS \in Seq(Perms)
         /\ list \in Seq(Perms)
         /\ SeedOf(list) \in Seq(Perms)
<1>1. DEFAULT_CONNECTION_PERMISSIONS \in [1..5 -> Perms]
  <2>1. \A i \in 1..5 : DEFAULT_CONNECTION_PERMISSIONS[i] \in Range(DEFAULT_CONNECTION_PERMISSIONS)
    BY DEF DEFAULT_CONNECTION_PERMISSIONS, Range
  <2> QED
    BY <2>1, PermsAssumption DEF DEFAULT_CONNECTION_PERMISSIONS
<1>2. DEFAULT_CONNECTION_PERMISSIONS \in Seq(Perms)
  BY <1>1, SeqDef
<1>3. list \in Seq(Perms)
  BY InviteAssumption
<1> QED
  BY <1>2, <1>3 DEF SeedOf

\* An insert takes the next id, which is within the bound.
LEMMA InsertConnectionType ==
  ASSUME StoreTypeOK, NEW row \in ConnRow, InsertConnection(row)
  PROVE  StoreTypeOK' /\ created + 1 \in ConnIds
BY StoreAssumption DEF StoreTypeOK, InsertConnection, ConnIds

\* updateConnectionStatus keeps a row a row.
LEMMA UpdateConnectionStatusType ==
  ASSUME StoreTypeOK, NEW c \in ConnIds, Exists(c), NEW status \in Statuses,
         UpdateConnectionStatus(c, status)
  PROVE  StoreTypeOK'
<1>1. conn[c] \in ConnRow
  BY DEF StoreTypeOK, Exists
<1>2. [conn[c] EXCEPT !.status = status] \in ConnRow
  BY <1>1 DEF ConnRow
<1> QED
  BY <1>2 DEF StoreTypeOK, UpdateConnectionStatus

\* So does deleting rows, whichever they are.
LEMMA DeleteConnectionsType ==
  ASSUME StoreTypeOK, NEW S, DeleteConnections(S), keys' \subseteq Keys
  PROVE  StoreTypeOK'
BY DEF StoreTypeOK, DeleteConnections, NoRows

\* Deleting a key and, with it, its connections.
LEMMA DeleteKeyType ==
  ASSUME StoreTypeOK, NEW k, DeleteKey(k)
  PROVE  StoreTypeOK'
BY DeleteConnectionsType DEF StoreTypeOK, DeleteKey

\* createMany of granted rows counts rows.
LEMMA GrantRowsType ==
  ASSUME StoreTypeOK, NEW c \in ConnIds, NEW list \in Seq(Perms), GrantRows(c, list)
  PROVE  StoreTypeOK'
<1>1. [p \in Perms |-> granted[c][p] + Times(list, p)] \in [Perms -> Nat]
  BY TimesType DEF StoreTypeOK
<1> QED
  BY <1>1 DEF StoreTypeOK, GrantRows

\* createMany of pending rows counts rows.
LEMMA RequestPermissionsType ==
  ASSUME StoreTypeOK, NEW c \in ConnIds, NEW list \in Seq(Perms),
         RequestPermissions(c, list)
  PROVE  StoreTypeOK'
<1>1. \A p \in Perms : Added(c, list, p) \in Nat
  BY TimesType DEF Added
<1>2. [p \in Perms |-> pending[c][p] + Added(c, list, p)] \in [Perms -> Nat]
  BY <1>1 DEF StoreTypeOK
<1> QED
  BY <1>2 DEF StoreTypeOK, RequestPermissions

\* deleteMany of the granted rows.
LEMMA DeleteGrantedType ==
  ASSUME StoreTypeOK, NEW c \in ConnIds, DeleteGranted(c)
  PROVE  StoreTypeOK'
BY DEF StoreTypeOK, DeleteGranted, NoRows

\* deleteMany of pending rows.
LEMMA DeletePendingType ==
  ASSUME StoreTypeOK, NEW c \in ConnIds, NEW P, DeletePending(c, P)
  PROVE  StoreTypeOK'
BY DEF StoreTypeOK, DeletePending

\* updateMany, which turns pending rows into granted ones.
LEMMA ApprovePendingType ==
  ASSUME StoreTypeOK, NEW c \in ConnIds, NEW P, ApprovePending(c, P)
  PROVE  StoreTypeOK'
BY DEF StoreTypeOK, ApprovePending
-----------------------------------------------------------------------------
(* Type correctness of requests.                                             *)

\* Snapshots have their type.
LEMMA TakeSnapshotType ==
  ASSUME StoreTypeOK, NEW r \in Reqs, NEW c \in Newest(Live(r)),
         snap \in [Reqs -> Snapshot \cup {NoSnap}], TakeSnapshot(r, c)
  PROVE  /\ snap' \in [Reqs -> Snapshot \cup {NoSnap}]
         /\ snap'[r] \in Snapshot
         /\ \A s \in Reqs : s # r => snap'[s] = snap[s]
<1>1. c \in ConnIds /\ Exists(c)
  BY DEF Newest, Live, LiveFor
<1>2. conn[c] \in ConnRow
  BY <1>1 DEF StoreTypeOK, Exists
<1>3. Grants(c) \in SUBSET Perms
  BY DEF Grants
<1>4. [id |-> c, row |-> conn[c], perms |-> Grants(c)] \in Snapshot
  BY <1>1, <1>2, <1>3 DEF Snapshot
<1> QED
  BY <1>4 DEF TakeSnapshot

\* The row that a pairing inserts.
LEMMA NewRowType ==
  ASSUME NEW r \in Reqs, info[r] \in Invite, req[r] \in Request
  PROVE  NewRow(r) \in ConnRow /\ info[r].seed \in PermLists
BY DEF NewRow, ConnRow, Invite, Request, Statuses

\* The perms of a connect are a list of descriptors.
LEMMA RequestLists ==
  ASSUME NEW r \in Reqs, req[r] \in Request
  PROVE  req[r].perms \in Seq(Perms)
BY InviteAssumption DEF Request

\* A request that resolves its connection keeps all types.
LEMMA RpcResolveType ==
  ASSUME TypeOK, NEW r \in Reqs,
         Receive(r) \/ Lookup(r) \/ Pair(r) \/ PairInsert(r) \/ PairSeed(r)
           \/ PairRefetch(r) \/ PairLookup(r)
  PROVE  StoreTypeOK' /\ PendingSecretsTypeOK' /\ RpcTypeOK'
<1> USE DEF GoTo, RpcRunning, RpcEnded
<1>0. StoreTypeOK /\ PendingSecretsTypeOK /\ RpcTypeOK
  BY DEF TypeOK
<1>1. CASE Receive(r)
  <2>1. StoreTypeOK' /\ PendingSecretsTypeOK'
    BY <1>0, <1>1 DEF Receive, db, StoreTypeOK, PendingSecretsTypeOK
  <2>2. PICK q \in RpcMenu : req' = [req EXCEPT ![r] = q]
    BY <1>1 DEF Receive
  <2>3. q \in Request
    BY <2>2, RpcAssumption
  <2>4. RpcTypeOK'
    BY <1>0, <1>1, <2>2, <2>3 DEF Receive, RpcTypeOK
  <2> QED
    BY <2>1, <2>4
<1>2. CASE Lookup(r)
  <2>1. StoreTypeOK' /\ PendingSecretsTypeOK'
    BY <1>0, <1>2 DEF Lookup, db, StoreTypeOK, PendingSecretsTypeOK
  <2>2. CASE \E c \in Newest(Live(r)) : TakeSnapshot(r, c) /\ GoTo(r, "serve")
    <3>1. PICK c \in Newest(Live(r)) : TakeSnapshot(r, c)
      BY <2>2
    <3>2. snap \in [Reqs -> Snapshot \cup {NoSnap}]
      BY <1>0 DEF RpcTypeOK
    <3>3. /\ snap' \in [Reqs -> Snapshot \cup {NoSnap}]
          /\ snap'[r] \in Snapshot
          /\ \A s \in Reqs : s # r => snap'[s] = snap[s]
      BY <1>0, <3>1, <3>2, TakeSnapshotType
    <3> QED
      BY <1>0, <1>2, <2>1, <2>2, <3>3 DEF Lookup, RpcTypeOK
  <2>3. CASE GoTo(r, IF req[r].method = "connect" THEN "pair" ELSE "unknown") /\ UNCHANGED snap
    BY <1>0, <1>2, <2>1, <2>3 DEF Lookup, RpcTypeOK
  <2> QED
    BY <1>2, <2>2, <2>3 DEF Lookup
<1>3. CASE Pair(r)
  <2>1. StoreTypeOK' /\ PendingSecretsTypeOK'
    BY <1>0, <1>3 DEF Pair, ConsumePendingSecret, db, StoreTypeOK, PendingSecretsTypeOK
  <2>2. CASE GoTo(r, "unknown") /\ UNCHANGED info
    BY <1>0, <1>3, <2>1, <2>2 DEF Pair, RpcTypeOK
  <2>3. CASE \E i \in Matching(req[r].signer, req[r].secret) :
               info' = [info EXCEPT ![r] = i] /\ GoTo(r, "insert")
    <3>1. PICK i \in Matching(req[r].signer, req[r].secret) :
                 info' = [info EXCEPT ![r] = i] /\ GoTo(r, "insert")
      BY <2>3
    <3>2. i \in Invite
      BY <1>0 DEF Matching, PendingSecretsTypeOK
    <3> QED
      BY <1>0, <1>3, <2>1, <3>1, <3>2 DEF Pair, RpcTypeOK
  <2> QED
    BY <1>3, <2>2, <2>3 DEF Pair
<1>4. CASE PairInsert(r)
  <2>0. info[r] \in Invite /\ req[r] \in Request
    BY <1>0, <1>4 DEF PairInsert, RpcTypeOK
  <2>1. PendingSecretsTypeOK'
    BY <1>0, <1>4 DEF PairInsert, PendingSecretsTypeOK
  <2>2. CASE InsertConnection(NewRow(r)) /\ made' = [made EXCEPT ![r] = created + 1]
              /\ GoTo(r, "seed")
    <3>1. StoreTypeOK' /\ created + 1 \in ConnIds
      BY <1>0, <2>0, <2>2, NewRowType, InsertConnectionType
    <3>2. created + 1 \in 0..MaxConns
      BY <3>1, StoreAssumption DEF ConnIds
    <3> QED
      BY <1>0, <1>4, <2>1, <2>2, <3>1, <3>2 DEF PairInsert, RpcTypeOK
  <2>3. CASE GoTo(r, "unknown") /\ UNCHANGED <<db, made>>
    BY <1>0, <1>4, <2>1, <2>3 DEF PairInsert, RpcTypeOK, StoreTypeOK, db
  <2> QED
    BY <1>4, <2>2, <2>3 DEF PairInsert
<1>5. CASE PairSeed(r)
  <2>0. info[r] \in Invite /\ req[r] \in Request /\ made[r] \in ConnIds
    BY <1>0, <1>5 DEF PairSeed, RpcTypeOK
  <2>1. PendingSecretsTypeOK'
    BY <1>0, <1>5 DEF PairSeed, PendingSecretsTypeOK
  <2>2. StoreTypeOK'
    <3>1. CASE GrantRows(made[r], SeedOf(info[r].seed))
      BY <1>0, <2>0, <3>1, NewRowType, SeedType, GrantRowsType
    <3>2. CASE UNCHANGED db
      BY <1>0, <3>2 DEF StoreTypeOK, db
    <3> QED
      BY <1>5, <3>1, <3>2 DEF PairSeed
  <2>3. RpcTypeOK'
    BY <1>0, <1>5, <2>0 DEF PairSeed, RpcTypeOK
  <2> QED
    BY <2>1, <2>2, <2>3
<1>6. CASE PairRefetch(r)
  BY <1>0, <1>6 DEF PairRefetch, db, StoreTypeOK, PendingSecretsTypeOK, RpcTypeOK
<1>7. CASE PairLookup(r)
  <2>1. StoreTypeOK' /\ PendingSecretsTypeOK'
    BY <1>0, <1>7 DEF PairLookup, db, StoreTypeOK, PendingSecretsTypeOK
  <2>2. CASE \E c \in Newest(Live(r)) : TakeSnapshot(r, c) /\ GoTo(r, "serve")
    <3>1. PICK c \in Newest(Live(r)) : TakeSnapshot(r, c)
      BY <2>2
    <3>2. snap \in [Reqs -> Snapshot \cup {NoSnap}]
      BY <1>0 DEF RpcTypeOK
    <3>3. /\ snap' \in [Reqs -> Snapshot \cup {NoSnap}]
          /\ snap'[r] \in Snapshot
          /\ \A s \in Reqs : s # r => snap'[s] = snap[s]
      BY <1>0, <3>1, <3>2, TakeSnapshotType
    <3> QED
      BY <1>0, <1>7, <2>1, <2>2, <3>3 DEF PairLookup, RpcTypeOK
  <2>3. CASE GoTo(r, "unknown") /\ UNCHANGED snap
    BY <1>0, <1>7, <2>1, <2>3 DEF PairLookup, RpcTypeOK
  <2> QED
    BY <1>7, <2>2, <2>3 DEF PairLookup
<1> QED
  BY <1>1, <1>2, <1>3, <1>4, <1>5, <1>6, <1>7

\* A request that is served keeps all types.
LEMMA RpcServeType ==
  ASSUME TypeOK, NEW r \in Reqs,
         ServeConnect(r) \/ ServePerform(r) \/ ServeOther(r) \/ Activate(r) \/ Record(r)
           \/ Touch(r) \/ Queue(r) \/ Log(r) \/ Publish(r)
  PROVE  StoreTypeOK' /\ PendingSecretsTypeOK' /\ RpcTypeOK'
<1> USE DEF GoTo, RpcRunning, RpcEnded
<1>0. StoreTypeOK /\ PendingSecretsTypeOK /\ RpcTypeOK
  BY DEF TypeOK
<1>1. CASE ServeConnect(r)
  BY <1>0, <1>1 DEF ServeConnect, db, StoreTypeOK, PendingSecretsTypeOK, RpcTypeOK
<1>2. CASE ServePerform(r)
  BY <1>0, <1>2 DEF ServePerform, db, StoreTypeOK, PendingSecretsTypeOK, RpcTypeOK
<1>3. CASE ServeOther(r)
  BY <1>0, <1>3 DEF ServeOther, db, StoreTypeOK, PendingSecretsTypeOK, RpcTypeOK
<1>4. CASE Activate(r)
  <2>1. PendingSecretsTypeOK' /\ RpcTypeOK'
    BY <1>0, <1>4 DEF Activate, PendingSecretsTypeOK, RpcTypeOK
  <2>2. CASE Exists(snap[r].id) /\ UpdateConnectionStatus(snap[r].id, "ACTIVE")
    <3>1. snap[r].id \in ConnIds /\ "ACTIVE" \in Statuses
      BY <1>0, <1>4 DEF Activate, RpcTypeOK, Snapshot, Statuses
    <3> QED
      BY <1>0, <2>1, <2>2, <3>1, UpdateConnectionStatusType
  <2>3. CASE UNCHANGED db
    BY <1>0, <2>1, <2>3 DEF StoreTypeOK, db
  <2> QED
    BY <1>4, <2>2, <2>3 DEF Activate
<1>5. CASE Record(r)
  <2>1. PendingSecretsTypeOK' /\ RpcTypeOK'
    BY <1>0, <1>5 DEF Record, PendingSecretsTypeOK, RpcTypeOK
  <2>2. CASE RequestPermissions(snap[r].id, req[r].perms)
    <3>1. snap[r].id \in ConnIds /\ req[r].perms \in Seq(Perms)
      BY <1>0, <1>5, RequestLists DEF Record, RpcTypeOK, Snapshot
    <3> QED
      BY <1>0, <2>1, <2>2, <3>1, RequestPermissionsType
  <2>3. CASE UNCHANGED db
    BY <1>0, <2>1, <2>3 DEF StoreTypeOK, db
  <2> QED
    BY <1>5, <2>2, <2>3 DEF Record
<1>6. CASE Touch(r)
  BY <1>0, <1>6 DEF Touch, db, StoreTypeOK, PendingSecretsTypeOK, RpcTypeOK
<1>7. CASE Queue(r)
  <2>1. PendingSecretsTypeOK' /\ RpcTypeOK'
    BY <1>0, <1>7 DEF Queue, PendingSecretsTypeOK, RpcTypeOK
  <2>2. CASE RequestPermissions(snap[r].id, <<Wanted(r)>>)
    <3>1. snap[r].id \in ConnIds
      BY <1>0, <1>7 DEF Queue, RpcTypeOK, Snapshot
    <3>2. \A p \in Perms : Added(snap[r].id, <<Wanted(r)>>, p) \in Nat
      BY SingletonTimesType DEF Added
    <3>3. [p \in Perms |-> pending[snap[r].id][p] + Added(snap[r].id, <<Wanted(r)>>, p)]
            \in [Perms -> Nat]
      BY <1>0, <3>1, <3>2 DEF StoreTypeOK
    <3>4. StoreTypeOK'
      BY <1>0, <2>2, <3>1, <3>3 DEF StoreTypeOK, RequestPermissions
    <3> QED
      BY <2>1, <3>4
  <2>3. CASE UNCHANGED db
    BY <1>0, <2>1, <2>3 DEF StoreTypeOK, db
  <2> QED
    BY <1>7, <2>2, <2>3 DEF Queue
<1>8. CASE Log(r)
  BY <1>0, <1>8 DEF Log, db, StoreTypeOK, PendingSecretsTypeOK, RpcTypeOK
<1>9. CASE Publish(r)
  BY <1>0, <1>9 DEF Publish, db, StoreTypeOK, PendingSecretsTypeOK, RpcTypeOK
<1> QED
  BY <1>1, <1>2, <1>3, <1>4, <1>5, <1>6, <1>7, <1>8, <1>9
-----------------------------------------------------------------------------
(* Type correctness of calls.                                                *)

\* The fields of a call, by its op.
LEMMA CallFields ==
  ASSUME NEW q \in ApiCall
  PROVE  /\ q.user \in Users
         /\ q \in ConnectionCall => q.id \in ConnIds
         /\ q.op \in {"set", "approve", "deny", "status", "delete"} => q \in ConnectionCall
         /\ q.op \in {"set", "approve", "deny", "invite", "create"} => q.perms \in PermLists
         /\ q.op = "status" => q.status \in Statuses
         /\ q.op \in {"invite", "create", "addKey", "deleteKey"} => q.key \in Keys
         /\ q.op = "create" => q.client \in Clients /\ q.secret \in Secrets \cup {NoSecret}
<1>1. CASE q \in SetCall
  BY <1>1 DEF SetCall, ConnectionCall
<1>2. CASE q \in DecideCall
  BY <1>2 DEF DecideCall, ConnectionCall
<1>3. CASE q \in StatusCall
  BY <1>3 DEF StatusCall, ConnectionCall, Statuses
<1>4. CASE q \in DeleteCall
  BY <1>4 DEF DeleteCall, ConnectionCall
<1>5. CASE q \in InviteCall \ ConnectionCall
  BY <1>5 DEF InviteCall
<1>6. CASE q \in CreateCall \ ConnectionCall
  BY <1>6 DEF CreateCall
<1>7. CASE q \in KeyCall \ ConnectionCall
  BY <1>7 DEF KeyCall
<1> QED
  BY <1>1, <1>2, <1>3, <1>4, <1>5, <1>6, <1>7 DEF ApiCall, ConnectionCall

\* A call about a connection keeps all types.
LEMMA ApiConnectionType ==
  ASSUME TypeOK, NEW e \in Calls,
         Call(e) \/ Check(e) \/ SetClear(e) \/ SetDrop(e) \/ SetGrant(e) \/ Decide(e)
           \/ SetStatus(e) \/ Delete(e)
  PROVE  StoreTypeOK' /\ PendingSecretsTypeOK' /\ ApiTypeOK'
<1> USE DEF Step, Op, ApiRunning, ApiEnded
<1>0. StoreTypeOK /\ PendingSecretsTypeOK /\ ApiTypeOK
  BY DEF TypeOK
<1>1. CASE Call(e)
  <2>1. StoreTypeOK' /\ PendingSecretsTypeOK'
    BY <1>0, <1>1 DEF Call, db, StoreTypeOK, PendingSecretsTypeOK
  <2>2. PICK q \in ApiMenu :
          /\ call' = [call EXCEPT ![e] = q]
          /\ target' = [target EXCEPT ![e] = IF q \in ConnectionCall THEN q.id ELSE 0]
    BY <1>1 DEF Call
  <2>3. q \in ApiCall /\ (q \in ConnectionCall => q.id \in ConnIds)
    BY <2>2, ApiAssumption, CallFields
  <2>4. (IF q \in ConnectionCall THEN q.id ELSE 0) \in 0..MaxConns
    BY <2>3, StoreAssumption DEF ConnIds
  <2>5. ApiTypeOK'
    BY <1>0, <1>1, <2>2, <2>3, <2>4 DEF Call, ApiTypeOK
  <2> QED
    BY <2>1, <2>5
<1>2. CASE Check(e)
  <2>1. call[e] \in ApiCall
    BY <1>0, <1>2 DEF Check, ApiTypeOK
  <2>2. Op(e) \in {"set", "approve", "deny", "status", "delete"}
    BY <1>2 DEF Check, FirstStatement
  <2>3. target[e] \in ConnIds
    BY <1>0, <1>2, <2>1, <2>2, CallFields DEF Check, ApiTypeOK
  <2>4. StoreTypeOK' /\ PendingSecretsTypeOK'
    BY <1>0, <1>2 DEF Check, db, StoreTypeOK, PendingSecretsTypeOK
  <2>5. ApiTypeOK'
    BY <1>0, <1>2, <2>1, <2>2, <2>3 DEF Check, FirstStatement, ApiTypeOK
  <2> QED
    BY <2>4, <2>5
<1>3. CASE SetClear(e)
  <2>1. target[e] \in ConnIds
    BY <1>0, <1>3 DEF SetClear, ApiTypeOK
  <2>2. StoreTypeOK'
    BY <1>0, <1>3, <2>1, DeleteGrantedType DEF SetClear
  <2>3. PendingSecretsTypeOK' /\ ApiTypeOK'
    BY <1>0, <1>3 DEF SetClear, EndOfSet, PendingSecretsTypeOK, ApiTypeOK
  <2> QED
    BY <2>2, <2>3
<1>4. CASE SetDrop(e)
  <2>1. target[e] \in ConnIds
    BY <1>0, <1>4 DEF SetDrop, ApiTypeOK
  <2>2. StoreTypeOK'
    <3>1. CASE DeletePending(target[e], Range(call[e].perms))
      BY <1>0, <2>1, <3>1, DeletePendingType
    <3>2. CASE UNCHANGED db
      BY <1>0, <3>2 DEF db, StoreTypeOK
    <3> QED
      BY <1>4, <3>1, <3>2 DEF SetDrop
  <2>3. PendingSecretsTypeOK' /\ ApiTypeOK'
    BY <1>0, <1>4 DEF SetDrop, EndOfSet, PendingSecretsTypeOK, ApiTypeOK
  <2> QED
    BY <2>2, <2>3
<1>5. CASE SetGrant(e)
  <2>1. target[e] \in ConnIds /\ call[e].perms \in PermLists
    BY <1>0, <1>5, CallFields DEF SetGrant, ApiTypeOK
  <2>2. StoreTypeOK'
    <3>1. CASE GrantRows(target[e], call[e].perms)
      BY <1>0, <2>1, <3>1, SeedType, GrantRowsType
    <3>2. CASE UNCHANGED db
      BY <1>0, <3>2 DEF db, StoreTypeOK
    <3> QED
      BY <1>5, <3>1, <3>2 DEF SetGrant
  <2>3. PendingSecretsTypeOK' /\ ApiTypeOK'
    BY <1>0, <1>5 DEF SetGrant, EndOfSet, PendingSecretsTypeOK, ApiTypeOK
  <2> QED
    BY <2>2, <2>3
<1>6. CASE Decide(e)
  <2>1. target[e] \in ConnIds
    BY <1>0, <1>6 DEF Decide, ApiTypeOK
  <2>2. StoreTypeOK'
    <3>1. CASE ApprovePending(target[e], Chosen(e))
      BY <1>0, <2>1, <3>1, ApprovePendingType
    <3>2. CASE DeletePending(target[e], Chosen(e))
      BY <1>0, <2>1, <3>2, DeletePendingType
    <3>3. CASE UNCHANGED db
      BY <1>0, <3>3 DEF db, StoreTypeOK
    <3> QED
      BY <1>6, <3>1, <3>2, <3>3 DEF Decide
  <2>3. PendingSecretsTypeOK' /\ ApiTypeOK'
    BY <1>0, <1>6 DEF Decide, PendingSecretsTypeOK, ApiTypeOK
  <2> QED
    BY <2>2, <2>3
<1>7. CASE SetStatus(e)
  <2>1. /\ target[e] \in ConnIds
        /\ (IF Op(e) = "create" THEN "ACTIVE" ELSE call[e].status) \in Statuses
    BY <1>0, <1>7, CallFields DEF SetStatus, ApiTypeOK, Statuses
  <2>2. StoreTypeOK'
    <3>1. CASE Exists(target[e]) /\ UpdateConnectionStatus(target[e],
                 IF Op(e) = "create" THEN "ACTIVE" ELSE call[e].status)
      BY <1>0, <2>1, <3>1, UpdateConnectionStatusType
    <3>2. CASE UNCHANGED db
      BY <1>0, <3>2 DEF db, StoreTypeOK
    <3> QED
      BY <1>7, <3>1, <3>2 DEF SetStatus
  <2>3. PendingSecretsTypeOK' /\ ApiTypeOK'
    BY <1>0, <1>7 DEF SetStatus, PendingSecretsTypeOK, ApiTypeOK
  <2> QED
    BY <2>2, <2>3
<1>8. CASE Delete(e)
  <2>1. StoreTypeOK'
    <3>1. keys' \subseteq Keys
      BY <1>0, <1>8 DEF Delete, StoreTypeOK
    <3> QED
      BY <1>0, <1>8, <3>1, DeleteConnectionsType DEF Delete
  <2>2. PendingSecretsTypeOK' /\ ApiTypeOK'
    BY <1>0, <1>8 DEF Delete, PendingSecretsTypeOK, ApiTypeOK
  <2> QED
    BY <2>1, <2>2
<1> QED
  BY <1>1, <1>2, <1>3, <1>4, <1>5, <1>6, <1>7, <1>8

\* A call that creates a connection, invites, adds or deletes a key does too.
LEMMA ApiCreateType ==
  ASSUME TypeOK, NEW e \in Calls,
         CreateInsert(e) \/ CreateSeed(e) \/ CreateRefetch(e) \/ CreateRespond(e)
           \/ CheckKey(e) \/ RegisterInvite(e) \/ AddKey(e) \/ CountConnections(e)
           \/ RemoveKey(e)
  PROVE  StoreTypeOK' /\ PendingSecretsTypeOK' /\ ApiTypeOK'
<1> USE DEF Step, Op, ApiRunning, ApiEnded
<1>0. StoreTypeOK /\ PendingSecretsTypeOK /\ ApiTypeOK
  BY DEF TypeOK
<1>1. CASE CreateInsert(e)
  <2>0. call[e] \in ApiCall /\ call[e].op = "create"
    BY <1>0, <1>1 DEF CreateInsert, ApiTypeOK
  <2>1. RowOf(e) \in ConnRow
    BY <2>0, CallFields DEF RowOf, ConnRow, Statuses
  <2>2. PendingSecretsTypeOK'
    BY <1>0, <1>1 DEF CreateInsert, PendingSecretsTypeOK
  <2>3. CASE InsertConnection(RowOf(e)) /\ target' = [target EXCEPT ![e] = created + 1]
               /\ Step(e, "seed")
    <3>1. StoreTypeOK' /\ created + 1 \in ConnIds
      BY <1>0, <2>1, <2>3, InsertConnectionType
    <3>2. created + 1 \in 0..MaxConns
      BY <3>1, StoreAssumption DEF ConnIds
    <3>3. ApiTypeOK'
      BY <1>0, <1>1, <2>0, <2>3, <3>1, <3>2 DEF CreateInsert, ApiTypeOK
    <3> QED
      BY <2>2, <3>1, <3>3
  <2>4. CASE Step(e, "failed") /\ UNCHANGED <<db, target>>
    <3>1. StoreTypeOK'
      BY <1>0, <2>4 DEF db, StoreTypeOK
    <3>2. ApiTypeOK'
      BY <1>0, <1>1, <2>4 DEF CreateInsert, ApiTypeOK
    <3> QED
      BY <2>2, <3>1, <3>2
  <2> QED
    BY <1>1, <2>3, <2>4 DEF CreateInsert
<1>2. CASE CreateSeed(e)
  <2>1. target[e] \in ConnIds
    BY <1>0, <1>2 DEF CreateSeed, ApiTypeOK
  <2>2. DEFAULT_CONNECTION_PERMISSIONS \in Seq(Perms)
    BY SeedType, InviteAssumption
  <2>3. StoreTypeOK'
    <3>1. CASE GrantRows(target[e], DEFAULT_CONNECTION_PERMISSIONS)
      BY <1>0, <2>1, <2>2, <3>1, GrantRowsType
    <3>2. CASE UNCHANGED db
      BY <1>0, <3>2 DEF db, StoreTypeOK
    <3> QED
      BY <1>2, <3>1, <3>2 DEF CreateSeed
  <2>4. PendingSecretsTypeOK' /\ ApiTypeOK'
    BY <1>0, <1>2 DEF CreateSeed, PendingSecretsTypeOK, ApiTypeOK
  <2> QED
    BY <2>3, <2>4
<1>3. CASE CreateRefetch(e)
  BY <1>0, <1>3 DEF CreateRefetch, db, StoreTypeOK, PendingSecretsTypeOK, ApiTypeOK
<1>4. CASE CreateRespond(e)
  BY <1>0, <1>4 DEF CreateRespond, db, StoreTypeOK, PendingSecretsTypeOK, ApiTypeOK
<1>5. CASE CheckKey(e)
  BY <1>0, <1>5 DEF CheckKey, db, StoreTypeOK, PendingSecretsTypeOK, ApiTypeOK
<1>6. CASE RegisterInvite(e)
  <2>1. call[e] \in ApiCall /\ call[e].op = "invite"
    BY <1>0, <1>6 DEF RegisterInvite, ApiTypeOK
  <2>2. PICK s \in Secrets :
          RegisterPendingSecret(s,
            [signer |-> PubOf[call[e].key], secret |-> s, user |-> call[e].user,
             key |-> call[e].key, seed |-> call[e].perms])
    BY <1>6 DEF RegisterInvite
  <2>3. [signer |-> PubOf[call[e].key], secret |-> s, user |-> call[e].user,
         key |-> call[e].key, seed |-> call[e].perms] \in Invite
    BY <2>1, <2>2, CallFields, StoreAssumption DEF Invite
  <2>4. PendingSecretsTypeOK'
    BY <1>0, <2>2, <2>3 DEF RegisterPendingSecret, PendingSecretsTypeOK
  <2>5. StoreTypeOK' /\ ApiTypeOK'
    BY <1>0, <1>6 DEF RegisterInvite, db, StoreTypeOK, ApiTypeOK
  <2> QED
    BY <2>4, <2>5
<1>7. CASE AddKey(e)
  <2>1. call[e] \in ApiCall /\ call[e].op = "addKey"
    BY <1>0, <1>7 DEF AddKey, ApiTypeOK
  <2>2. call[e].key \in Keys
    BY <2>1, CallFields
  <2>3. StoreTypeOK' /\ PendingSecretsTypeOK' /\ ApiTypeOK'
    BY <1>0, <1>7, <2>2 DEF AddKey, InsertKey, db, StoreTypeOK, PendingSecretsTypeOK, ApiTypeOK
  <2> QED
    BY <2>3
<1>8. CASE CountConnections(e)
  BY <1>0, <1>8 DEF CountConnections, db, StoreTypeOK, PendingSecretsTypeOK, ApiTypeOK
<1>9. CASE RemoveKey(e)
  <2>1. StoreTypeOK'
    BY <1>0, <1>9, DeleteKeyType DEF RemoveKey
  <2>2. PendingSecretsTypeOK' /\ ApiTypeOK'
    BY <1>0, <1>9 DEF RemoveKey, PendingSecretsTypeOK, ApiTypeOK
  <2> QED
    BY <2>1, <2>2
<1> QED
  BY <1>1, <1>2, <1>3, <1>4, <1>5, <1>6, <1>7, <1>8, <1>9

\* Type correctness of the whole: every variable keeps its type, and a handler
\* that is past its lookup has the snapshot, invitation or id its code uses.
THEOREM TypeCorrect == Spec => []TypeOK
<1>1. Init => TypeOK
  BY StoreAssumption, RestartAssumption
  DEF Init, TypeOK, StoreInit, StoreTypeOK, NoRows, PendingSecretsInit, PendingSecretsTypeOK,
      RpcInit, RpcTypeOK, ApiInit, ApiTypeOK
<1>2. TypeOK /\ [Next]_vars => TypeOK'
  <2> SUFFICES ASSUME TypeOK, [Next]_vars PROVE TypeOK'
    OBVIOUS
  <2>1. ASSUME NEW r \in Reqs, Client(r) PROVE TypeOK'
    <3>1. StoreTypeOK' /\ PendingSecretsTypeOK' /\ RpcTypeOK'
      BY <2>1, RpcResolveType, RpcServeType DEF Client, Handle
    <3> QED
      BY <2>1, <3>1 DEF Client, TypeOK, ApiTypeOK, apiVars
  <2>2. ASSUME NEW e \in Calls, Operator(e) PROVE TypeOK'
    <3>1. StoreTypeOK' /\ PendingSecretsTypeOK' /\ ApiTypeOK'
      BY <2>2, ApiConnectionType, ApiCreateType DEF Operator, Process
    <3> QED
      BY <2>2, <3>1 DEF Operator, TypeOK, RpcTypeOK, rpcVars
  <2>3. CASE Expire
    BY <2>3 DEF Expire, ExpireSecret, TypeOK, PendingSecretsTypeOK, StoreTypeOK, RpcTypeOK,
                ApiTypeOK, db, rpcVars, apiVars
  <2>4. CASE Restart
    <3>1. StoreTypeOK' /\ PendingSecretsTypeOK'
      BY <2>4 DEF Restart, ForgetPendingSecrets, TypeOK, StoreTypeOK, PendingSecretsTypeOK, db
    <3>2. RpcTypeOK'
      BY <2>4 DEF Restart, TypeOK, RpcTypeOK, RpcRunning, RpcEnded
    <3>3. ApiTypeOK'
      BY <2>4 DEF Restart, TypeOK, ApiTypeOK, ApiRunning, ApiEnded
    <3> QED
      BY <2>4, <3>1, <3>2, <3>3, RestartAssumption DEF Restart, TypeOK
  <2>5. CASE UNCHANGED vars
    BY <2>5 DEF vars, TypeOK, StoreTypeOK, PendingSecretsTypeOK, RpcTypeOK, ApiTypeOK, db,
                rpcVars, apiVars
  <2> QED
    BY <2>1, <2>2, <2>3, <2>4, <2>5 DEF Next
<1> QED
  BY <1>1, <1>2, PTL DEF Spec
==============================================================================
