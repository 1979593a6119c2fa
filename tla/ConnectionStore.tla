--------------------------- MODULE ConnectionStore ---------------------------
(***************************************************************************)
(* The database tables behind a bunker (apps/server/prisma/schema.prisma)  *)
(* and the statements apps/server/src/connections/connections.service.ts   *)
(* runs on them.  Prisma awaits every statement, so each one is atomic and *)
(* anything may happen between two of them: an operator of this module is  *)
(* ONE statement, and the handlers in the modules above are sequences of   *)
(* them.  A Can... predicate says whether the statement succeeds.          *)
(***************************************************************************)
EXTENDS Permissions

CONSTANTS
  Users,      \* operators with an account
  Keys,       \* ids of nsec_keys rows
  KeyOwner,   \* [Keys -> Users]
  Pubkeys,    \* signer public keys
  PubOf,      \* [Keys -> Pubkeys]; two users may import the same nsec
  Clients,    \* client public keys
  Secrets,    \* the secrets bunker:// and nostrconnect:// URIs carry
  NoSecret,
  NoRow,      \* no such row
  MaxConns    \* bound: connection rows ever created

ConnIds == 1..MaxConns

Statuses == {"PENDING", "ACTIVE", "REVOKED"}

ConnRow == [user : Users, key : Keys, client : Clients, status : Statuses,
            secret : Secrets \cup {NoSecret}]

ASSUME StoreAssumption ==
  /\ KeyOwner \in [Keys -> Users]
  /\ PubOf \in [Keys -> Pubkeys]
  /\ MaxConns \in Nat
  /\ NoSecret \notin Secrets
  /\ NoRow \notin ConnRow

VARIABLES
  keys,       \* the nsec_keys rows that exist
  conn,       \* bunker_connections: id -> row or NoRow; ids grow with createdAt
  created,    \* how many connection rows were ever inserted
  granted,    \* id -> descriptor -> number of rows with allowed = true
  pending     \* id -> descriptor -> number of rows with allowed = false

db == <<keys, conn, created, granted, pending>>

NoRows == [p \in Perms |-> 0]

StoreTypeOK ==
  /\ keys \subseteq Keys
  /\ conn \in [ConnIds -> ConnRow \cup {NoRow}]
  /\ created \in 0..MaxConns
  /\ granted \in [ConnIds -> [Perms -> Nat]]
  /\ pending \in [ConnIds -> [Perms -> Nat]]

\* @@unique([userId, publicKey]) of NsecKey.
KeysUnique(K) ==
  \A k, l \in K : KeyOwner[k] = KeyOwner[l] /\ PubOf[k] = PubOf[l] => k = l

\* A database with keys and no connection yet.
StoreInit ==
  /\ keys \in {K \in SUBSET Keys : KeysUnique(K)}
  /\ conn = [c \in ConnIds |-> NoRow]
  /\ created = 0
  /\ granted = [c \in ConnIds |-> NoRows]
  /\ pending = [c \in ConnIds |-> NoRows]

Exists(c) == conn[c] # NoRow

Grants(c) == {p \in Perms : granted[c][p] > 0}

Stored(c, p) == granted[c][p] + pending[c][p]

\* Mutant: a revoked connection is found.
LiveForRevoked(client, signer) ==
  {c \in ConnIds : Exists(c) /\ conn[c].client = client /\ PubOf[conn[c].key] = signer}

\* Mutant: any connection of the client will do.
LiveForAnySigner(client, signer) ==
  {c \in ConnIds : /\ Exists(c)
                   /\ conn[c].client = client
                   /\ conn[c].status \in {"ACTIVE", "PENDING"}}

\* findByClientAndSigner: the newest live connection of the client with a key
\* whose public key is the signer's, whoever owns it.
LiveFor(client, signer) ==
  {c \in ConnIds : /\ Exists(c)
                   /\ conn[c].client = client
                   /\ conn[c].status \in {"ACTIVE", "PENDING"}
                   /\ PubOf[conn[c].key] = signer}

\* orderBy createdAt desc, first: at most one element.
Newest(S) == {c \in S : \A d \in S : d <= c}
-----------------------------------------------------------------------------
(* bunker_connections *)

\* The foreign key to nsec_keys and @@unique([clientPubkey, nsecKeyId]).
CanInsertConnection(row) ==
  /\ row.key \in keys
  /\ \A c \in ConnIds : Exists(c) => conn[c].client # row.client \/ conn[c].key # row.key

InsertConnection(row) ==
  /\ created < MaxConns
  /\ created' = created + 1
  /\ conn' = [conn EXCEPT ![created + 1] = row]
  /\ UNCHANGED <<keys, granted, pending>>

\* updateConnectionStatus is unconditional: it does not look at the old status.
UpdateConnectionStatus(c, status) ==
  /\ conn' = [conn EXCEPT ![c].status = status]
  /\ UNCHANGED <<keys, created, granted, pending>>

\* Deleting a connection, or a key, cascades to the rows below it.
DeleteConnections(S) ==
  /\ conn' = [c \in ConnIds |-> IF c \in S THEN NoRow ELSE conn[c]]
  /\ granted' = [c \in ConnIds |-> IF c \in S THEN NoRows ELSE granted[c]]
  /\ pending' = [c \in ConnIds |-> IF c \in S THEN NoRows ELSE pending[c]]
  /\ UNCHANGED created

DeleteKey(k) ==
  /\ keys' = keys \ {k}
  /\ DeleteConnections({c \in ConnIds : Exists(c) /\ conn[c].key = k})

InsertKey(k) ==
  /\ keys' = keys \cup {k}
  /\ UNCHANGED <<conn, created, granted, pending>>
-----------------------------------------------------------------------------
(* connection_permissions, with @@unique([connectionId, method, kind]).      *)
(* Postgres holds two NULL kinds for distinct, so the index never stops a    *)
(* second row for a descriptor without a kind.                               *)

\* createMany of granted rows, in one INSERT: one clash and none is stored.
CanGrant(c, list) ==
  /\ Exists(c)
  /\ AllStorable(list)
  /\ \A p \in Range(list) : p.kind # NoKind => Times(list, p) = 1 /\ Stored(c, p) = 0

GrantRows(c, list) ==
  /\ granted' = [granted EXCEPT ![c] = [p \in Perms |-> granted[c][p] + Times(list, p)]]
  /\ UNCHANGED <<keys, conn, created, pending>>

\* createMany of pending rows with skipDuplicates (ON CONFLICT DO NOTHING).
CanRequest(c, list) == Exists(c) /\ AllStorable(list)

Added(c, list, p) ==
  IF p.kind = NoKind THEN Times(list, p)
  ELSE IF p \in Range(list) /\ Stored(c, p) = 0 THEN 1 ELSE 0

\* Mutant: the rows are stored with allowed = true, the column's default.
RequestPermissionsAllowed(c, list) ==
  /\ granted' = [granted EXCEPT ![c] = [p \in Perms |-> granted[c][p] + Added(c, list, p)]]
  /\ UNCHANGED <<keys, conn, created, pending>>

RequestPermissions(c, list) ==
  /\ pending' = [pending EXCEPT ![c] = [p \in Perms |-> pending[c][p] + Added(c, list, p)]]
  /\ UNCHANGED <<keys, conn, created, granted>>

DeleteGranted(c) ==
  /\ granted' = [granted EXCEPT ![c] = NoRows]
  /\ UNCHANGED <<keys, conn, created, pending>>

\* deleteMany and updateMany of the pending rows in P.
DeletePending(c, P) ==
  /\ pending' = [pending EXCEPT ![c] = [p \in Perms |-> IF p \in P THEN 0 ELSE pending[c][p]]]
  /\ UNCHANGED <<keys, conn, created, granted>>

ApprovePending(c, P) ==
  /\ granted' = [granted EXCEPT ![c] =
       [p \in Perms |-> granted[c][p] + (IF p \in P THEN pending[c][p] ELSE 0)]]
  /\ pending' = [pending EXCEPT ![c] = [p \in Perms |-> IF p \in P THEN 0 ELSE pending[c][p]]]
  /\ UNCHANGED <<keys, conn, created>>
==============================================================================
