----------------------------- MODULE Permissions -----------------------------
(***************************************************************************)
(* Permission descriptors and the check a signer makes against them        *)
(* (packages/shared-types/src/permissions.ts).  A descriptor names a       *)
(* NIP-46 method and, for sign_event, optionally one event kind.  The list *)
(* an API call or a connect request carries is a sequence of descriptors:  *)
(* it may name the same one twice.                                         *)
(***************************************************************************)
EXTENDS Integers, Sequences, FiniteSets, Functions

CONSTANTS
  Perms,      \* the descriptors in play, a set of [method, kind] records
  MaxKind     \* the largest kind the column connection_permissions.kind holds

\* SQL NULL, and TypeScript's undefined: the descriptor covers every kind.
NoKind == -1

GatedMethods ==
  {"sign_event", "nip04_encrypt", "nip04_decrypt", "nip44_encrypt", "nip44_decrypt"}

Nip46Methods ==
  GatedMethods \cup {"connect", "ping", "get_public_key", "switch_relays"}

Descriptor == [method : Nip46Methods, kind : Int]

\* What createConnection seeds when the operator chose nothing.
DEFAULT_CONNECTION_PERMISSIONS ==
  [i \in 1..5 |-> [method |-> "sign_event", kind |-> <<0, 1, 3, 4, 7>>[i]]]

ASSUME PermsAssumption ==
  /\ Perms \subseteq Descriptor
  /\ IsFiniteSet(Perms)
  /\ MaxKind \in Nat
  /\ Range(DEFAULT_CONNECTION_PERMISSIONS) \subseteq Perms

\* checkPermission: some granted descriptor has the method, and its kind is
\* absent or equal.
Permits(grants, want) ==
  \E g \in grants : g.method = want.method /\ g.kind \in {NoKind, want.kind}

\* A kind the INTEGER column can hold.  The client library rejects a statement
\* that names any other (a kind above MaxKind also stands for NaN, which
\* parsePermissionString yields for "sign_event:abc").
Storable(kind) == kind = NoKind \/ kind \in 0..MaxKind

AllStorable(list) == \A i \in DOMAIN list : Storable(list[i].kind)

\* How often a list names p.
Times(list, p) == Cardinality({i \in DOMAIN list : list[i] = p})
==============================================================================
