------------------------------- MODULE MCBunker -------------------------------
(***************************************************************************)
(* Small instances of Bunker.  A run picks the requests and the calls that *)
(* its question needs: the menus below are sets of them.                   *)
(***************************************************************************)
EXTENDS Bunker, TLC

CONSTANTS u1, u2, k1, k2, k3, k4, p1, p2, c1, c2, s1, s2

Sign(n) == [method |-> "sign_event", kind |-> n]
AnySign == Sign(NoKind)
Decrypt == [method |-> "nip44_decrypt", kind |-> NoKind]

\* Kinds above 7 stand for those an INTEGER column cannot hold.
MCMaxKind == 7
MCPerms == {Sign(n) : n \in {0, 1, 3, 4, 7, 8}} \cup {AnySign, Decrypt}
MCPermLists ==
  {<<>>, <<Sign(1)>>, <<AnySign>>, <<Decrypt>>, <<Sign(1), Decrypt>>, <<Sign(8)>>}

\* One operator with one key, or two operators of whom each has the same nsec
\* imported (one of them may do so twice, as k1 and k4) and one has a second.
OneOwner == (k1 :> u1)
OnePub == (k1 :> p1)
TwoOwners == (k1 :> u1) @@ (k2 :> u2) @@ (k3 :> u1) @@ (k4 :> u1)
TwoPubs == (k1 :> p1) @@ (k2 :> p1) @@ (k3 :> p2) @@ (k4 :> p1)

Connect(c, p, perms, s) ==
  [client |-> c, signer |-> p, method |-> "connect", kind |-> NoKind,
   wellFormed |-> TRUE, perms |-> perms, secret |-> s]
Ask(c, p, m, n, ok) ==
  [client |-> c, signer |-> p, method |-> m, kind |-> n, wellFormed |-> ok,
   perms |-> <<>>, secret |-> NoSecret]

Set(u, c, perms) == [op |-> "set", user |-> u, id |-> c, perms |-> perms]
Approve(u, c, perms) == [op |-> "approve", user |-> u, id |-> c, perms |-> perms]
Deny(u, c, perms) == [op |-> "deny", user |-> u, id |-> c, perms |-> perms]
Status(u, c, st) == [op |-> "status", user |-> u, id |-> c, status |-> st]
Remove(u, c) == [op |-> "delete", user |-> u, id |-> c]
Invitation(u, k, perms) == [op |-> "invite", user |-> u, key |-> k, perms |-> perms]
Create(u, k, c, perms, s) ==
  [op |-> "create", user |-> u, key |-> k, client |-> c, perms |-> perms, secret |-> s]
ImportKey(k) == [op |-> "addKey", user |-> KeyOwner[k], key |-> k]
DropKey(u, k) == [op |-> "deleteKey", user |-> u, key |-> k]

Symmetry == Permutations(Reqs) \cup Permutations(Calls)

\* govern: a client pairs and uses the key while its operator grants, revokes
\* and deletes.
GovernRpc ==
  {Connect(c1, p1, <<Decrypt>>, s1), Ask(c1, p1, "sign_event", 1, TRUE),
   Ask(c1, p1, "nip44_decrypt", NoKind, TRUE)}

GovernApi ==
  {Invitation(u1, k1, <<>>), Set(u1, 1, <<Sign(1)>>), Approve(u1, 1, <<>>),
   Status(u1, 1, "REVOKED"), Remove(u1, 1)}

\* progress: the same with fewer kinds of call, for the liveness properties.
ProgressApi == {Invitation(u1, k1, <<>>), Approve(u1, 1, <<>>), Deny(u1, 1, <<>>), Remove(u1, 1)}

\* create: connections made in the dashboard, with and without a list of
\* permissions, for a nostrconnect:// client or not, edited at once, while the
\* client signs kinds of every size.
CreateRpc ==
  {Connect(c1, p1, <<Sign(8)>>, NoSecret), Ask(c1, p1, "sign_event", 1, TRUE),
   Ask(c1, p1, "sign_event", 8, TRUE), Ask(c1, p1, "sign_event", NoKind, TRUE),
   Ask(c1, p1, "sign_event", 1, FALSE), Ask(c1, p1, "ping", NoKind, TRUE)}

CreateApi ==
  {Create(u1, k1, c1, <<>>, s1), Create(u1, k1, c1, <<AnySign>>, NoSecret),
   Set(u1, 1, <<>>), Set(u1, 1, <<Sign(8)>>), Approve(u1, 1, <<Sign(1)>>),
   Deny(u1, 1, <<Sign(8)>>), Deny(u1, 1, <<>>), Status(u1, 1, "ACTIVE"), Remove(u1, 1)}

\* tenants: two operators who imported the same nsec, keys that come and go,
\* and two clients that get hold of any invitation.
TenantsRpc ==
  {Connect(c1, p1, <<>>, s1), Connect(c2, p1, <<>>, s1), Connect(c1, p2, <<>>, s2),
   Ask(c1, p1, "sign_event", 1, TRUE), Ask(c1, p2, "sign_event", 1, TRUE)}

TenantsApi ==
  {Invitation(u1, k1, <<>>), Invitation(u2, k1, <<>>), Invitation(u1, k3, <<>>),
   Create(u2, k1, c1, <<>>, NoSecret), Create(u2, k2, c1, <<>>, NoSecret),
   ImportKey(k1), ImportKey(k4), DropKey(u1, k1), DropKey(u2, k1)}
==============================================================================
