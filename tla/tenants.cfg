CONSTANTS
  u1 = u1  u2 = u2  k1 = k1  k2 = k2  k3 = k3  k4 = k4  p1 = p1  p2 = p2
  c1 = c1  c2 = c2  s1 = s1  s2 = s2
  NoSecret = NoSecret  NoRow = NoRow  NoInvite = NoInvite
  NoReq = NoReq  NoSnap = NoSnap  NoCall = NoCall
  Perms <- MCPerms
  MaxKind <- MCMaxKind
  PermLists <- MCPermLists
  Users = {u1, u2}
  Keys = {k1, k2, k3, k4}
  KeyOwner <- TwoOwners
  Pubkeys = {p1, p2}
  PubOf <- TwoPubs
  Clients = {c1, c2}
  Secrets = {s1, s2}
  MaxConns = 3
  RedisAnswers = TRUE
  MaxRestarts = 0
  Reqs = {r1, r2}
  Calls = {e1, e2}
  RpcMenu <- TenantsRpc
  ApiMenu <- TenantsApi
SPECIFICATION Spec
SYMMETRY Symmetry
INVARIANTS
  SecretPairsOnce
  OwnKeysOnly
  ServedByAddressedKey
\* Clients and operators may stop asking.
CHECK_DEADLOCK FALSE
