CONSTANTS
  u1 = u1  u2 = u2  k1 = k1  k2 = k2  k3 = k3  k4 = k4  p1 = p1  p2 = p2
  c1 = c1  c2 = c2  s1 = s1  s2 = s2
  NoSecret = NoSecret  NoRow = NoRow  NoInvite = NoInvite
  NoReq = NoReq  NoSnap = NoSnap  NoCall = NoCall
  Perms <- MCPerms
  MaxKind <- MCMaxKind
  PermLists <- MCPermLists
  Users = {u1}
  Keys = {k1}
  KeyOwner <- OneOwner
  Pubkeys = {p1}
  PubOf <- OnePub
  Clients = {c1}
  Secrets = {s1}
  MaxConns = 1
  RedisAnswers = TRUE
  MaxRestarts = 1
  Reqs = {r1, r2}
  Calls = {e1, e2}
  RpcMenu <- GovernRpc
  ApiMenu <- ProgressApi
SPECIFICATION FairSpec
PROPERTIES
  EveryRequestEnds
  DeniedIsQueued
\* Clients and operators may stop asking.
CHECK_DEADLOCK FALSE
