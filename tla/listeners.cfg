CONSTANTS
  u1 = u1  u2 = u2  k1 = k1  k2 = k2  p1 = p1  d = d  r = r  private = private
  None = None
  Calls = {e1, e2}
  Menu <- ListenersMenu
  Users = {u1, u2}
  Viewers = {u1}
  Typed = {private}
  Flaky = {r}
  Keys = {k1, k2}
  Pubs = {p1}
  Urls = {d, r, private}
  Address <- MCAddress
  Defaults = {d}
  Keys0 <- MCKeys0
  Settings0 <- NoSettings
SPECIFICATION Spec
INVARIANTS
  TypeOK
  OneSubscription
  InvitationIsHeard
  
  

  
\* Every call is made at most once.
CHECK_DEADLOCK FALSE
