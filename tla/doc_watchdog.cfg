CONSTANTS
  u1 = u1  u2 = u2  k1 = k1  k2 = k2  p1 = p1  d = d  r = r  private = private
  None = None
  Calls = {e1}
  Menu <- WatchdogMenu
  Users = {u1}
  Viewers = {}
  Typed = {}
  Flaky = {r}
  Keys = {k1}
  Pubs = {p1}
  Urls = {d, r}
  Address <- MCAddress
  Defaults = {d}
  Keys0 <- MCKeys0
  Settings0 <- NoSettings
SPECIFICATION Spec
PROPERTIES
  ListenerRecovers
\* Every call is made at most once.
CHECK_DEADLOCK FALSE
