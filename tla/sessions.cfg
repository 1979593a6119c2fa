CONSTANTS
  u1 = u1  u2 = u2  w1 = w1  w2 = w2  t1 = t1  t2 = t2
  NoTotp = NoTotp  None = None
  Calls = {e1, e2, e3, e4}
  Users = {u1, u2}
  Passwords = {w1, w2}
  Codes = {t1, t2}
  PasskeyUsers = {u1}
  Accounts0 <- MCAccounts0
  Menu <- SessionsMenu
SPECIFICATION Spec
SYMMETRY Symmetry
INVARIANTS
  TypeOK
  BootstrapOnce
  RedeemedOnce
PROPERTIES
  ChangedByOwner
  EndedByOwner
  ImplementsAuthority
\* Every call is made at most once.
CHECK_DEADLOCK FALSE
