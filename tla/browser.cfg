CONSTANTS
  alice = alice  bob = bob  None = None
  Users = {alice, bob}
  TotpUsers0 = {alice}
  Tabs = {t1, t2}
  Flows = {f1, f2}
  Sessions = {s1, s2, s3}
  MaxInputs = 4
SPECIFICATION Spec
SYMMETRY Symmetry
INVARIANTS
  TypeOK
  PartialStaysOut
  LogoutSticks
  StaysSignedIn
\* A bounded number of session ids.
CHECK_DEADLOCK FALSE
