CONSTANTS
  alice = alice  bob = bob  usb = usb  phone = phone  None = None
  Users = {alice, bob}
  Creds = {usb, phone}
  Holder <- MCHolder
  Counting = {usb}
  Ceremonies = {c1, c2, c3}
  Menu <- MCMenu
  Calls = {e1, e2, e3}
  Registered0 = {usb}
  MaxCount = 2
SPECIFICATION Spec
SYMMETRY Symmetry
INVARIANTS
  TypeOK
  ChallengeOnce
  LoginByHolder
  NeverLockedOut

  
\* Ceremonies and calls run out.
CHECK_DEADLOCK FALSE
