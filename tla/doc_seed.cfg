CONSTANTS
  Perms <- MCPerms
  MaxKind <- MCMaxKind
  Tabs = {t1, t2}
  Flows = {f1, f2}
  Methods <- MCMethods
  Kinds <- MCKinds
  Asked <- MCAsked
  Pasted <- MCPasted
  MaxConns = 2
  MaxInputs = 5
  None = None
SPECIFICATION Spec
SYMMETRY Symmetry
INVARIANT
  NothingSelectedNothingGranted
\* A bounded number of clicks.
CHECK_DEADLOCK FALSE
