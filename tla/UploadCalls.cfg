\* Two calls of any kind and two of initWasm, one reset.
SPECIFICATION Spec
CONSTANTS
  u1 = u1  u2 = u2  i1 = i1  i2 = i2
  None = None  Empty = Empty
  Uploads = {u1, u2}
  Inits = {i1, i2}
  MaxResets = 1
SYMMETRY AnyCall
INVARIANTS
  LabelBound
  OwnVault
  ConditionsImplement
  LoaderIsShared
\* A behaviour stops when every call is over and every transaction mined.
CHECK_DEADLOCK FALSE
