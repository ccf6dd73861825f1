\* One call: does it resolve only when its vault is written?
SPECIFICATION Spec
CONSTANTS
  u1 = u1  u2 = u2  i1 = i1  i2 = i2
  None = None  Empty = Empty
  Uploads = {u1}
  Inits = {i1}
  MaxResets = 1
INVARIANT ResolvedIsWritten
\* A behaviour stops when every call is over and every transaction mined.
CHECK_DEADLOCK FALSE
