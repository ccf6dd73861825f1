\* Two mints of one wallet, overlapping or one after the other; the fee moves twice.
SPECIFICATION Spec
CONSTANTS
  m1 = m1  m2 = m2
  None = None
  Mints = {m1, m2}
  Fees = {0, 1, 2}
  Holdings = {0, 1, 3}
  Standing = {0, 1}
  MaxUint = 9
  MaxChanges = 2
SYMMETRY AnyMint
INVARIANTS
  MintIsPrepared
  NeverOverpays
  TokensAreOwn
\* A behaviour stops when every call is over and every transaction mined.
CHECK_DEADLOCK FALSE
