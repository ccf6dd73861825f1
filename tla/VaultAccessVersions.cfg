\* Two ciphertexts, one round: the vault is overwritten at every point of the call,
\* the fee moves, the wallet holds too little, enough or more.
SPECIFICATION Spec
CONSTANTS
  c1 = c1  c2 = c2  v1 = v1  v2 = v2  v3 = v3
  Empty = Empty
  None = None
  Rounds = {2}
  Ciphertexts = {c1, c2}
  Validators = {v1, v2, v3}
  Members <- MCMembers
  Threshold <- MCThreshold
  Trusted <- MCTrusted
  Pid <- MCPid
  RatioNum = 0
  RatioDen = 1
  Fees = {1, 2}
  Balances = {1, 3}
  Timeout = 2
  IntervalFloor = 1
  IntervalCeil = 2
SYMMETRY Versions1And2
INVARIANTS
  ResultCombines
  RefusalsAreFree
  KeyLifetime
PROPERTIES
  OnePin
  ImplementsThresholdAccess
