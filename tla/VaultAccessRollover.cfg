\* One ciphertext, two rounds: the DKG rolls over at every point of the poll loop.
SPECIFICATION FairSpec
CONSTANTS
  c1 = c1  c2 = c2  v1 = v1  v2 = v2  v3 = v3
  Empty = Empty
  None = None
  Rounds = {1, 2}
  Ciphertexts = {c1}
  Validators = {v1, v2, v3}
  Members <- MCMembers
  Threshold <- MCLowThreshold
  Trusted <- MCTrusted
  Pid <- MCPid
  RatioNum = 2
  RatioDen = 5
  Fees = {1}
  Balances = {1}
  Timeout = 6
  IntervalFloor = 2
  IntervalCeil = 3
INVARIANTS
  CallInv
  TimeoutIsShortage
PROPERTIES
  RoundsOnlyAdvance
  EndsOnceAnswered
