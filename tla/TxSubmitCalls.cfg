\* Two calls of one wallet, of either kind, that overlap or do not.
SPECIFICATION FairSpec
CONSTANTS
  c1 = c1  c2 = c2  c3 = c3
  p1 = p1  p2 = p2  p3 = p3
  None = None
  Calls = {c1, c2}
  Payloads = {p1, p2}
  Payload <- MCPayload
  Settings <- EverySetting
  MaxDeliveries = 2
INVARIANTS
  ReturnedIsHalfReal
  LandsOnce
PROPERTIES
  ImplementsWalletLedger
  EveryCallEnds
\* A behaviour stops when every call has ended and every transaction is mined.
CHECK_DEADLOCK FALSE
