\* One round, every method of the Observer and two prefetches, four requests.
SPECIFICATION Spec
CONSTANTS
  v1 = v1  v2 = v2
  None = None
  Rounds = {1}
  Validators = {v1, v2}
  Prefetches = {1, 2}
  MaxRequests = 4
SYMMETRY AnyValidator
INVARIANTS
  EntriesAreSound
  SingleFlight
  StatusJustified
PROPERTY EntriesAreKept
\* A behaviour stops when its MaxRequests requests have settled.
CHECK_DEADLOCK FALSE
