\* Registrations loaded for a round that becomes active meanwhile.
SPECIFICATION Spec
CONSTANTS
  v1 = v1  v2 = v2
  None = None
  Rounds = {1}
  Validators = {v1, v2}
  Prefetches = {}
  MaxRequests = 3
INVARIANTS
  RegistrationsEntryCurrent
\* A behaviour stops when its MaxRequests requests have settled.
CHECK_DEADLOCK FALSE
