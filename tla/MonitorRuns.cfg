\* Two reads, of one ciphertext or of two; failures, killed runs and lost caches.
SPECIFICATION FairSpec
CONSTANTS
  k1 = k1  k2 = k2
  None = None
  Keys = {k1, k2}
  Rounds = {1, 2}
  Threshold = 2
  Timeout = 1
  MaxHead = 4
  MaxReads = 2
  MaxMishaps = 1
INVARIANTS
  OpenReadsWatched
  AlertsAreTrue
  RepeatsOnlyAfterMishap
PROPERTIES
  LeavesOnlyResolved
  Resolved
