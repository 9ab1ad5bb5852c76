\* One message, two workers: every interleaving of the two passes, and with
\* fair workers and clock what must come of it.
CONSTANTS
  Keys = {m1}
  Approvable = {m1}
  Workers = {w1, w2}
  NoKey = NoKey
  NoDate = NoDate
  MaxAttempts = 2
  StaleAfter = 1
  PermitLife = 3
  GrantLife = 2
  OpenDelay = 1
  BackoffBase = 1
  BackoffCap = 2
  Backoff <- MCBackoff
  Horizon = 2
  MaxCrashes = 1
SPECIFICATION FairSpec
INVARIANTS
  AtMostOneDelivery
  ExclusiveAttempt
  RecordedOutcomeTrue
PROPERTIES
  SettledStays
  RevokedNeverSent
  WithdrawnApprovalStops
  ImplementsAtMostOnceEffect
  EveryMessageDecided
  ClaimsEnd
