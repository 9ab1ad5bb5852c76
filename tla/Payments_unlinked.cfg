\* One checkout whose association with the order may be lost.
CONSTANTS
  Keys = {k1}
  NoKey = NoKey
  Workers = {w1}
  Nobody = Nobody
  MaxMishaps = 1
SPECIFICATION FairSpec
CHECK_DEADLOCK FALSE
PROPERTIES ChargedIsPaid
