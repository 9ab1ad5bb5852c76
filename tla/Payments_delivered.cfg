\* One checkout, two workers, two things going wrong.
CONSTANTS
  Keys = {k1}
  NoKey = NoKey
  Workers = {w1, w2}
  Nobody = Nobody
  MaxMishaps = 2
SPECIFICATION FairSpec
CHECK_DEADLOCK FALSE
INVARIANTS BookedOnce PaidKeepsStock
PROPERTIES PaidStays NamedIsPaid FollowedUp
