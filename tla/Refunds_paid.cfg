\* Up to two partial refunds, two executors, one thing going wrong.
CONSTANTS
  Captured = 2
  Executors = {x1, x2}
  Bookers = {b1}
  Nobody = Nobody
  Reports = 1
  MaxMishaps = 1
SPECIFICATION FairSpec
CHECK_DEADLOCK FALSE
INVARIANTS ApprovedWithinCapture OneRefundPerApproval SettledIsPaidOut ReturnedIsRefunded
PROPERTIES SettledStays RevokedIsNeverPaid ApprovedIsPaidOut RefundReachesBooks
