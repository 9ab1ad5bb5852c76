\* Two operators, deliveries straight through the transport, clarifications,
\* answers, qualification and retirement of the case.
CONSTANTS
  Sessions = {c1, h1, h2}
  Desks = {h1, h2}
  Agents = {}
  Workers = {}
  QueueOn = FALSE
  MaxMishaps = 1
  MaxRfis = 1
  Keys = {}
  NoKey = NoKey
  Drafts = {d1, d2}
  NoDraft = NoDraft
  MaxVersions = 11
  Commands <- EnquiryCommands
SPECIFICATION DeliverySpec
CHECK_DEADLOCK FALSE
SYMMETRY Symmetry
INVARIANTS NoContactBeforeCommitment VouchedText SendGate SentRetiredByHuman
