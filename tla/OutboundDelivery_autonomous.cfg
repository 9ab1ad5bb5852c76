\* An edit meets the autonomous send between its guards and its approval.
CONSTANTS
  Sessions = {c1, a1}
  Desks = {}
  Agents = {a1}
  Workers = {}
  QueueOn = FALSE
  MaxMishaps = 0
  MaxRfis = 0
  Keys = {}
  NoKey = NoKey
  Drafts = {d1, d2}
  NoDraft = NoDraft
  MaxVersions = 10
  Commands <- DraftCommands
SPECIFICATION DeliverySpec
CHECK_DEADLOCK FALSE
INVARIANTS VouchedText
