\* Operator, agent and worker around one case, deliveries through the queue.
CONSTANTS
  Sessions = {c1, h1, a1, w1}
  Desks = {h1}
  Agents = {a1}
  Workers = {w1}
  QueueOn = TRUE
  MaxMishaps = 1
  MaxRfis = 0
  Keys = {}
  NoKey = NoKey
  Drafts = {d1, d2}
  NoDraft = NoDraft
  MaxVersions = 10
  Commands <- DraftCommands
SPECIFICATION FairSpec
CHECK_DEADLOCK FALSE
INVARIANTS OneEnquiry SentIsTrue SendMatchesApproval SupersededNeverSent
PROPERTIES
  UndisturbedAdvances
