\* The worker may die between the delivery and the transition of the case.
CONSTANTS
  Sessions = {c1, h1, w1}
  Desks = {h1}
  Agents = {}
  Workers = {w1}
  QueueOn = TRUE
  MaxMishaps = 1
  MaxRfis = 0
  Keys = {}
  NoKey = NoKey
  Drafts = {d1}
  NoDraft = NoDraft
  MaxVersions = 8
  Commands <- DraftCommands
SPECIFICATION FairSpec
CHECK_DEADLOCK FALSE
PROPERTIES DeliveredAdvances
