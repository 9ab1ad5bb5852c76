\* Two executes at once, with the same idempotency key or with different ones.
CONSTANTS
  Sessions = {c1, x1, x2}
  Executors = {x1, x2}
  FirstExecutor = x1
  Keys = {k1, k2}
  NoKey = NoKey
  KeysOf <- MixedKeys
  Drafts = {d1}
  NoDraft = NoDraft
  MaxVersions = 17
  Commands <- ClerkCommands
SPECIFICATION POSpec
CHECK_DEADLOCK FALSE
INVARIANTS OneKeyDispatches IntentFirst CreatedIsTrue OrderGate
