\* A double-clicked execute: twice the same call, with the same key.
CONSTANTS
  Sessions = {c1, x1, x2}
  Executors = {x1, x2}
  FirstExecutor = x1
  Keys = {k1}
  NoKey = NoKey
  KeysOf <- SameKey
  Drafts = {d1}
  NoDraft = NoDraft
  MaxVersions = 17
  Commands <- ClerkCommands
SPECIFICATION POSpec
CHECK_DEADLOCK FALSE
INVARIANTS OnePurchaseOrder
