\* Two reservations and transfers both ways over two locations, two sessions.
CONSTANTS
  Sessions = {s1, s2}
  Holds = {h1, h2}
  Locations = {1, 2}
  NoLocation = NoLocation
  EventIds = {e1, e2}
  References = {r1, r2}
  FeedLocations = {}
  MaxQuantity = 2
  OnHand = 1
  InitialStock <- MCInitialStock
SPECIFICATION Spec
SYMMETRY Symmetry
INVARIANTS ReservedIsHeld EventsAccountForStock NoDeadlock
PROPERTIES HoldsCloseOnce KeepsPromises
