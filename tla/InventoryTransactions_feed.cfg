\* One location whose stock row a catalog feed overwrites.
CONSTANTS
  Sessions = {s1}
  Holds = {h1, h2}
  Locations = {1}
  NoLocation = NoLocation
  EventIds = {e1}
  References = {}
  FeedLocations = {1}
  MaxQuantity = 2
  OnHand = 2
  InitialStock <- MCInitialStock
SPECIFICATION Spec
INVARIANTS NeverOversold
