SPECIFICATION DiscoverySpec
CONSTANTS
  c1 = c1  c2 = c2
  p1 = p1  p2 = p2
  v1 = v1  v2 = v2
  Component = {c1, c2}
  Place = {p1, p2}
  CompOf <- ComponentOf
  Version = {v1, v2}
  ByUpgradeCode = {c1}
  ByMsi = {c1, c2}
  ByRegistry = {c2}
  Disturbances = 1
  Nothing = Nothing
SYMMETRY Interchangeable
INVARIANTS InventoryIsTrue FilesListedOnce
