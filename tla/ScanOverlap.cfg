CONSTANTS
  Paths = {1, 2}
  Contents = {x, y}
  Times = {u, v}
  Scans = {s1, s2}
  MaxRows = 2
  MaxChanges = 3
  Copies = TRUE
  Busy = TRUE
  MaxFaults = 1
  AiConfigured = TRUE
SPECIFICATION Spec
SYMMETRY Symmetry
INVARIANTS IdentifiedOnce UpToDateRowsAreRight PendingHasTask
