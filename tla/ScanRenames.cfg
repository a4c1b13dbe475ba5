CONSTANTS
  Paths = {1, 2, 3}
  Contents = {x, y}
  Times = {u}
  Scans = {s1}
  MaxRows = 3
  MaxChanges = 6
  Copies = FALSE
  Busy = FALSE
  MaxFaults = 0
  AiConfigured = TRUE
SPECIFICATION Spec
SYMMETRY Symmetry
INVARIANT NoScanFails
