CONSTANTS
  Results <- Frieren
  Files = {f, g}
  NoFile = trial
  Second = g
  LibraryOf <- TwoLibraries
  Jobs = {j1, j2}
  MaxMerges = 3
SPECIFICATION Spec
SYMMETRY Symmetric
INVARIANT NothingIsDoubled
PROPERTIES MergesAreSerial KnownIdsDecide RepeatsAddNothing
