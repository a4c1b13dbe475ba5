CONSTANTS
  Items <- Shelf
  Late <- SecondIsLate
  Durations <- Told
  Positions <- Reported
  Limit = 1
  MaxRequests = 3
  MaxNow = 3
  N = 5
  First = 3
  Name <- Names
  Asked = 2
  Queries <- Asks
  MaxClock = 1
SPECIFICATION Spec
INVARIANTS ResumableIsMiddle NextUpFillsThePage NothingIsSkipped
PROPERTIES NextUpAdvances ScrollEnds
CHECK_DEADLOCK FALSE
