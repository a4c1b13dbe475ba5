CONSTANTS
  Requests = {r1, r2}
  Count = 3
  SeekGap = 1
  WaitLimit = 1
  IdleLimit = 2
SPECIFICATION Spec
SYMMETRY Symmetry
INVARIANTS NoOrphanFfmpeg WaitedIsWhole LeftoverOnlyAfterSeekBack
