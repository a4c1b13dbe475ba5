CONSTANTS
  Tools = {t1, t2}
  Searches = {s1}
  Details = {d1, d2}
  SearchTtl = 1
  DetailTtl = 2
  Burst = 2
  Cost = 2
  Timeout = 1
  Room = 2
  Window = 3
  Scans = {a, b, c}
  Servers = 2
  Interval = 3
  Viewers = {v1, v2, v3}
SPECIFICATION Spec
SYMMETRY Symmetric
INVARIANTS AnswersAreRecent PaceKept MatchesAreSpaced LoneDownloadIsWhole HalfFilesAreBeingWritten
