CONSTANTS
  Releases <- TwoEpisodes
  Bad <- FirstBad
  Timer = timer
  Requests = {u}
  MaxLives = 2
  Torrents = {a, b}
  Handlers = {h}
  MaxAdds = 1
  MaxFaults = 1
SPECIFICATION IngestingSpec
INVARIANT DoneIsWhole
PROPERTIES FinishedIsEntered ProjectionConverges
