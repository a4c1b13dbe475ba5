CONSTANTS
  Requests = {r1}
  Count = 2
  SeekGap = 1
  WaitLimit = 1
  IdleLimit = 2
  TokenLife = 1
  HasFfmpeg = TRUE
  Profiles <- MCProfiles
  Films <- MCFilms
SPECIFICATION PlaybackSpec
CHECK_DEADLOCK FALSE
INVARIANT PlaylistFits
PROPERTIES EveryRequestAnswered IdleSessionReaped ShutdownEnds OldAddressFreesSession
