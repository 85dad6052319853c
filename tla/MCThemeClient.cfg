SPECIFICATION FairSpec
CONSTANTS
  a = a
  b = b
  x = x
  y = y
  p = p
  q = q
  Tracks <- MCTracks
  Arts <- MCArts
  NoArt = NoArt
  Points <- MCPoints
  Infos <- MCInfos
  Progresses <- MCProgresses
  None = None
  RECONNECT_MIN = 1
  RECONNECT_MAX = 3
CHECK_DEADLOCK FALSE
INVARIANTS
  TypeOK
  LastInfoWins
  IdleOnlyWhenStopped
PROPERTIES
  SongsFadeOut
  PageSettles
