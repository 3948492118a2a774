SPECIFICATION KnSpec
CONSTANTS
  KnTurns = {t1}
  Refreshers = {r1}
  Sessions = {s1}
  SnapTTL = 1
  CacheTTL = 1
  KnMaxTime = 3
  Nothing = Nothing
PROPERTY
  NothingStaleAfterRefresh
