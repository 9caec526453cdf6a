SPECIFICATION FairSpec
CONSTANTS
  plain = plain
  exec = exec
  Req = {plain, exec}
  Upgrade = {exec}
  MaxLeft = 1
  MayFail = {plain}
  Pieces <- MCPieces
  Cap = 2
  WireCap = 1
INVARIANTS CloudDropsOnlyTheDead
PROPERTIES RelaysFaithfully RequestsEnd EndedIsForgotten
CHECK_DEADLOCK FALSE
