SPECIFICATION Spec
CHECK_DEADLOCK FALSE
CONSTANTS
  s1 = s1
  s2 = s2
  s3 = s3
  g1 = g1
  g2 = g2
  Fds = {1, 2}
  Slots = {s1, s2, s3}
  Tables = {g1, g2}
  MaxPlayers = 3
  MinPlayers = 2
  AllowSpectators = TRUE
  MaxTimers = 2
SYMMETRY Symmetry
INVARIANTS
  TypeOK
  SocketsHavePlayers
  AbsentIsTimed
  SeatsAgree
  RunningHasTwo
  BusyMeansSocket
  ClientsUpToDate
  NoGhosts
