\* Two releases of two files, two presses at a time, three in all (two where the
\* server is started) and one death; two connections of two answers each.  Both
\* hosts come to rest when their bounds are reached.
SPECIFICATION HostsSpec
CONSTANTS
  Files <- MCFiles
  Marker = "titan_server"
  Settings = "settings"
  Builds <- MCBuilds
  Shipped = "shipped"
  None = None
  Presses = {1, 2}
  MaxTaps = 3
  FewTaps = 2
  MaxDeaths = 1
  Conns = {k1, k2}
  Operator = op
  Nobody = Nobody
  ReplyMax = 2
  Frames = 2
  ArmMax = 1
INVARIANTS PointerIsThere WireIntact
PROPERTIES ResetRecovers ThreadsReadOn
CHECK_DEADLOCK FALSE
