\* Two deletions, an audited request and a gRPC call; 1000 configurations.
SPECIFICATION FairSpec
CONSTANTS
  c1 = c1  c2 = c2  e1 = e1  g1 = g1  u1 = u1  s1 = s1  s2 = s2
  Empty = Empty  Bad = Bad  NoFile = NoFile  Broken = Broken  Forgotten = Forgotten
  Sources <- MCSources
  Callers = {c1, c2}
  Events = {e1}
  Rpcs = {g1}
  Users = {u1}
  Shorts = {s1, s2}
  ReqUser <- MCReqUser
  ReqShorts <- MCReqShorts
INVARIANTS TypeOK SettingsAsDocumented GracefulExit ClosedUnused
PROPERTIES ShutdownEnds
