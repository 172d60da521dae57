\* Safety of the deletion pipeline: three calls, two workers, a channel of one.
SPECIFICATION Spec
CONSTANTS
  c1 = c1  c2 = c2  c3 = c3
  w1 = w1  w2 = w2
  u1 = u1  u2 = u2  s1 = s1  s2 = s2
  Callers = {c1, c2, c3}
  Workers = {w1, w2}
  Main = Main
  Users = {u1, u2}
  Shorts = {s1, s2}
  NoUser = NoUser
  Nobody = Nobody
  ChanCap = 1
  ReqUser <- MCReqUser
  ReqShorts <- MCReqShorts
INVARIANTS TypeOK Conserved ShutdownFlushed
PROPERTIES QuietAfterShutdown ImplementsContract
