\* Three calls, one of them anonymous, one worker, a repository that may fail.
SPECIFICATION FairSpec
CONSTANTS
  c1 = c1  c2 = c2  c3 = c3
  w1 = w1  w2 = w2
  u1 = u1  u2 = u2  s1 = s1  s2 = s2
  Callers = {c1, c2, c3}
  Workers = {w1}
  Main = Main
  Users = {u1}
  Shorts = {s1}
  NoUser = NoUser
  Nobody = Nobody
  ChanCap = 1
  ReqUser <- MCAnonUser
  ReqShorts <- MCOneShort
PROPERTIES AcceptedIsMarked CallsAnswered ShutdownReturns
