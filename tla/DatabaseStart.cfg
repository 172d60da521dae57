\* A batch that succeeds, then a restart.
SPECIFICATION Spec
CONSTANTS
  save1 = save1  save2 = save2  batch = batch  del1 = del1  del2 = del2
  o1 = o1  o2 = o2  o3 = o3  u1 = u1  u2 = u2
  Calls = {save1, batch, del2}
  Work <- MCWork
  Shorts = {1, 2, 3, 4}
  Originals = {o1, o2, o3}
  Users = {u1, u2}
  Null = Null
  Nobody = Nobody
  NotFound = NotFound
  IsDeleted = IsDeleted
INVARIANT StartLoads
CHECK_DEADLOCK FALSE
