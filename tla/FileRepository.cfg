\* A save, a batch and Close, with failing writes, stopped batches, crashes and starts.
SPECIFICATION Spec
CONSTANTS
  save1 = save1  save2 = save2  batch1 = batch1  batch2 = batch2  close1 = close1
  o1 = o1  o2 = o2  o3 = o3  u1 = u1
  Calls = {save1, batch1, close1}
  Work <- MCWork
  Shorts = {1, 2, 3, 4, 5}
  Originals = {o1, o2, o3}
  Users = {u1}
  Cells = 4
  NoUrl = NoUrl
  Nobody = Nobody
  NotFound = NotFound
  IsDeleted = IsDeleted
INVARIANTS TypeOK CacheCoversFile AloneIsWritten
PROPERTIES FailureIsFinal
