\* Two saves, a batch that may succeed, two deletions, failures and crashes.
SPECIFICATION Spec
CONSTANTS
  save1 = save1  save2 = save2  batch = batch  del1 = del1  del2 = del2
  o1 = o1  o2 = o2  o3 = o3  u1 = u1  u2 = u2
  Calls = {save1, save2, batch, del1, del2}
  Work <- MCWork
  Shorts = {1, 2, 3, 4}
  Originals = {o1, o2, o3}
  Users = {u1, u2}
  Null = Null
  Nobody = Nobody
  NotFound = NotFound
  IsDeleted = IsDeleted
INVARIANTS TypeOK SavedIsStored CacheCoversTable DeletedDurably
PROPERTY ImplementsStore
\* A process that cannot start stops for good.
CHECK_DEADLOCK FALSE
