\* Three requests over two originals, with deletions between their steps.
SPECIFICATION Spec
CONSTANTS
  r1 = r1  r2 = r2  r3 = r3  o1 = o1  o2 = o2  u1 = u1  u2 = u2
  Requests = {r1, r2, r3}
  Inputs <- MCInputs
  Deletions <- MCDeletions
  Originals = {o1, o2}
  Users = {u1, u2}
  Valid <- MCValid
  Nobody = Nobody
  NotFound = NotFound
  IsDeleted = IsDeleted
  MaxIds = 3
SYMMETRY MCSymmetry
INVARIANTS TypeOK IndexesAgree
PROPERTIES NoLateDuplicate ImplementsStore
