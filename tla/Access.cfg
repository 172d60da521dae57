\* Two clients with three requests of any kind between them, one link, one change of
\* the key.
SPECIFICATION Spec
CONSTANTS
  c1 = c1  c2 = c2  r1 = r1  r2 = r2  r3 = r3   o1 = o1  o2 = o2
  NotFound = NotFound  IsDeleted = IsDeleted  NoToken = NoToken  Malformed = Malformed
  Clients = {c1, c2}
  Requests = {r1, r2, r3}
  Originals = {o1, o2}
  MaxIds = 1
  MaxUsers = 2
  MaxKey = 2
SYMMETRY MCSymmetry
INVARIANTS TypeOK LinksStayListed OnlyCreatorDeletes AuditTrail
PROPERTY IdentityKept
\* A process that ends over the rows of a batch cannot start again.
CHECK_DEADLOCK FALSE
