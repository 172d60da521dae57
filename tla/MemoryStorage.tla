---------------------------- MODULE MemoryStorage -----------------------------
(***************************************************************************)
(* The maps of internal/repository/in_memory_repository.go as a record and *)
(* its operations as operators on that record. Every operation holds the   *)
(* mutex from its first access to the maps to its last, except             *)
(* SaveBatchNoLock, whose caller holds whatever lock it holds: modules     *)
(* that use this one take a batch one SaveNoLock at a time.                *)
(***************************************************************************)

CONSTANTS NotFound, IsDeleted   \* ErrNotFound and ErrIsDeleted

\* Assignment to a key of a Go map.
Put(f, k, v) == [x \in DOMAIN f \cup {k} |-> IF x = k THEN v ELSE f[x]]

\* deletedByShort holds no FALSE: it is the set of its keys.
EmptyStorage ==
  [orig |-> <<>>, short |-> <<>>, user |-> <<>>, deleted |-> {}]

Url(short, original, user, deleted) ==
  [short |-> short, original |-> original, user |-> user, deleted |-> deleted]

SaveNoLock(m, url) ==
  [orig    |-> Put(m.orig, url.short, url.original),
   short   |-> Put(m.short, url.original, url.short),
   user    |-> Put(m.user, url.short, url.user),
   deleted |-> m.deleted \cup (IF url.deleted THEN {url.short} ELSE {})]

Find(m, s) ==
  IF s \notin DOMAIN m.orig THEN NotFound
  ELSE IF s \in m.deleted THEN IsDeleted ELSE m.orig[s]

\* Mutant: any user may delete any link.
MarkAllDeleted(m, user, shorts) ==
  [m EXCEPT !.deleted = @ \cup (shorts \cap DOMAIN m.user)]

\* DeleteUserURLs: links of other users and unknown ones are skipped.
MarkDeleted(m, user, shorts) ==
  [m EXCEPT !.deleted = @ \cup {s \in shorts \cap DOMAIN m.user : m.user[s] = user}]
===============================================================================
