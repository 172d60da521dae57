-------------------------- MODULE DatabaseRepository --------------------------
(***************************************************************************)
(* internal/repository/database_repository.go: the in-memory maps in front *)
(* of the table urls, which every write changes in separate steps, and the *)
(* loading of the maps after a crash. The calls come from the handlers     *)
(* (Save, SaveBatch) and from the flushes of the deletion pipeline         *)
(* (DeleteUserURLs), at the same time. PostgreSQL is external: its         *)
(* statements are atomic, its transactions invisible until they commit,    *)
(* and any of them may fail, a commit also after it took effect.           *)
(***************************************************************************)
EXTENDS Naturals, Sequences, Functions, MemoryStorage

CONSTANTS Calls,
          Work,      \* what each call asks: kind, URLs, user and shorts
          Shorts, Originals, Users,
          Null,      \* user_id of a row inserted without one
          Nobody     \* holds the free mutex

ASSUME WorkAssumption ==
  \A c \in Calls :
    /\ Work[c].kind \in {"save", "batch", "delete"}
    /\ Work[c].urls \in Seq([short : Shorts, original : Originals])
    /\ Work[c].kind = "save" => Len(Work[c].urls) = 1
    /\ Work[c].user \in Users /\ Work[c].shorts \subseteq Shorts
\* generateID: the shorts of all calls are distinct.
ASSUME DistinctAssumption ==
  \A c, d \in Calls : \A i \in DOMAIN Work[c].urls, j \in DOMAIN Work[d].urls :
    Work[c].urls[i].short = Work[d].urls[j].short => c = d /\ i = j
ASSUME NamesAssumption ==
  Null \notin Users /\ Nobody \notin Calls /\ NotFound \notin Originals
                    /\ IsDeleted \notin Originals

VARIABLES
  phase,    \* of the process: up, down or refused (it cannot start)
  mem,      \* the maps
  table,    \* the committed rows
  lock,     \* the batch that holds the mutex of the repository
  at,       \* where each call is
  left,     \* URLs of a batch that are not yet inserted
  tx,       \* rows inserted by the open transaction of a batch, shorts hit by a deletion
  status,   \* what each call returned
  due       \* history: per deletion, its user's links that had been answered before

vars == <<phase, mem, table, lock, at, left, tx, status, due>>

Row(url, user) == [short |-> url.short, original |-> url.original,
                   user |-> user, deleted |-> FALSE]

Init ==
  /\ phase = "up" /\ mem = EmptyStorage /\ table = {} /\ lock = Nobody
  /\ at = [c \in Calls |-> "idle"]
  /\ left = [c \in Calls |-> Work[c].urls]
  /\ tx = [c \in Calls |-> {}]
  /\ status = [c \in Calls |-> "none"]
  /\ due = [c \in Calls |-> {}]

-----------------------------------------------------------------------------
GoTo(c, l) == at' = [at EXCEPT ![c] = l] /\ UNCHANGED status

Finish(c, s) ==
  /\ at' = [at EXCEPT ![c] = "done"]
  /\ status' = [status EXCEPT ![c] = s]

Is(c, kind, l) == phase = "up" /\ Work[c].kind = kind /\ at[c] = l

Cached(c, url) == SaveNoLock(mem, Url(url.short, url.original, Work[c].user, FALSE))

\* Save: the maps first, then the row.
SaveCache(c) ==
  /\ Is(c, "save", "idle")
  /\ mem' = Cached(c, Work[c].urls[1])
  /\ GoTo(c, "insert")
  /\ UNCHANGED <<phase, table, lock, left, tx, due>>

SaveRow(c) == Row(Work[c].urls[1], Work[c].user)

\* Mutant: a failed INSERT is not reported.
InsertIgnored(c) ==
  /\ Is(c, "save", "insert")
  /\ table' \in {table, table \cup {SaveRow(c)}}
  /\ Finish(c, "ok")
  /\ UNCHANGED <<phase, mem, lock, left, tx, due>>

Insert(c) ==
  /\ Is(c, "save", "insert")
  /\ table' = table \cup {SaveRow(c)}
  /\ Finish(c, "ok")
  /\ UNCHANGED <<phase, mem, lock, left, tx, due>>

\* The maps keep the URL. The original may exceed the column, or the connection
\* break before or after the INSERT.
InsertFail(c) ==
  /\ Is(c, "save", "insert")
  /\ table' \in {table, table \cup {SaveRow(c)}}
  /\ Finish(c, "error")
  /\ UNCHANGED <<phase, mem, lock, left, tx, due>>

\* SaveBatch takes the mutex, begins a transaction and prepares the INSERT.
BatchBegin(c) ==
  /\ Is(c, "batch", "idle") /\ lock = Nobody
  /\ IF left[c] = <<>>
       THEN Finish(c, "ok") /\ UNCHANGED lock
       ELSE \/ GoTo(c, "exec") /\ lock' = c
            \/ Finish(c, "error") /\ UNCHANGED lock
  /\ UNCHANGED <<phase, mem, table, left, tx, due>>

\* Mutant: the row of a URL is inserted without its entry in the maps.
BatchExecUncached(c) ==
  /\ Is(c, "batch", "exec") /\ left[c] # <<>>
  /\ tx' = [tx EXCEPT ![c] = @ \cup {Row(Head(left[c]), Null)}]
  /\ left' = [left EXCEPT ![c] = Tail(@)]
  /\ UNCHANGED <<phase, mem, table, lock, at, status, due>>

\* The INSERT names no user_id.
BatchExec(c) ==
  /\ Is(c, "batch", "exec") /\ left[c] # <<>>
  /\ tx' = [tx EXCEPT ![c] = @ \cup {Row(Head(left[c]), Null)}]
  /\ mem' = Cached(c, Head(left[c]))
  /\ left' = [left EXCEPT ![c] = Tail(@)]
  /\ UNCHANGED <<phase, table, lock, at, status, due>>

\* Mutant: the error paths keep the mutex.
EndBatchLocked(c, s) ==
  /\ Finish(c, s)
  /\ lock' = IF s = "ok" THEN Nobody ELSE lock
  /\ tx' = [tx EXCEPT ![c] = {}]
  /\ UNCHANGED <<phase, mem, left, due>>

EndBatch(c, s) ==
  /\ Finish(c, s)
  /\ lock' = Nobody
  /\ tx' = [tx EXCEPT ![c] = {}]
  /\ UNCHANGED <<phase, mem, left, due>>

\* The transaction is rolled back, the maps are not.
BatchRollback(c) ==
  /\ Is(c, "batch", "exec") /\ left[c] # <<>>
  /\ EndBatch(c, "error") /\ UNCHANGED table

BatchCommit(c) ==
  /\ Is(c, "batch", "exec") /\ left[c] = <<>>
  /\ EndBatch(c, "ok") /\ table' = table \cup tx[c]

\* Mutant: the error of the commit is not returned.
CommitIgnored(c) ==
  /\ Is(c, "batch", "exec") /\ left[c] = <<>>
  /\ EndBatch(c, "ok") /\ table' \in {table, table \cup tx[c]}

BatchCommitFail(c) ==
  /\ Is(c, "batch", "exec") /\ left[c] = <<>>
  /\ EndBatch(c, "error") /\ table' \in {table, table \cup tx[c]}

\* Links that u created, and was told so.
AnsweredTo(u) ==
  {url.short : url \in UNION {Range(Work[c].urls) : c \in
     {d \in Calls : Work[d].kind = "save" /\ Work[d].user = u /\ status[d] = "ok"}}}

\* DeleteUserURLs: the UPDATE sees the rows committed when it runs.
Update(c) ==
  /\ Is(c, "delete", "idle")
  /\ tx' = [tx EXCEPT ![c] = {row.short : row \in {w \in table :
                w.user = Work[c].user /\ w.short \in Work[c].shorts}}]
  /\ due' = [due EXCEPT ![c] = Work[c].shorts \cap AnsweredTo(Work[c].user)]
  /\ GoTo(c, "commit")
  /\ UNCHANGED <<phase, mem, table, lock, left>>

Marked(S) == {[row EXCEPT !.deleted = @ \/ row.short \in S] : row \in table}

Commit(c) ==
  /\ Is(c, "delete", "commit")
  /\ table' = Marked(tx[c])
  /\ GoTo(c, "cache")
  /\ UNCHANGED <<phase, mem, lock, left, tx, due>>

\* An error makes the pipeline queue the deletion again.
DeleteFail(c) ==
  /\ Is(c, "delete", "commit")
  /\ table' \in {table, Marked(tx[c])}
  /\ GoTo(c, "idle")
  /\ tx' = [tx EXCEPT ![c] = {}]
  /\ UNCHANGED <<phase, mem, lock, left, due>>

DeleteCache(c) ==
  /\ Is(c, "delete", "cache")
  /\ mem' = MarkDeleted(mem, Work[c].user, Work[c].shorts)
  /\ Finish(c, "ok")
  /\ tx' = [tx EXCEPT ![c] = {}]
  /\ UNCHANGED <<phase, table, lock, left, due>>

\* The process is killed; PostgreSQL rolls back what is open.
Crash ==
  /\ phase = "up"
  /\ phase' = "down" /\ mem' = EmptyStorage /\ lock' = Nobody
  /\ at' = [c \in Calls |-> IF at[c] = "idle" THEN "idle" ELSE "done"]
  /\ tx' = [c \in Calls |-> {}]
  /\ UNCHANGED <<table, left, status, due>>

\* The maps that queryUrls builds. An original with several rows keeps the short
\* of the one that is read last.
Loaded(index) ==
  LET shorts == {row.short : row \in table}
      Of(s)  == CHOOSE row \in table : row.short = s
  IN [orig    |-> [s \in shorts |-> Of(s).original],
      short   |-> index,
      user    |-> [s \in shorts |-> Of(s).user],
      deleted |-> {s \in shorts : Of(s).deleted}]

\* Mutant: is_deleted is not read.
StartUndeleted ==
  /\ phase = "down" /\ \A row \in table : row.user # Null
  /\ \E index \in [{row.original : row \in table} -> {row.short : row \in table}] :
       /\ \A o \in DOMAIN index :
            \E row \in table : row.original = o /\ row.short = index[o]
       /\ mem' = [Loaded(index) EXCEPT !.deleted = {}]
  /\ phase' = "up"
  /\ UNCHANGED <<table, lock, at, left, tx, status, due>>

\* NewDataBaseRepository: SELECT gives the rows in any order.
Start ==
  /\ phase = "down" /\ \A row \in table : row.user # Null
  /\ \E index \in [{row.original : row \in table} -> {row.short : row \in table}] :
       /\ \A o \in DOMAIN index :
            \E row \in table : row.original = o /\ row.short = index[o]
       /\ mem' = Loaded(index)
  /\ phase' = "up"
  /\ UNCHANGED <<table, lock, at, left, tx, status, due>>

\* Scan of a NULL user_id into a string fails, and main ends with Fatal.
StartRefused ==
  /\ phase = "down" /\ \E row \in table : row.user = Null
  /\ phase' = "refused"
  /\ UNCHANGED <<mem, table, lock, at, left, tx, status, due>>

CallNext(c) ==
  \/ SaveCache(c) \/ Insert(c) \/ InsertFail(c)
  \/ BatchBegin(c) \/ BatchExec(c) \/ BatchRollback(c) \/ BatchCommit(c) \/ BatchCommitFail(c)
  \/ Update(c) \/ Commit(c) \/ DeleteFail(c) \/ DeleteCache(c)

Next == (\E c \in Calls : CallNext(c)) \/ Crash \/ Start \/ StartRefused

Spec == Init /\ [][Next]_vars

-----------------------------------------------------------------------------
(* Properties *)

\* Every variable keeps its type, no short has two rows, and a mutex that is
\* held belongs to a batch in its transaction.
TypeOK ==
  /\ phase \in {"up", "down", "refused"}
  /\ DOMAIN mem.orig \subseteq Shorts /\ DOMAIN mem.short \subseteq Originals
  /\ DOMAIN mem.user = DOMAIN mem.orig /\ mem.deleted \subseteq DOMAIN mem.orig
  /\ table \subseteq [short : Shorts, original : Originals,
                      user : Users \cup {Null}, deleted : BOOLEAN]
  /\ \A v, w \in table : v.short = w.short => v = w
  /\ at \in [Calls -> {"idle", "insert", "exec", "commit", "cache", "done"}]
  /\ status \in [Calls -> {"none", "ok", "error"}]
  /\ lock \in Calls \cup {Nobody} /\ \A c \in Calls : at[c] = "exec" <=> lock = c

\* A URL whose Save returned nil has its row, with its user, whatever crashes.
SavedIsStored ==
  \A c \in Calls : Work[c].kind = "save" /\ status[c] = "ok" =>
    \E row \in table : /\ row.short = SaveRow(c).short
                       /\ row.original = SaveRow(c).original
                       /\ row.user = Work[c].user

\* The maps never miss a row: Save and SaveBatch fill them before the row becomes
\* visible, also when the call fails later, and a start loads every row.
CacheCoversTable ==
  phase = "up" => \A row \in table : Find(mem, row.short) \in {row.original, IsDeleted}

\* A row is deleted only by a deletion of its user that names it.
OwnRowsOnly ==
  \A row \in table : row.deleted =>
    \E c \in Calls : /\ Work[c].kind = "delete" /\ Work[c].user = row.user
                     /\ row.short \in Work[c].shorts

\* After a deletion succeeded, the links of its user that had been answered before
\* it ran stay deleted, in the table and in the maps, through crashes and starts,
\* and no others with them.
DeletedDurably ==
  /\ OwnRowsOnly
  /\ \A c \in Calls : Work[c].kind = "delete" /\ status[c] = "ok" =>
       /\ \A row \in table : row.short \in due[c] => row.deleted
       /\ phase = "up" => due[c] \subseteq mem.deleted

\* What Save and SaveBatch have answered nil for.
Told == UNION {{<<url.short, url.original>> : url \in Range(Work[c].urls)} :
                 c \in {d \in Calls : Work[d].kind # "delete" /\ status[d] = "ok"}}

Contract == INSTANCE LinkStore WITH Owners <- Users, links <- table, told <- Told

\* The table implements the store of links through every crash, repeated deletion and
\* commit of unknown outcome: a save or a batch that was answered has all its rows for good,
\* rows come with new shorts only, and a row changes only by a deletion of its user.
ImplementsStore == Contract!Spec

\* Stated for NewDataBaseRepository: it loads the URLs that exist.
StartLoads == phase # "refused"
===============================================================================
