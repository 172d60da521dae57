----------------------- MODULE DatabaseRepositoryProofs -----------------------
(***************************************************************************)
(* Proofs about DatabaseRepository, for any calls, identifiers and users,  *)
(* any number of failures and any number of crashes.                       *)
(***************************************************************************)
EXTENDS DatabaseRepository, TLAPS

UrlType == [short : Shorts, original : Originals]

MapNames == {"orig", "short", "user", "deleted"}

\* How many of its URLs a batch has inserted.
Sent(c) == Len(Work[c].urls) - Len(left[c])

\* Shorts of the committed rows.
Stored == {row.short : row \in table}

\* How each call uses its variables.
CallInv ==
  /\ DOMAIN tx = Calls /\ DOMAIN due = Calls
  /\ \A c \in Calls :
       /\ at[c] = "insert" => Work[c].kind = "save"
       /\ at[c] = "exec" => Work[c].kind = "batch"
       /\ at[c] \in {"commit", "cache"} => Work[c].kind = "delete"
       /\ status[c] # "none" => at[c] = "done"
       /\ phase # "up" => at[c] \in {"idle", "done"}

\* What is left of a batch is the end of its URLs.
LeftInv ==
  /\ left \in [Calls -> Seq(UrlType)]
  /\ \A c \in Calls :
       /\ Len(left[c]) <= Len(Work[c].urls)
       /\ \A j \in 1 .. Len(left[c]) :
            left[c][j] = Work[c].urls[Sent(c) + j]

\* A row was inserted by one call, which has ended, as one of its URLs.
RowInv ==
  \A row \in table :
    \E c \in Calls : \E i \in DOMAIN Work[c].urls :
      /\ at[c] = "done"
      /\ row.short = Work[c].urls[i].short
      /\ row.original = Work[c].urls[i].original

\* An idle call has nothing in a transaction, and what a batch has in its own are the URLs it
\* has been through.
TxInv ==
  \A c \in Calls :
    /\ at[c] = "idle" => tx[c] = {}
    /\ at[c] \notin {"exec", "done"} => left[c] = Work[c].urls
    /\ at[c] = "exec" =>
         \A row \in tx[c] : \E i \in 1 .. Sent(c) : row = Row(Work[c].urls[i], Null)

\* The maps know every row, and every URL whose row is on its way.
CacheInv ==
  phase = "up" =>
    /\ \A row \in table :
         /\ row.short \in DOMAIN mem.orig /\ mem.orig[row.short] = row.original
         /\ row.user # Null => mem.user[row.short] = row.user
    /\ \A c \in Calls : at[c] = "insert" =>
         /\ SaveRow(c).short \in DOMAIN mem.orig
         /\ mem.orig[SaveRow(c).short] = SaveRow(c).original
         /\ mem.user[SaveRow(c).short] = Work[c].user
    /\ \A c \in Calls : at[c] = "exec" =>
         \A i \in 1 .. Sent(c) :
           /\ Work[c].urls[i].short \in DOMAIN mem.orig
           /\ mem.orig[Work[c].urls[i].short] = Work[c].urls[i].original

\* What a deletion owes has rows of its user, which are marked by its commit and then
\* in the maps; what it marks is its user's and was named.
DebtInv ==
  \A c \in Calls :
    /\ due[c] \subseteq Work[c].shorts
    /\ \A s \in due[c] : \E row \in table : row.short = s /\ row.user = Work[c].user
    /\ at[c] = "commit" =>
         /\ due[c] \subseteq tx[c] /\ tx[c] \subseteq Stored
         /\ \A row \in table : row.short \in tx[c] =>
              row.user = Work[c].user /\ row.short \in Work[c].shorts
    /\ Work[c].kind = "delete" /\ (at[c] = "cache" \/ status[c] = "ok") =>
         \A row \in table : row.short \in due[c] => row.deleted
    /\ Work[c].kind = "delete" /\ status[c] = "ok" /\ phase = "up" => due[c] \subseteq mem.deleted

\* TypeOK in three parts.
ControlOK ==
  /\ phase \in {"up", "down", "refused"}
  /\ at \in [Calls -> {"idle", "insert", "exec", "commit", "cache", "done"}]
  /\ status \in [Calls -> {"none", "ok", "error"}]
  /\ lock \in Calls \cup {Nobody} /\ \A c \in Calls : at[c] = "exec" <=> lock = c

MemOK ==
  /\ MapNames \subseteq DOMAIN mem
  /\ DOMAIN mem.orig \subseteq Shorts /\ DOMAIN mem.short \subseteq Originals
  /\ DOMAIN mem.user = DOMAIN mem.orig /\ mem.deleted \subseteq DOMAIN mem.orig

RowType == [short : Shorts, original : Originals, user : Users \cup {Null}, deleted : BOOLEAN]

TableOK ==
  /\ table \subseteq RowType
  /\ \A v, w \in table : v.short = w.short => v = w

IInv == /\ ControlOK /\ MemOK /\ TableOK
        /\ CallInv /\ LeftInv /\ RowInv /\ TxInv /\ CacheInv
        /\ SavedIsStored /\ DebtInv /\ OwnRowsOnly

-----------------------------------------------------------------------------
LEMMA InitInv == Init => IInv
<1>. SUFFICES ASSUME Init
              PROVE  IInv
  OBVIOUS
<1>. USE DEF Init, EmptyStorage
<1>1. ControlOK /\ MemOK /\ TableOK
  BY NamesAssumption DEF ControlOK, MemOK, TableOK, MapNames
<1>2. CallInv /\ RowInv /\ TxInv /\ CacheInv /\ SavedIsStored /\ OwnRowsOnly
  BY DEF CallInv, RowInv, TxInv, CacheInv, SavedIsStored, OwnRowsOnly
<1>3. LeftInv
  <2>1. ASSUME NEW c \in Calls
        PROVE  left[c] = Work[c].urls /\ left[c] \in Seq(UrlType) /\ Len(left[c]) \in Nat
    <3>1. left[c] = Work[c].urls
      OBVIOUS
    <3>2. Work[c].urls \in Seq(UrlType)
      BY WorkAssumption DEF UrlType
    <3>. QED BY <3>1, <3>2
  <2>2. \A c \in Calls : Sent(c) = 0
    BY <2>1 DEF Sent
  <2>3. left \in [Calls -> Seq(UrlType)]
    BY <2>1
  <2>4. ASSUME NEW c \in Calls
        PROVE  /\ Len(left[c]) <= Len(Work[c].urls)
               /\ \A j \in 1 .. Len(left[c]) : left[c][j] = Work[c].urls[Sent(c) + j]
    BY <2>1, <2>2
  <2>. HIDE DEF Init
  <2>. QED BY <2>3, <2>4 DEF LeftInv
<1>4. DebtInv
  BY DEF DebtInv
<1>. QED BY <1>1, <1>2, <1>3, <1>4 DEF IInv

\* Steps that put a URL into the maps.
LEMMA CachedMaps ==
  ASSUME NEW c, NEW url, mem' = Cached(c, url)
  PROVE  /\ MapNames \subseteq DOMAIN mem'
         /\ DOMAIN mem'.orig = DOMAIN mem.orig \cup {url.short}
         /\ \A s \in DOMAIN mem'.orig :
              mem'.orig[s] = IF s = url.short THEN url.original ELSE mem.orig[s]
         /\ DOMAIN mem'.short = DOMAIN mem.short \cup {url.original}
         /\ DOMAIN mem'.user = DOMAIN mem.user \cup {url.short}
         /\ \A s \in DOMAIN mem'.user :
              mem'.user[s] = IF s = url.short THEN Work[c].user ELSE mem.user[s]
         /\ mem'.deleted = mem.deleted
BY DEF Cached, SaveNoLock, Url, Put, MapNames

\* The step that marks links in the maps.
LEMMA DeletedMaps ==
  ASSUME MapNames \subseteq DOMAIN mem, NEW c, DeleteCache(c)
  PROVE  /\ MapNames \subseteq DOMAIN mem'
         /\ mem'.orig = mem.orig /\ mem'.short = mem.short /\ mem'.user = mem.user
         /\ mem'.deleted = mem.deleted \cup
              {s \in Work[c].shorts \cap DOMAIN mem.user : mem.user[s] = Work[c].user}
BY DEF DeleteCache, MarkDeleted, MapNames

\* What an UPDATE makes of the rows.
LEMMA MarkedRows ==
  ASSUME TableOK, NEW S
  PROVE  /\ \A w \in Marked(S) : \E row \in table :
              w.short = row.short /\ w.original = row.original /\ w.user = row.user
                /\ (w.deleted <=> row.deleted \/ row.short \in S)
         /\ \A row \in table : \E w \in Marked(S) :
              w.short = row.short /\ w.original = row.original /\ w.user = row.user
         /\ Marked(S) \subseteq RowType
         /\ \A v, w \in Marked(S) : v.short = w.short => v = w
<1>. DEFINE After(row) == [row EXCEPT !.deleted = @ \/ row.short \in S]
<1>1. ASSUME NEW row \in table
      PROVE  /\ After(row) \in RowType
             /\ After(row).short = row.short /\ After(row).original = row.original
             /\ After(row).user = row.user
             /\ After(row).deleted <=> row.deleted \/ row.short \in S
  <2>. row \in RowType
    BY DEF TableOK
  <2>1. CASE row.short \in S
    BY <2>1 DEF RowType
  <2>2. CASE row.short \notin S
    BY <2>2 DEF RowType
  <2>. QED BY <2>1, <2>2
<1>2. Marked(S) = {After(row) : row \in table}
  BY DEF Marked
<1>. HIDE DEF After
<1>3. \A v, w \in Marked(S) : v.short = w.short => v = w
  BY <1>1, <1>2 DEF TableOK
<1>. QED BY <1>1, <1>2, <1>3

-----------------------------------------------------------------------------
LEMMA ControlNext == ControlOK /\ CallInv /\ [Next]_vars => ControlOK' /\ CallInv'
<1>. SUFFICES ASSUME ControlOK, CallInv, [Next]_vars
              PROVE  ControlOK' /\ CallInv'
  OBVIOUS
<1>. USE NamesAssumption DEF ControlOK, CallInv, Is
<1>1. ASSUME NEW c \in Calls, CallNext(c)
      PROVE  ControlOK' /\ CallInv'
  <2>1. CASE SaveCache(c)
    BY <2>1 DEF SaveCache, GoTo
  <2>2. CASE Insert(c) \/ InsertFail(c)
    BY <2>2 DEF Insert, InsertFail, Finish
  <2>3. CASE BatchBegin(c)
    BY <2>3 DEF BatchBegin, GoTo, Finish
  <2>4. CASE BatchExec(c)
    BY <2>4 DEF BatchExec
  <2>5. CASE BatchRollback(c) \/ BatchCommit(c) \/ BatchCommitFail(c)
    BY <2>5 DEF BatchRollback, BatchCommit, BatchCommitFail, EndBatch, Finish
  <2>6. CASE Update(c)
    BY <2>6 DEF Update, GoTo
  <2>7. CASE Commit(c) \/ DeleteFail(c)
    BY <2>7 DEF Commit, DeleteFail, GoTo
  <2>8. CASE DeleteCache(c)
    BY <2>8 DEF DeleteCache, Finish
  <2>. QED BY <1>1, <2>1, <2>2, <2>3, <2>4, <2>5, <2>6, <2>7, <2>8 DEF CallNext
<1>2. CASE Crash
  BY <1>2 DEF Crash
<1>3. CASE Start \/ StartRefused
  BY <1>3 DEF Start, StartRefused
<1>4. CASE UNCHANGED vars
  BY <1>4 DEF vars
<1>. QED BY <1>1, <1>2, <1>3, <1>4 DEF Next

\* The steps that insert or change rows.
New(c) == IF at[c] = "insert" THEN {SaveRow(c)} ELSE tx[c]

Inserts(c) ==
  /\ phase = "up" /\ at[c] \in {"insert", "exec"}
  /\ at' = [at EXCEPT ![c] = "done"]
  /\ \E s \in {"ok", "error"} : status' = [status EXCEPT ![c] = s]
  /\ table' = table \cup New(c)
  /\ UNCHANGED <<phase, mem, left, due>>

Marks(c) ==
  /\ phase = "up" /\ at[c] = "commit" /\ Work[c].kind = "delete"
  /\ \E l \in {"cache", "idle"} : at' = [at EXCEPT ![c] = l]
  /\ table' = Marked(tx[c])
  /\ UNCHANGED <<phase, mem, left, due, status>>
  /\ \A d \in Calls : d # c => tx'[d] = tx[d]

LEMMA TableSteps ==
  ASSUME CallInv, [Next]_vars
  PROVE  (\E c \in Calls : Inserts(c) \/ Marks(c)) \/ UNCHANGED table
<1>1. ASSUME NEW c \in Calls, CallNext(c)
      PROVE  Inserts(c) \/ Marks(c) \/ UNCHANGED table
  <2>1. CASE Insert(c) \/ InsertFail(c)
    BY <2>1 DEF Insert, InsertFail, Is, Finish, Inserts, New
  <2>2. CASE BatchCommit(c) \/ BatchCommitFail(c)
    BY <2>2 DEF BatchCommit, BatchCommitFail, EndBatch, Is, Finish, Inserts, New
  <2>3. CASE Commit(c) \/ DeleteFail(c)
    BY <2>3 DEF Commit, DeleteFail, Is, GoTo, Marks, CallInv
  <2>. QED BY <1>1, <2>1, <2>2, <2>3
           DEF CallNext, SaveCache, BatchBegin, BatchExec, BatchRollback, Update, DeleteCache
<1>. QED BY <1>1 DEF Next, Crash, Start, StartRefused, vars

\* The steps of a batch through its URLs.
LEMMA LeftNext == IInv /\ [Next]_vars => LeftInv' /\ TxInv'
<1>. SUFFICES ASSUME LeftInv, TxInv, ControlOK, CallInv, [Next]_vars
              PROVE  LeftInv' /\ TxInv'
  BY DEF IInv
<1>u. ASSUME NEW c \in Calls
      PROVE  /\ Work[c].urls \in Seq(UrlType) /\ Len(Work[c].urls) \in Nat
             /\ left[c] \in Seq(UrlType) /\ Len(left[c]) \in Nat
  <2>1. Work[c].urls \in Seq(UrlType)
    BY WorkAssumption DEF UrlType
  <2>2. left[c] \in Seq(UrlType)
    BY DEF LeftInv
  <2>. QED BY <2>1, <2>2
<1>1. ASSUME NEW c \in Calls, BatchExec(c)
      PROVE  LeftInv' /\ TxInv'
  <2>1. /\ left[c] # <<>> /\ left'[c] = Tail(left[c])
        /\ tx'[c] = tx[c] \cup {Row(Head(left[c]), Null)}
        /\ \A d \in Calls : d # c => left'[d] = left[d] /\ tx'[d] = tx[d]
        /\ at[c] = "exec" /\ UNCHANGED at
    BY <1>1 DEF BatchExec, Is, LeftInv, CallInv
  <2>2. /\ left'[c] \in Seq(UrlType) /\ Len(left'[c]) = Len(left[c]) - 1
        /\ \A j \in 1 .. Len(left'[c]) : left'[c][j] = left[c][j + 1]
        /\ Head(left[c]) = left[c][1] /\ Len(left[c]) >= 1
    BY <2>1, <1>u
  <2>3. Sent(c)' = Sent(c) + 1 /\ Sent(c) \in Nat /\ Sent(c) + 1 \in DOMAIN Work[c].urls
    BY <2>2, <1>u DEF Sent, LeftInv
  <2>4. Head(left[c]) = Work[c].urls[Sent(c) + 1]
    BY <2>2, <1>u DEF LeftInv
  <2>5. LeftInv'
    <3>1. left' \in [Calls -> Seq(UrlType)]
      BY <1>1, <2>2 DEF BatchExec, LeftInv
    <3>2. ASSUME NEW d \in Calls, d # c
          PROVE  /\ Len(left'[d]) <= Len(Work[d].urls)
                 /\ \A j \in 1 .. Len(left'[d]) : left'[d][j] = Work[d].urls[Sent(d)' + j]
      BY <2>1, <3>2 DEF LeftInv, Sent
    <3>3. Len(left'[c]) <= Len(Work[c].urls)
      BY <2>2, <1>u DEF LeftInv
    <3>4. ASSUME NEW j \in 1 .. Len(left'[c])
          PROVE  left'[c][j] = Work[c].urls[Sent(c)' + j]
      <4>1. j \in Nat /\ j + 1 \in 1 .. Len(left[c])
        BY <2>2, <1>u
      <4>2. Sent(c) + (j + 1) = Sent(c)' + j
        BY <2>3, <4>1
      <4>3. left[c][j + 1] = Work[c].urls[Sent(c) + (j + 1)]
        BY <4>1 DEF LeftInv
      <4>. QED BY <2>2, <4>2, <4>3
    <3>. QED BY <3>1, <3>2, <3>3, <3>4 DEF LeftInv
  <2>6. TxInv'
    <3>1. ASSUME NEW d \in Calls, d # c, at[d] = "exec", NEW row \in tx[d]
          PROVE  \E i \in 1 .. Sent(d)' : row = Row(Work[d].urls[i], Null)
      BY <2>1, <3>1 DEF TxInv, Sent
    <3>2. ASSUME NEW row \in tx'[c]
          PROVE  \E i \in 1 .. Sent(c)' : row = Row(Work[c].urls[i], Null)
      BY <2>1, <2>3, <2>4 DEF TxInv
    <3>. QED BY <2>1, <3>1, <3>2 DEF TxInv
  <2>. QED BY <2>5, <2>6
<1>2. ASSUME UNCHANGED left,
             \A c \in Calls :
               /\ at'[c] = "idle" => tx'[c] = {}
               /\ at'[c] \notin {"exec", "done"} => at[c] \notin {"exec", "done"}
               /\ at'[c] = "exec" => (at[c] = "exec" /\ tx'[c] = tx[c])
                                      \/ (at[c] = "idle" /\ tx'[c] = {})
      PROVE  LeftInv' /\ TxInv'
  <2>1. LeftInv'
    BY <1>2 DEF LeftInv, Sent
  <2>2. TxInv'
    BY <1>2 DEF TxInv, Sent
  <2>. QED BY <2>1, <2>2
<1>3. ASSUME NEW c \in Calls, CallNext(c), ~BatchExec(c)
      PROVE  LeftInv' /\ TxInv'
  <2>. USE <1>3 DEF ControlOK, CallInv, TxInv, Is
  <2>1. CASE SaveCache(c)
    BY <2>1, <1>2 DEF SaveCache, GoTo
  <2>2. CASE Insert(c) \/ InsertFail(c)
    BY <2>2, <1>2 DEF Insert, InsertFail, Finish
  <2>3. CASE BatchBegin(c)
    BY <2>3, <1>2 DEF BatchBegin, GoTo, Finish
  <2>4. CASE BatchRollback(c) \/ BatchCommit(c) \/ BatchCommitFail(c)
    BY <2>4, <1>2 DEF BatchRollback, BatchCommit, BatchCommitFail, EndBatch, Finish
  <2>5. CASE Update(c)
    BY <2>5, <1>2 DEF Update, GoTo
  <2>6. CASE Commit(c) \/ DeleteFail(c)
    BY <2>6, <1>2 DEF Commit, DeleteFail, GoTo
  <2>7. CASE DeleteCache(c)
    BY <2>7, <1>2 DEF DeleteCache, Finish
  <2>. HIDE DEF ControlOK, CallInv, TxInv, Is
  <2>. QED BY <2>1, <2>2, <2>3, <2>4, <2>5, <2>6, <2>7 DEF CallNext
<1>4. CASE Crash
  BY <1>4, <1>2 DEF Crash, ControlOK
<1>5. CASE Start \/ StartRefused \/ UNCHANGED vars
  BY <1>5, <1>2 DEF Start, StartRefused, vars, TxInv
<1>. QED BY <1>1, <1>3, <1>4, <1>5 DEF Next

-----------------------------------------------------------------------------
\* The URLs of the calls have their types, and one short is one URL.
LEMMA UrlTypes ==
  ASSUME NEW c \in Calls
  PROVE  /\ Len(Work[c].urls) \in Nat /\ DOMAIN Work[c].urls = 1 .. Len(Work[c].urls)
         /\ \A i \in DOMAIN Work[c].urls :
              Work[c].urls[i].short \in Shorts /\ Work[c].urls[i].original \in Originals
         /\ Work[c].kind = "save" => DOMAIN Work[c].urls = {1}
<1>1. Work[c].urls \in Seq(UrlType) /\ (Work[c].kind = "save" => Len(Work[c].urls) = 1)
  BY WorkAssumption DEF UrlType
<1>2. \A i \in DOMAIN Work[c].urls : Work[c].urls[i] \in UrlType
  BY <1>1
<1>. QED BY <1>1, <1>2 DEF UrlType

LEMMA SentWithin ==
  ASSUME LeftInv, NEW c \in Calls
  PROVE  Sent(c) \in Nat /\ 1 .. Sent(c) \subseteq DOMAIN Work[c].urls
<1>1. Len(left[c]) \in Nat
  BY DEF LeftInv
<1>. QED BY <1>1, UrlTypes DEF LeftInv, Sent

\* A row that is about to be visible is new, and the maps know it.
LEMMA NewRows ==
  ASSUME IInv, phase = "up", NEW c \in Calls, at[c] \in {"insert", "exec"}
  PROVE  /\ \A row \in New(c) :
              /\ row \in RowType /\ ~row.deleted /\ row.short \notin Stored
              /\ \E i \in DOMAIN Work[c].urls :
                   row.short = Work[c].urls[i].short /\ row.original = Work[c].urls[i].original
              /\ row.short \in DOMAIN mem.orig /\ mem.orig[row.short] = row.original
              /\ row.user # Null => mem.user[row.short] = row.user
         /\ \A v, w \in New(c) : v.short = w.short => v = w
<1>. CallInv /\ LeftInv /\ TxInv /\ CacheInv /\ RowInv
  BY DEF IInv
<1>1. ASSUME NEW row \in New(c)
      PROVE  \E i \in DOMAIN Work[c].urls, u \in {Work[c].user, Null} :
               /\ row = Row(Work[c].urls[i], u)
               /\ row.short \in DOMAIN mem.orig /\ mem.orig[row.short] = row.original
               /\ row.user # Null => mem.user[row.short] = row.user
  <2>1. CASE at[c] = "insert"
    <3>1. row = Row(Work[c].urls[1], Work[c].user) /\ 1 \in DOMAIN Work[c].urls
      BY <2>1, UrlTypes DEF New, SaveRow, CallInv
    <3>2. row = SaveRow(c) /\ row.user = Work[c].user
      BY <3>1 DEF SaveRow, Row
    <3>3. /\ row.short \in DOMAIN mem.orig /\ mem.orig[row.short] = row.original
          /\ mem.user[row.short] = row.user
      BY <2>1, <3>2 DEF CacheInv
    <3>. QED BY <3>1, <3>3
  <2>2. CASE at[c] = "exec"
    <3>1. PICK i \in 1 .. Sent(c) : row = Row(Work[c].urls[i], Null)
      BY <2>2 DEF New, TxInv
    <3>2. row.short = Work[c].urls[i].short /\ row.original = Work[c].urls[i].original /\ row.user = Null
      BY <3>1 DEF Row
    <3>. QED BY <2>2, <3>1, <3>2, SentWithin DEF CacheInv
  <2>. QED BY <2>1, <2>2
<1>2. \A i \in DOMAIN Work[c].urls, u \in {Work[c].user, Null} :
        /\ Row(Work[c].urls[i], u) \in RowType /\ ~Row(Work[c].urls[i], u).deleted
        /\ Row(Work[c].urls[i], u).short = Work[c].urls[i].short
        /\ Row(Work[c].urls[i], u).original = Work[c].urls[i].original
  BY UrlTypes, WorkAssumption DEF Row, RowType
<1>3. ASSUME NEW i \in DOMAIN Work[c].urls
      PROVE  Work[c].urls[i].short \notin Stored
  BY DistinctAssumption DEF Stored, RowInv
<1>4. ASSUME NEW v \in New(c), NEW w \in New(c), v.short = w.short
      PROVE  v = w
  <2>1. CASE at[c] = "insert"
    BY <2>1 DEF New
  <2>2. CASE at[c] = "exec"
    <3>1. PICK i \in 1 .. Sent(c) : v = Row(Work[c].urls[i], Null)
      BY <2>2 DEF New, TxInv
    <3>2. PICK j \in 1 .. Sent(c) : w = Row(Work[c].urls[j], Null)
      BY <2>2 DEF New, TxInv
    <3>3. Work[c].urls[i].short = Work[c].urls[j].short
      BY <1>4, <3>1, <3>2 DEF Row
    <3>4. i = j
      BY <3>3, SentWithin, DistinctAssumption
    <3>. QED BY <3>1, <3>2, <3>4
  <2>. QED BY <2>1, <2>2
<1>. QED BY <1>1, <1>2, <1>3, <1>4

LEMMA DoneStays ==
  ASSUME ControlOK, [Next]_vars, NEW c \in Calls, at[c] = "done"
  PROVE  at'[c] = "done"
<1>. USE DEF ControlOK, Is, GoTo, Finish
<1>1. ASSUME NEW d \in Calls, CallNext(d)
      PROVE  at'[c] = "done"
  BY <1>1 DEF CallNext, SaveCache, Insert, InsertFail, BatchBegin, BatchExec, BatchRollback,
              BatchCommit, BatchCommitFail, EndBatch, Update, Commit, DeleteFail, DeleteCache
<1>. QED BY <1>1 DEF Next, Crash, Start, StartRefused, vars

LEMMA TableNext == IInv /\ [Next]_vars => TableOK' /\ RowInv' /\ OwnRowsOnly'
<1>. SUFFICES ASSUME IInv, [Next]_vars
              PROVE  TableOK' /\ RowInv' /\ OwnRowsOnly'
  OBVIOUS
<1>. ControlOK /\ TableOK /\ RowInv /\ OwnRowsOnly /\ CallInv /\ DebtInv
  BY DEF IInv
<1>1. ASSUME NEW c \in Calls, Inserts(c)
      PROVE  TableOK' /\ RowInv' /\ OwnRowsOnly'
  <2>1. table' = table \cup New(c) /\ at' = [at EXCEPT ![c] = "done"]
    BY <1>1 DEF Inserts
  <2>2. /\ \A row \in New(c) :
              /\ row \in RowType /\ ~row.deleted /\ row.short \notin Stored
              /\ \E i \in DOMAIN Work[c].urls :
                   row.short = Work[c].urls[i].short /\ row.original = Work[c].urls[i].original
        /\ \A v, w \in New(c) : v.short = w.short => v = w
    BY <1>1, NewRows DEF Inserts
  <2>3. TableOK'
    BY <2>1, <2>2 DEF TableOK, Stored
  <2>4. RowInv'
    BY <2>1, <2>2 DEF RowInv, ControlOK
  <2>5. OwnRowsOnly'
    BY <2>1, <2>2 DEF OwnRowsOnly
  <2>. QED BY <2>3, <2>4, <2>5
<1>2. ASSUME NEW c \in Calls, Marks(c)
      PROVE  TableOK' /\ RowInv' /\ OwnRowsOnly'
  <2>1. table' = Marked(tx[c])
    BY <1>2 DEF Marks
  <2>2. TableOK'
    BY <2>1, MarkedRows DEF TableOK
  <2>3. RowInv'
    BY <2>1, MarkedRows, DoneStays DEF RowInv
  <2>4. ASSUME NEW w \in table', w.deleted
        PROVE  \E d \in Calls : /\ Work[d].kind = "delete" /\ Work[d].user = w.user
                                /\ w.short \in Work[d].shorts
    <3>1. PICK row \in table : /\ w.short = row.short /\ w.user = row.user
                               /\ row.deleted \/ row.short \in tx[c]
      BY <2>1, <2>4, MarkedRows
    <3>2. CASE row.deleted
      BY <3>1, <3>2 DEF OwnRowsOnly
    <3>3. CASE row.short \in tx[c]
      BY <1>2, <3>1, <3>3 DEF Marks, DebtInv
    <3>. QED BY <3>1, <3>2, <3>3
  <2>. QED BY <2>2, <2>3, <2>4 DEF OwnRowsOnly
<1>3. CASE UNCHANGED table
  <2>1. RowInv'
    BY <1>3, DoneStays DEF RowInv
  <2>. QED BY <1>3, <2>1 DEF TableOK, OwnRowsOnly
<1>. QED BY <1>1, <1>2, <1>3, TableSteps

-----------------------------------------------------------------------------
\* The steps that change the maps while the process is up.
Caches(c, i) ==
  /\ mem' = Cached(c, Work[c].urls[i]) /\ UNCHANGED <<phase, table, due, status>>
  /\ \/ at[c] = "idle" /\ Work[c].kind = "save" /\ i = 1
        /\ at' = [at EXCEPT ![c] = "insert"] /\ UNCHANGED left
     \/ at[c] = "exec" /\ i = Sent(c) + 1 /\ UNCHANGED at
        /\ Sent(c)' = i /\ \A d \in Calls : d # c => left'[d] = left[d]

\* No call but a batch that begins comes to where the maps must know its URLs.
NoneComes ==
  \A d \in Calls : /\ at'[d] = "insert" => at[d] = "insert"
                   /\ at'[d] = "exec" => at[d] \in {"idle", "exec"}

LEMMA MemSteps ==
  ASSUME IInv, [Next]_vars
  PROVE  \/ \E c \in Calls : \E i \in DOMAIN Work[c].urls : Caches(c, i)
         \/ \E c \in Calls : DeleteCache(c)
         \/ Crash \/ Start
         \/ NoneComes /\ UNCHANGED <<mem, left>> /\ phase' \in {phase, "refused"}
<1>. LeftInv /\ CallInv /\ ControlOK
  BY DEF IInv
<1>1. ASSUME NEW c \in Calls, SaveCache(c)
      PROVE  Caches(c, 1) /\ 1 \in DOMAIN Work[c].urls
  BY <1>1, UrlTypes DEF SaveCache, Is, GoTo, Caches
<1>2. ASSUME NEW c \in Calls, BatchExec(c)
      PROVE  Caches(c, Sent(c) + 1) /\ Sent(c) + 1 \in DOMAIN Work[c].urls
  <2>1. left[c] \in Seq(UrlType) /\ left[c] # <<>> /\ left' = [left EXCEPT ![c] = Tail(@)]
    BY <1>2 DEF BatchExec, LeftInv
  <2>2. Head(left[c]) = left[c][1] /\ Len(left[c]) \in Nat /\ Len(left[c]) >= 1
        /\ Len(left'[c]) = Len(left[c]) - 1
    BY <2>1 DEF LeftInv
  <2>3. Sent(c) + 1 \in DOMAIN Work[c].urls /\ Sent(c)' = Sent(c) + 1
    BY <2>2, UrlTypes DEF LeftInv, Sent
  <2>4. Head(left[c]) = Work[c].urls[Sent(c) + 1]
    BY <2>2 DEF LeftInv
  <2>. QED BY <1>2, <2>1, <2>3, <2>4 DEF BatchExec, Is, Caches, LeftInv
<1>3. ASSUME NEW c \in Calls, CallNext(c), ~SaveCache(c), ~BatchExec(c), ~DeleteCache(c)
      PROVE  NoneComes /\ UNCHANGED <<mem, phase, left>>
  <2>1. CASE Insert(c) \/ InsertFail(c)
    BY <2>1 DEF Insert, InsertFail, Finish, NoneComes, ControlOK
  <2>2. CASE BatchBegin(c)
    BY <2>2 DEF BatchBegin, Is, GoTo, Finish, NoneComes, ControlOK
  <2>3. CASE BatchRollback(c) \/ BatchCommit(c) \/ BatchCommitFail(c)
    BY <2>3 DEF BatchRollback, BatchCommit, BatchCommitFail, EndBatch, Finish, NoneComes, ControlOK
  <2>4. CASE Update(c) \/ Commit(c) \/ DeleteFail(c)
    BY <2>4 DEF Update, Commit, DeleteFail, GoTo, NoneComes, ControlOK
  <2>. QED BY <1>3, <2>1, <2>2, <2>3, <2>4 DEF CallNext
<1>4. CASE StartRefused \/ UNCHANGED vars
  BY <1>4 DEF StartRefused, vars, NoneComes
<1>. QED BY <1>1, <1>2, <1>3, <1>4 DEF Next

\* What a start reads: each row, and the shorts of its originals.
LEMMA LoadedMaps ==
  ASSUME TableOK, Start
  PROVE  /\ MemOK'
         /\ \A row \in table :
              /\ row.short \in DOMAIN mem'.orig /\ mem'.orig[row.short] = row.original
              /\ mem'.user[row.short] = row.user
              /\ row.deleted => row.short \in mem'.deleted
<1>. PICK index \in [{row.original : row \in table} -> {row.short : row \in table}] :
       mem' = Loaded(index)
  BY DEF Start
<1>. DEFINE Of(s) == CHOOSE row \in table : row.short = s
<1>1. /\ MapNames \subseteq DOMAIN mem'
      /\ mem'.orig = [s \in Stored |-> Of(s).original]
      /\ mem'.short = index
      /\ mem'.user = [s \in Stored |-> Of(s).user]
      /\ mem'.deleted = {s \in Stored : Of(s).deleted}
  BY DEF Loaded, MapNames, Stored
<1>2. ASSUME NEW row \in table
      PROVE  Of(row.short) = row /\ row.short \in Stored
  BY DEF TableOK, Stored
<1>3. \A row \in table : row.short \in Shorts /\ row.original \in Originals
  BY DEF TableOK, RowType
<1>. HIDE DEF Of
<1>4. DOMAIN mem'.orig = Stored /\ DOMAIN mem'.user = Stored /\ mem'.deleted \subseteq Stored
  BY <1>1
<1>5. Stored \subseteq Shorts /\ DOMAIN mem'.short \subseteq Originals
  BY <1>1, <1>3 DEF Stored
<1>6. MemOK'
  BY <1>1, <1>4, <1>5 DEF MemOK
<1>. QED BY <1>1, <1>2, <1>6

LEMMA MemNext == IInv /\ [Next]_vars => MemOK'
<1>. SUFFICES ASSUME IInv, [Next]_vars
              PROVE  MemOK'
  OBVIOUS
<1>. MemOK /\ TableOK
  BY DEF IInv
<1>1. ASSUME NEW c \in Calls, NEW i \in DOMAIN Work[c].urls, Caches(c, i)
      PROVE  MemOK'
  <2>1. mem' = Cached(c, Work[c].urls[i])
    BY <1>1 DEF Caches
  <2>2. /\ MapNames \subseteq DOMAIN mem'
        /\ DOMAIN mem'.orig = DOMAIN mem.orig \cup {Work[c].urls[i].short}
        /\ DOMAIN mem'.short = DOMAIN mem.short \cup {Work[c].urls[i].original}
        /\ DOMAIN mem'.user = DOMAIN mem.user \cup {Work[c].urls[i].short}
        /\ mem'.deleted = mem.deleted
    BY <2>1, CachedMaps
  <2>3. Work[c].urls[i].short \in Shorts /\ Work[c].urls[i].original \in Originals
    BY UrlTypes
  <2>. QED BY <2>2, <2>3 DEF MemOK
<1>2. ASSUME NEW c \in Calls, DeleteCache(c)
      PROVE  MemOK'
  BY <1>2, DeletedMaps DEF MemOK
<1>3. CASE Crash
  BY <1>3 DEF Crash, EmptyStorage, MemOK, MapNames
<1>4. CASE UNCHANGED mem
  BY <1>4 DEF MemOK
<1>. QED BY <1>1, <1>2, <1>3, <1>4, MemSteps, LoadedMaps

\* What a call puts into the maps is no other call's, and no row's.
LEMMA CacheNext == IInv /\ [Next]_vars => CacheInv'
<1>. SUFFICES ASSUME IInv, [Next]_vars
              PROVE  CacheInv'
  OBVIOUS
<1>. MemOK /\ TableOK /\ RowInv /\ CallInv /\ LeftInv /\ CacheInv /\ ControlOK /\ TxInv
  BY DEF IInv
<1>1. ASSUME NEW c \in Calls, NEW i \in DOMAIN Work[c].urls, Caches(c, i), phase = "up"
      PROVE  CacheInv'
  <2>. DEFINE url == Work[c].urls[i]
  <2>1. /\ DOMAIN mem'.orig = DOMAIN mem.orig \cup {url.short}
        /\ mem'.orig[url.short] = url.original
        /\ \A s \in DOMAIN mem.orig : s # url.short => mem'.orig[s] = mem.orig[s]
        /\ mem'.user[url.short] = Work[c].user
        /\ \A s \in DOMAIN mem.orig : s # url.short => mem'.user[s] = mem.user[s]
    BY <1>1, CachedMaps DEF Caches, MemOK
  <2>2. at[c] # "done" /\ UNCHANGED table
    BY <1>1 DEF Caches
  <2>3. \A row \in table : row.short # url.short
    BY <2>2, DistinctAssumption DEF RowInv
  <2>4. \A d \in Calls : \A j \in DOMAIN Work[d].urls :
          Work[d].urls[j].short = url.short => d = c /\ j = i
    BY DistinctAssumption
  <2>. HIDE DEF url
  <2>5. ASSUME NEW row \in table
        PROVE  /\ row.short \in DOMAIN mem'.orig /\ mem'.orig[row.short] = row.original
               /\ row.user # Null => mem'.user[row.short] = row.user
    BY <1>1, <2>1, <2>3 DEF CacheInv
  <2>6. ASSUME NEW d \in Calls, at'[d] = "insert"
        PROVE  /\ SaveRow(d).short \in DOMAIN mem'.orig
               /\ mem'.orig[SaveRow(d).short] = SaveRow(d).original
               /\ mem'.user[SaveRow(d).short] = Work[d].user
    <3>1. /\ SaveRow(d).short = Work[d].urls[1].short /\ SaveRow(d).original = Work[d].urls[1].original
      BY DEF SaveRow, Row
    <3>2. CASE d = c
      <4>1. i = 1
        BY <1>1, <2>6, <3>2 DEF Caches, CallInv, ControlOK
      <4>. QED BY <2>1, <3>1, <3>2, <4>1 DEF url
    <3>3. CASE d # c
      <4>1. at[d] = "insert" /\ Work[d].kind = "save" /\ 1 \in DOMAIN Work[d].urls
        BY <1>1, <2>6, <3>3, UrlTypes DEF Caches, CallInv, ControlOK
      <4>2. SaveRow(d).short # url.short
        BY <2>4, <3>1, <3>3, <4>1
      <4>. QED BY <1>1, <2>1, <4>1, <4>2 DEF CacheInv
    <3>. QED BY <3>2, <3>3
  <2>7. ASSUME NEW d \in Calls, at'[d] = "exec", NEW j \in 1 .. Sent(d)'
        PROVE  /\ Work[d].urls[j].short \in DOMAIN mem'.orig
               /\ mem'.orig[Work[d].urls[j].short] = Work[d].urls[j].original
    <3>1. at[d] = "exec" /\ (d # c => Sent(d)' = Sent(d)) /\ (d = c => Sent(d)' = Sent(d) + 1 /\ i = Sent(d) + 1)
      BY <1>1, <2>7 DEF Caches, ControlOK, Sent
    <3>2. CASE d = c /\ j = i
      BY <2>1, <3>2 DEF url
    <3>3. CASE ~(d = c /\ j = i)
      <4>1. j \in 1 .. Sent(d) /\ j \in DOMAIN Work[d].urls
        BY <3>1, <3>3, SentWithin
      <4>2. Work[d].urls[j].short # url.short
        BY <2>4, <3>3, <4>1
      <4>. QED BY <1>1, <2>1, <3>1, <4>1, <4>2 DEF CacheInv
    <3>. QED BY <3>2, <3>3
  <2>. QED BY <2>2, <2>5, <2>6, <2>7 DEF CacheInv
<1>2. ASSUME NEW c \in Calls, DeleteCache(c)
      PROVE  CacheInv'
  <2>1. mem'.orig = mem.orig /\ mem'.user = mem.user
    BY <1>2, DeletedMaps DEF MemOK
  <2>2. UNCHANGED <<phase, table, left>> /\ at' = [at EXCEPT ![c] = "done"]
    BY <1>2 DEF DeleteCache, Finish
  <2>3. \A d \in Calls : Sent(d)' = Sent(d)
    BY <2>2 DEF Sent
  <2>4. \A d \in Calls : SaveRow(d)' = SaveRow(d)
    BY DEF SaveRow, Row
  <2>. QED BY <2>1, <2>2, <2>3, <2>4 DEF CacheInv, ControlOK
<1>3. CASE Crash
  BY <1>3 DEF Crash, CacheInv
<1>4. CASE Start
  <2>1. UNCHANGED <<at, table>> /\ \A c \in Calls : at[c] \notin {"insert", "exec"}
    BY <1>4 DEF Start, CallInv
  <2>. QED BY <1>4, <2>1, LoadedMaps DEF CacheInv
<1>5. CASE NoneComes /\ UNCHANGED <<mem, left>> /\ phase' = "up" /\ phase = "up"
  <2>1. \A row \in table' : /\ row.short \in DOMAIN mem.orig /\ mem.orig[row.short] = row.original
                            /\ row.user # Null => mem.user[row.short] = row.user
    <3>1. ASSUME NEW c \in Calls, Inserts(c), NEW row \in table'
          PROVE  /\ row.short \in DOMAIN mem.orig /\ mem.orig[row.short] = row.original
                 /\ row.user # Null => mem.user[row.short] = row.user
      BY <1>5, <3>1, NewRows DEF Inserts, CacheInv
    <3>2. ASSUME NEW c \in Calls, Marks(c), NEW w \in table'
          PROVE  /\ w.short \in DOMAIN mem.orig /\ mem.orig[w.short] = w.original
                 /\ w.user # Null => mem.user[w.short] = w.user
      <4>1. PICK row \in table :
              w.short = row.short /\ w.original = row.original /\ w.user = row.user
        BY <3>2, MarkedRows DEF Marks
      <4>. QED BY <1>5, <4>1 DEF CacheInv
    <3>. QED BY <1>5, <3>1, <3>2, TableSteps DEF CacheInv
  <2>2. ASSUME NEW c \in Calls, at'[c] = "insert"
        PROVE  /\ SaveRow(c).short \in DOMAIN mem.orig
               /\ mem.orig[SaveRow(c).short] = SaveRow(c).original
               /\ mem.user[SaveRow(c).short] = Work[c].user
    BY <1>5, <2>2 DEF NoneComes, CacheInv
  <2>3. ASSUME NEW c \in Calls, at'[c] = "exec", NEW j \in 1 .. Sent(c)'
        PROVE  /\ Work[c].urls[j].short \in DOMAIN mem.orig
               /\ mem.orig[Work[c].urls[j].short] = Work[c].urls[j].original
    <3>1. Sent(c)' = Sent(c) /\ at[c] \in {"idle", "exec"}
      BY <1>5, <2>3 DEF NoneComes, Sent
    <3>2. at[c] = "idle" => Sent(c) = 0
      BY UrlTypes DEF TxInv, Sent
    <3>. QED BY <1>5, <2>3, <3>1, <3>2 DEF CacheInv
  <2>. QED BY <1>5, <2>1, <2>2, <2>3 DEF CacheInv, SaveRow, Row
<1>6. CASE phase' # "up"
  BY <1>6 DEF CacheInv
<1>7. \A c \in Calls : \A i \in DOMAIN Work[c].urls : Caches(c, i) /\ phase' = "up" => phase = "up"
  BY DEF Caches
<1>. QED BY <1>1, <1>2, <1>3, <1>4, <1>5, <1>6, <1>7, MemSteps

-----------------------------------------------------------------------------
\* Which steps give an answer "ok".
LEMMA OkSteps ==
  ASSUME ControlOK, [Next]_vars, NEW c \in Calls, status'[c] = "ok", status[c] # "ok"
  PROVE  Insert(c) \/ DeleteCache(c) \/ Work[c].kind = "batch"
<1>. USE DEF ControlOK, Is, GoTo, Finish
<1>1. ASSUME NEW d \in Calls, CallNext(d)
      PROVE  Insert(c) \/ DeleteCache(c) \/ Work[c].kind = "batch"
  <2>1. CASE SaveCache(d) \/ Insert(d) \/ InsertFail(d)
    BY <2>1 DEF SaveCache, Insert, InsertFail
  <2>2. CASE BatchBegin(d) \/ BatchExec(d) \/ BatchRollback(d)
    BY <2>2 DEF BatchBegin, BatchExec, BatchRollback, EndBatch
  <2>3. CASE BatchCommit(d) \/ BatchCommitFail(d)
    BY <2>3 DEF BatchCommit, BatchCommitFail, EndBatch
  <2>4. CASE Update(d) \/ Commit(d) \/ DeleteFail(d) \/ DeleteCache(d)
    BY <2>4 DEF Update, Commit, DeleteFail, DeleteCache
  <2>. QED BY <1>1, <2>1, <2>2, <2>3, <2>4 DEF CallNext
<1>. QED BY <1>1 DEF Next, Crash, Start, StartRefused, vars

\* A row keeps its short, its original and its user, and stays deleted.
LEMMA RowsStay ==
  ASSUME IInv, [Next]_vars, NEW row \in table
  PROVE  \E w \in table' : /\ w.short = row.short /\ w.original = row.original
                           /\ w.user = row.user
<1>. TableOK /\ CallInv
  BY DEF IInv
<1>1. ASSUME NEW c \in Calls, Marks(c)
      PROVE  \E w \in table' : /\ w.short = row.short /\ w.original = row.original
                               /\ w.user = row.user
  BY <1>1, MarkedRows DEF Marks
<1>. QED BY <1>1, TableSteps DEF Inserts

LEMMA SavedNext == IInv /\ [Next]_vars => SavedIsStored'
<1>. SUFFICES ASSUME IInv, [Next]_vars, NEW c \in Calls, Work[c].kind = "save", status'[c] = "ok"
              PROVE  \E row \in table' : /\ row.short = SaveRow(c).short
                                         /\ row.original = SaveRow(c).original
                                         /\ row.user = Work[c].user
  BY DEF SavedIsStored, SaveRow, Row
<1>. ControlOK /\ SavedIsStored /\ CallInv
  BY DEF IInv
<1>1. CASE status[c] = "ok"
  BY <1>1, RowsStay DEF SavedIsStored
<1>2. CASE Insert(c)
  <2>1. SaveRow(c).user = Work[c].user
    BY DEF SaveRow, Row
  <2>. QED BY <1>2, <2>1 DEF Insert
<1>3. ~DeleteCache(c)
  BY DEF DeleteCache, Is
<1>. QED BY <1>1, <1>2, <1>3, OkSteps

\* Rows of the next state: a row of this state, or one that no deletion has seen.
LEMMA RowsBefore ==
  ASSUME IInv, [Next]_vars, NEW w \in table', w.short \in Stored
  PROVE  \E row \in table : /\ row.short = w.short /\ row.user = w.user
                            /\ row.deleted => w.deleted
<1>. TableOK /\ CallInv
  BY DEF IInv
<1>1. ASSUME NEW c \in Calls, Inserts(c)
      PROVE  w \in table
  BY <1>1, NewRows DEF Inserts
<1>2. ASSUME NEW c \in Calls, Marks(c)
      PROVE  \E row \in table : /\ row.short = w.short /\ row.user = w.user
                                /\ row.deleted => w.deleted
  BY <1>2, MarkedRows DEF Marks
<1>. QED BY <1>1, <1>2, TableSteps

\* What is owed was answered, so that its rows are there when the UPDATE runs.
LEMMA UpdateDebt ==
  ASSUME IInv, NEW c \in Calls, Update(c)
  PROVE  /\ due'[c] \subseteq Work[c].shorts
         /\ \A s \in due'[c] : \E row \in table : row.short = s /\ row.user = Work[c].user
         /\ due'[c] \subseteq tx'[c] /\ tx'[c] \subseteq Stored
         /\ \A row \in table : row.short \in tx'[c] =>
              row.user = Work[c].user /\ row.short \in Work[c].shorts
         /\ \A d \in Calls : d # c => due'[d] = due[d] /\ tx'[d] = tx[d]
<1>. TableOK /\ CallInv /\ SavedIsStored
  BY DEF IInv
<1>1. /\ tx'[c] = {row.short : row \in {w \in table :
                     w.user = Work[c].user /\ w.short \in Work[c].shorts}}
      /\ due'[c] = Work[c].shorts \cap AnsweredTo(Work[c].user)
      /\ \A d \in Calls : d # c => due'[d] = due[d] /\ tx'[d] = tx[d]
  BY DEF Update, CallInv
<1>2. ASSUME NEW s \in AnsweredTo(Work[c].user)
      PROVE  \E row \in table : row.short = s /\ row.user = Work[c].user
  <2>1. PICK d \in Calls : /\ Work[d].kind = "save" /\ Work[d].user = Work[c].user
                           /\ status[d] = "ok"
                           /\ \E url \in Range(Work[d].urls) : s = url.short
    BY DEF AnsweredTo
  <2>2. s = SaveRow(d).short
    BY <2>1, UrlTypes DEF Range, SaveRow, Row
  <2>. QED BY <2>1, <2>2 DEF SavedIsStored
<1>3. \A row \in table : row.short \in tx'[c] => row.user = Work[c].user /\ row.short \in Work[c].shorts
  BY <1>1 DEF TableOK
<1>4. tx'[c] \subseteq Stored
  BY <1>1 DEF Stored
<1>. QED BY <1>1, <1>2, <1>3, <1>4

\* How a deletion comes to its commit and to the maps.
LEMMA DeletionSteps ==
  ASSUME ControlOK, CallInv, [Next]_vars, NEW c \in Calls
  PROVE  /\ due'[c] = due[c] \/ Update(c)
         /\ at'[c] = "commit" => Update(c) \/ (at[c] = "commit" /\ tx'[c] = tx[c])
         /\ at'[c] = "cache" => at[c] = "cache" \/ Commit(c)
<1>. USE DEF ControlOK, CallInv, Is, GoTo, Finish
<1>1. ASSUME NEW d \in Calls, CallNext(d)
      PROVE  /\ due'[c] = due[c] \/ Update(c)
             /\ at'[c] = "commit" => Update(c) \/ (at[c] = "commit" /\ tx'[c] = tx[c])
             /\ at'[c] = "cache" => at[c] = "cache" \/ Commit(c)
  <2>1. CASE SaveCache(d) \/ Insert(d) \/ InsertFail(d)
    BY <2>1 DEF SaveCache, Insert, InsertFail
  <2>2. CASE BatchBegin(d)
    BY <2>2 DEF BatchBegin
  <2>3. CASE BatchExec(d)
    BY <2>3 DEF BatchExec
  <2>4. CASE BatchRollback(d) \/ BatchCommit(d) \/ BatchCommitFail(d)
    BY <2>4 DEF BatchRollback, BatchCommit, BatchCommitFail, EndBatch
  <2>5. CASE Update(d)
    BY <2>5 DEF Update
  <2>6. CASE Commit(d) \/ DeleteFail(d)
    BY <2>6 DEF Commit, DeleteFail
  <2>7. CASE DeleteCache(d)
    BY <2>7 DEF DeleteCache
  <2>. QED BY <1>1, <2>1, <2>2, <2>3, <2>4, <2>5, <2>6, <2>7 DEF CallNext
<1>2. CASE Crash
  BY <1>2 DEF Crash
<1>. QED BY <1>1, <1>2 DEF Next, Start, StartRefused, vars

LEMMA DebtNext == IInv /\ [Next]_vars => DebtInv'
<1>. SUFFICES ASSUME IInv, [Next]_vars, NEW c \in Calls
              PROVE  /\ due'[c] \subseteq Work[c].shorts
                     /\ \A s \in due'[c] : \E row \in table' : row.short = s /\ row.user = Work[c].user
                     /\ at'[c] = "commit" =>
                          /\ due'[c] \subseteq tx'[c] /\ tx'[c] \subseteq Stored'
                          /\ \A row \in table' : row.short \in tx'[c] =>
                               row.user = Work[c].user /\ row.short \in Work[c].shorts
                     /\ Work[c].kind = "delete" /\ (at'[c] = "cache" \/ status'[c] = "ok") =>
                          \A row \in table' : row.short \in due'[c] => row.deleted
                     /\ Work[c].kind = "delete" /\ status'[c] = "ok" /\ phase' = "up" =>
                          due'[c] \subseteq mem'.deleted
  BY DEF DebtInv
<1>. ControlOK /\ CallInv /\ TableOK /\ MemOK /\ CacheInv /\ DebtInv
  BY DEF IInv
<1>1. CASE Update(c)
  <2>1. UNCHANGED <<table, status, mem>> /\ at'[c] = "commit" /\ status[c] = "none"
    BY <1>1 DEF Update, Is, GoTo, ControlOK, CallInv
  <2>. QED BY <1>1, <2>1, UpdateDebt DEF Stored
<1>2. CASE ~Update(c)
  <2>1. due'[c] = due[c] /\ due[c] \subseteq Work[c].shorts
    BY <1>2, DeletionSteps DEF DebtInv
  <2>2. due[c] \subseteq Stored
    BY DEF DebtInv, Stored
  <2>3. \A s \in due[c] : \E row \in table' : row.short = s /\ row.user = Work[c].user
    BY RowsStay DEF DebtInv
  <2>4. ASSUME at'[c] = "commit"
        PROVE  /\ due[c] \subseteq tx'[c] /\ tx'[c] \subseteq Stored'
               /\ \A row \in table' : row.short \in tx'[c] =>
                    row.user = Work[c].user /\ row.short \in Work[c].shorts
    <3>1. at[c] = "commit" /\ tx'[c] = tx[c]
      BY <1>2, <2>4, DeletionSteps
    <3>2. Stored \subseteq Stored'
      BY RowsStay DEF Stored
    <3>3. ASSUME NEW w \in table', w.short \in tx[c]
          PROVE  w.user = Work[c].user /\ w.short \in Work[c].shorts
      BY <3>1, <3>3, RowsBefore DEF DebtInv
    <3>. QED BY <3>1, <3>2, <3>3 DEF DebtInv
  <2>5. ASSUME Work[c].kind = "delete", at'[c] = "cache" \/ status'[c] = "ok",
               NEW w \in table', w.short \in due[c]
        PROVE  w.deleted
    <3>1. CASE Commit(c)
      <4>1. table' = Marked(tx[c]) /\ due[c] \subseteq tx[c]
        BY <3>1 DEF Commit, Is, DebtInv
      <4>. QED BY <2>5, <4>1, MarkedRows
    <3>2. CASE at[c] = "cache" \/ status[c] = "ok"
      <4>1. \A row \in table : row.short \in due[c] => row.deleted
        BY <2>5, <3>2 DEF DebtInv
      <4>. QED BY <2>2, <2>5, <4>1, RowsBefore
    <3>3. DeleteCache(c) => at[c] = "cache"
      BY DEF DeleteCache, Is
    <3>4. ~Insert(c) /\ Work[c].kind # "batch"
      BY <2>5 DEF Insert, Is
    <3>. QED BY <2>5, <3>1, <3>2, <3>3, <3>4, DeletionSteps, OkSteps
  <2>6. ASSUME Work[c].kind = "delete", status'[c] = "ok", phase' = "up"
        PROVE  due[c] \subseteq mem'.deleted
    <3>1. CASE DeleteCache(c)
      <4>1. phase = "up"
        BY <3>1 DEF DeleteCache, Is
      <4>2. ASSUME NEW s \in due[c]
            PROVE  s \in Work[c].shorts \cap DOMAIN mem.user /\ mem.user[s] = Work[c].user
        BY <2>1, <4>1, NamesAssumption, WorkAssumption DEF DebtInv, CacheInv, MemOK
      <4>. QED BY <3>1, <4>2, DeletedMaps DEF MemOK
    <3>2. CASE Start
      <4>1. UNCHANGED table
        BY <3>2 DEF Start
      <4>2. ASSUME NEW s \in due[c]
            PROVE  \E row \in table : row.short = s /\ row.deleted
        BY <2>3, <2>5, <2>6, <4>1
      <4>. QED BY <3>2, <4>2, LoadedMaps
    <3>3. CASE ~DeleteCache(c) /\ ~Start
      <4>1. status[c] = "ok"
        BY <2>6, <3>3, OkSteps DEF Insert, Is
      <4>2. phase = "up" /\ mem.deleted \subseteq mem'.deleted
        <5>1. ASSUME NEW d \in Calls, NEW i \in DOMAIN Work[d].urls, Caches(d, i)
              PROVE  phase = "up" /\ mem.deleted \subseteq mem'.deleted
          BY <2>6, <5>1, CachedMaps DEF Caches
        <5>2. ASSUME NEW d \in Calls, DeleteCache(d)
              PROVE  phase = "up" /\ mem.deleted \subseteq mem'.deleted
          BY <5>2, DeletedMaps DEF DeleteCache, Is, MemOK
        <5>3. ~Crash
          BY <2>6 DEF Crash
        <5>. QED BY <2>6, <3>3, <5>1, <5>2, <5>3, MemSteps
      <4>. QED BY <2>6, <4>1, <4>2 DEF DebtInv
    <3>. QED BY <3>1, <3>2, <3>3
  <2>. QED BY <2>1, <2>3, <2>4, <2>5, <2>6
<1>. QED BY <1>1, <1>2

-----------------------------------------------------------------------------
\* The inductive invariant behind the results below.
THEOREM Invariance == Spec => []IInv
<1>1. Init => IInv
  BY InitInv
<1>2. IInv /\ [Next]_vars => IInv'
  BY ControlNext, MemNext, TableNext, LeftNext, CacheNext, SavedNext, DebtNext DEF IInv
<1>. QED BY <1>1, <1>2, PTL DEF Spec

\* Every variable keeps its type, no short has two rows, and the mutex is held by the batch
\* in its transaction.
THEOREM TypeSafe == Spec => []TypeOK
<1>1. IInv => TypeOK
  BY DEF IInv, TypeOK, ControlOK, MemOK, TableOK, RowType
<1>. QED BY <1>1, Invariance, PTL

\* A URL whose Save returned nil has its row (database_repository.go:51-66), through any
\* number of failures and crashes.
THEOREM SavedIsStoredSafe == Spec => []SavedIsStored
<1>1. IInv => SavedIsStored
  BY DEF IInv
<1>. QED BY <1>1, Invariance, PTL

\* The maps of a process that runs know every row (database_repository.go:51-142).
THEOREM CacheCoversTableSafe == Spec => []CacheCoversTable
<1>1. IInv => CacheCoversTable
  BY DEF IInv, CacheInv, CacheCoversTable, Find
<1>. QED BY <1>1, Invariance, PTL

\* A deletion that succeeded outlives every crash, for the links that had been answered
\* before it ran, and no row but its user's is ever deleted
\* (database_repository.go:181-216).
THEOREM DeletedDurablySafe == Spec => []DeletedDurably
<1>1. IInv => DeletedDurably
  BY DEF IInv, DebtInv, DeletedDurably
<1>. QED BY <1>1, Invariance, PTL
-----------------------------------------------------------------------------
(* The store of links *)

\* A batch has the rows of all URLs it has been through in its transaction.
SentInv ==
  \A c \in Calls : at[c] = "exec" =>
    \A i \in 1 .. Sent(c) : Row(Work[c].urls[i], Null) \in tx[c]

\* What was answered has its row.
ToldInv == Told \subseteq Contract!Leads(table)

LEMMA StoreInit == Init => SentInv /\ ToldInv
BY DEF Init, SentInv, ToldInv, Told

LEMMA SentNext == IInv /\ SentInv /\ [Next]_vars => SentInv'
<1>. SUFFICES ASSUME IInv, SentInv, [Next]_vars
              PROVE  SentInv'
  OBVIOUS
<1>. ControlOK /\ CallInv /\ LeftInv /\ TxInv
  BY DEF IInv
<1>1. ASSUME NEW c \in Calls, BatchExec(c)
      PROVE  SentInv'
  <2>1. /\ left[c] # <<>> /\ left'[c] = Tail(left[c])
        /\ tx'[c] = tx[c] \cup {Row(Head(left[c]), Null)}
        /\ \A d \in Calls : d # c => left'[d] = left[d] /\ tx'[d] = tx[d]
        /\ at[c] = "exec" /\ UNCHANGED at
    BY <1>1 DEF BatchExec, Is, LeftInv, CallInv
  <2>2. left[c] \in Seq(UrlType)
    BY DEF LeftInv
  <2>3. Head(left[c]) = left[c][1] /\ Len(left[c]) \in Nat /\ Len(left[c]) >= 1
          /\ Len(left'[c]) = Len(left[c]) - 1
    BY <2>1, <2>2
  <2>4. Sent(c)' = Sent(c) + 1 /\ Sent(c) \in Nat
    <3>1. Sent(c) \in Nat
      BY SentWithin
    <3>2. Len(Work[c].urls) \in Nat
      BY UrlTypes
    <3>. QED BY <2>3, <3>1, <3>2 DEF Sent
  <2>5. Head(left[c]) = Work[c].urls[Sent(c) + 1]
    BY <2>3 DEF LeftInv
  <2>6. ASSUME NEW i \in 1 .. Sent(c)'
        PROVE  Row(Work[c].urls[i], Null) \in tx'[c]
    <3>1. i \in 1 .. Sent(c) \/ i = Sent(c) + 1
      BY <2>4
    <3>. QED BY <2>1, <2>5, <3>1 DEF SentInv
  <2>7. ASSUME NEW d \in Calls, d # c, at'[d] = "exec", NEW i \in 1 .. Sent(d)'
        PROVE  Row(Work[d].urls[i], Null) \in tx'[d]
    BY <2>1, <2>7 DEF SentInv, Sent
  <2>. QED BY <2>6, <2>7 DEF SentInv
<1>2. ASSUME UNCHANGED left,
             \A c \in Calls : at'[c] = "exec" =>
               (at[c] = "exec" /\ tx'[c] = tx[c]) \/ at[c] = "idle"
      PROVE  SentInv'
  <2>. SUFFICES ASSUME NEW c \in Calls, at'[c] = "exec", NEW i \in 1 .. Sent(c)'
                PROVE  Row(Work[c].urls[i], Null) \in tx'[c]
    BY DEF SentInv
  <2>1. Sent(c)' = Sent(c)
    BY <1>2 DEF Sent
  <2>2. at[c] = "idle" => Sent(c) = 0
    BY UrlTypes DEF TxInv, Sent
  <2>. QED BY <1>2, <2>1, <2>2 DEF SentInv
<1>3. ASSUME NEW c \in Calls, CallNext(c), ~BatchExec(c)
      PROVE  SentInv'
  <2>. USE <1>3 DEF ControlOK, CallInv, Is
  <2>1. CASE SaveCache(c)
    BY <2>1, <1>2 DEF SaveCache, GoTo
  <2>2. CASE Insert(c) \/ InsertFail(c)
    BY <2>2, <1>2 DEF Insert, InsertFail, Finish
  <2>3. CASE BatchBegin(c)
    BY <2>3, <1>2 DEF BatchBegin, GoTo, Finish
  <2>4. CASE BatchRollback(c) \/ BatchCommit(c) \/ BatchCommitFail(c)
    BY <2>4, <1>2 DEF BatchRollback, BatchCommit, BatchCommitFail, EndBatch, Finish
  <2>5. CASE Update(c)
    BY <2>5, <1>2 DEF Update, GoTo
  <2>6. CASE Commit(c) \/ DeleteFail(c)
    BY <2>6, <1>2 DEF Commit, DeleteFail, GoTo
  <2>7. CASE DeleteCache(c)
    BY <2>7, <1>2 DEF DeleteCache, Finish
  <2>. HIDE DEF ControlOK, CallInv, Is
  <2>. QED BY <2>1, <2>2, <2>3, <2>4, <2>5, <2>6, <2>7 DEF CallNext
<1>4. CASE Crash
  BY <1>4, <1>2 DEF Crash
<1>5. CASE Start \/ StartRefused \/ UNCHANGED vars
  BY <1>5, <1>2 DEF Start, StartRefused, vars
<1>. QED BY <1>1, <1>3, <1>4, <1>5 DEF Next

\* How a batch is answered, and that an answer stays.
LEMMA AnswerSteps ==
  ASSUME ControlOK, CallInv, [Next]_vars, NEW c \in Calls
  PROVE  /\ status[c] = "ok" => status'[c] = "ok"
         /\ Work[c].kind = "batch" /\ status'[c] = "ok" /\ status[c] # "ok" =>
              BatchCommit(c) \/ (BatchBegin(c) /\ left[c] = <<>>)
<1>. USE DEF ControlOK, CallInv, Is, GoTo, Finish
<1>. DEFINE P == /\ status[c] = "ok" => status'[c] = "ok"
                 /\ Work[c].kind = "batch" /\ status'[c] = "ok" /\ status[c] # "ok" =>
                      BatchCommit(c) \/ (BatchBegin(c) /\ left[c] = <<>>)
<1>1. ASSUME NEW d \in Calls, CallNext(d)
      PROVE  P
  <2>1. CASE SaveCache(d) \/ Insert(d) \/ InsertFail(d)
    BY <2>1 DEF SaveCache, Insert, InsertFail
  <2>2. CASE BatchBegin(d)
    <3>1. d = c \/ status'[c] = status[c]
      BY <2>2 DEF BatchBegin
    <3>2. status[d] = "none"
      BY <2>2 DEF BatchBegin
    <3>3. left[d] # <<>> => status'[d] # "ok"
      BY <2>2, <3>2 DEF BatchBegin
    <3>. QED BY <2>2, <3>1, <3>2, <3>3
  <2>3. CASE BatchExec(d) \/ BatchRollback(d)
    BY <2>3 DEF BatchExec, BatchRollback, EndBatch
  <2>4. CASE BatchCommit(d)
    <3>1. status[d] = "none" /\ (d = c \/ status'[c] = status[c])
      BY <2>4 DEF BatchCommit, EndBatch
    <3>. QED BY <2>4, <3>1
  <2>5. CASE BatchCommitFail(d)
    BY <2>5 DEF BatchCommitFail, EndBatch
  <2>6. CASE Update(d) \/ Commit(d) \/ DeleteFail(d) \/ DeleteCache(d)
    BY <2>6 DEF Update, Commit, DeleteFail, DeleteCache
  <2>. QED BY <1>1, <2>1, <2>2, <2>3, <2>4, <2>5, <2>6 DEF CallNext
<1>. QED BY <1>1 DEF Next, Crash, Start, StartRefused, vars

\* Each URL of an answered call has its row.
UrlStored(c, i) ==
  \E row \in table : /\ row.short = Work[c].urls[i].short
                     /\ row.original = Work[c].urls[i].original

LEMMA ToldRows ==
  ToldInv <=> \A c \in Calls : Work[c].kind # "delete" /\ status[c] = "ok" =>
                \A i \in DOMAIN Work[c].urls : UrlStored(c, i)
<1>1. ASSUME NEW s, NEW o
      PROVE  <<s, o>> \in Contract!Leads(table) <=>
               \E row \in table : row.short = s /\ row.original = o
  BY DEF Contract!Leads
<1>2. \A c \in Calls : \A i \in DOMAIN Work[c].urls :
        UrlStored(c, i) <=>
          <<Work[c].urls[i].short, Work[c].urls[i].original>> \in Contract!Leads(table)
  BY <1>1 DEF UrlStored
<1>. DEFINE Of(c) == {<<Work[c].urls[i].short, Work[c].urls[i].original>> : i \in DOMAIN Work[c].urls}
            Answered == {d \in Calls : Work[d].kind # "delete" /\ status[d] = "ok"}
<1>3. Told = UNION {Of(c) : c \in Answered}
  <2>1. \A c \in Calls : {<<url.short, url.original>> : url \in Range(Work[c].urls)} = Of(c)
    BY DEF Range
  <2>. HIDE DEF Of
  <2>. QED BY <2>1 DEF Told
<1>4. ToldInv <=> \A c \in Answered : Of(c) \subseteq Contract!Leads(table)
  <2>. HIDE DEF Of, Answered
  <2>. QED BY <1>3 DEF ToldInv
<1>5. \A c \in Answered : Of(c) \subseteq Contract!Leads(table) <=>
                           \A i \in DOMAIN Work[c].urls : UrlStored(c, i)
  BY <1>2
<1>. QED BY <1>4, <1>5

LEMMA ToldNext == IInv /\ SentInv /\ ToldInv /\ [Next]_vars => ToldInv'
<1>. SUFFICES ASSUME IInv, SentInv, ToldInv, [Next]_vars,
                     NEW c \in Calls, Work[c].kind # "delete", status'[c] = "ok",
                     NEW i \in DOMAIN Work[c].urls
              PROVE  UrlStored(c, i)'
  <2>1. ToldInv' <=> (\A c \in Calls : Work[c].kind # "delete" /\ status[c] = "ok" =>
                        \A i \in DOMAIN Work[c].urls : UrlStored(c, i))'
    BY ToldRows, PTL
  <2>. QED BY <2>1
<1>. ControlOK /\ CallInv /\ LeftInv
  BY DEF IInv
<1>1. CASE status[c] = "ok"
  <2>1. UrlStored(c, i)
    BY <1>1, ToldRows
  <2>. QED BY <2>1, RowsStay DEF UrlStored
<1>2. CASE Insert(c)
  <2>1. i = 1 /\ SaveRow(c) \in table'
    BY <1>2, UrlTypes DEF Insert, Is
  <2>2. SaveRow(c).short = Work[c].urls[1].short /\ SaveRow(c).original = Work[c].urls[1].original
    BY DEF SaveRow, Row
  <2>. QED BY <2>1, <2>2 DEF UrlStored
<1>3. CASE BatchCommit(c)
  <2>1. at[c] = "exec" /\ left[c] = <<>> /\ table' = table \cup tx[c]
    BY <1>3 DEF BatchCommit, Is
  <2>2. Sent(c) = Len(Work[c].urls)
    BY <2>1, UrlTypes DEF Sent
  <2>3. Row(Work[c].urls[i], Null) \in table'
    BY <2>1, <2>2, UrlTypes DEF SentInv
  <2>4. /\ Row(Work[c].urls[i], Null).short = Work[c].urls[i].short
        /\ Row(Work[c].urls[i], Null).original = Work[c].urls[i].original
    BY DEF Row
  <2>. QED BY <2>3, <2>4 DEF UrlStored
<1>4. CASE BatchBegin(c) /\ left[c] = <<>>
  BY <1>4 DEF BatchBegin, Is, IInv, TxInv
<1>5. ~DeleteCache(c)
  BY DEF DeleteCache, Is
<1>. QED BY <1>1, <1>2, <1>3, <1>4, <1>5, OkSteps, AnswerSteps

LEMMA ImplementsStep ==
  IInv /\ ToldInv' /\ [Next]_vars => [Contract!Next]_Contract!svars
<1>. SUFFICES ASSUME IInv, ToldInv', [Next]_vars
              PROVE  Contract!Next
  BY DEF Contract!svars
<1>. ControlOK /\ CallInv /\ TableOK /\ DebtInv
  BY DEF IInv
<1>1. Contract!Tell
  BY AnswerSteps DEF Contract!Tell, Told, ToldInv
<1>2. ASSUME NEW c \in Calls, Inserts(c)
      PROVE  Contract!Add
  <2>1. table' = table \cup New(c)
    BY <1>2 DEF Inserts
  <2>2. /\ \A row \in New(c) : row.deleted = FALSE /\ row.short \notin Stored
        /\ \A v, w \in New(c) : v.short = w.short => v = w
    BY <1>2, NewRows DEF Inserts, RowType
  <2>. QED BY <2>1, <2>2 DEF Contract!Add, Stored
<1>3. ASSUME NEW c \in Calls, Marks(c)
      PROVE  Contract!Delete
  <2>1. tx[c] \in SUBSET {l.short : l \in Contract!OwnedBy(Work[c].user)}
    BY <1>3 DEF Marks, DebtInv, Stored, Contract!OwnedBy
  <2>2. Work[c].user \in Users
    BY WorkAssumption
  <2>3. UNCHANGED Told
    BY <1>3 DEF Marks, Told
  <2>4. table' = {[l EXCEPT !.deleted = @ \/ l.short \in tx[c]] : l \in table}
    BY <1>3 DEF Marks, Marked
  <2>. QED BY <2>1, <2>2, <2>3, <2>4 DEF Contract!Delete
<1>4. UNCHANGED table => Contract!Add
  BY DEF Contract!Add
<1>. QED BY <1>1, <1>2, <1>3, <1>4, TableSteps DEF Contract!Next

\* The table implements the store of links (database_repository.go:51-216): each step adds
\* rows, answers what has its row, or marks rows of one user, through every failure and crash.
THEOREM Refinement == Spec => ImplementsStore
<1>1. Init => Contract!Init
  BY DEF Init, Contract!Init, Told
<1>2. IInv /\ SentInv /\ ToldInv /\ [Next]_vars => SentInv' /\ ToldInv'
  BY SentNext, ToldNext
<1>3. Spec => [](SentInv /\ ToldInv)
  BY <1>2, StoreInit, Invariance, PTL DEF Spec
<1>4. IInv /\ ToldInv' /\ [Next]_vars => [Contract!Next]_Contract!svars
  BY ImplementsStep
<1>. QED BY <1>1, <1>3, <1>4, Invariance, PTL DEF Spec, ImplementsStore, Contract!Spec

\* What a deletion of S makes of a row.
LEMMA RowMarked ==
  ASSUME NEW l \in RowType, NEW S
  PROVE  LET k == [l EXCEPT !.deleted = @ \/ l.short \in S] IN
         /\ k.short = l.short /\ k.original = l.original /\ k.user = l.user
         /\ l.deleted => k.deleted
BY DEF RowType

\* A row that is in the table stays there as the only one of its short, with its original
\* and user, through every call, failure, crash and start (database_repository.go:51-216):
\* a short that was handed out never leads elsewhere.
THEOREM RowsKept == Spec => [][Contract!LinksKept]_vars
<1>1. ASSUME IInv, TableOK', Contract!Next
      PROVE  Contract!LinksKept
  <2>1. TableOK
    BY <1>1 DEF IInv
  <2>2. CASE Contract!Add
    <3>1. ASSUME NEW l \in table
          PROVE  l \in table' /\ {m \in table' : m.short = l.short} = {l}
      BY <1>1, <2>2, <3>1 DEF Contract!Add, TableOK
    <3>. QED BY <3>1 DEF Contract!LinksKept
  <2>3. CASE Contract!Delete
    <3>1. PICK S : table' = {[l EXCEPT !.deleted = @ \/ l.short \in S] : l \in table}
      BY <2>3 DEF Contract!Delete
    <3>2. ASSUME NEW l \in table
          PROVE  \E k \in table' : /\ {m \in table' : m.short = l.short} = {k}
                                   /\ k.original = l.original /\ k.user = l.user
                                   /\ (l.deleted => k.deleted)
      <4>. DEFINE k == [l EXCEPT !.deleted = @ \/ l.short \in S]
      <4>1. /\ k.short = l.short /\ k.original = l.original /\ k.user = l.user
            /\ l.deleted => k.deleted
        BY <2>1, RowMarked DEF TableOK
      <4>2. k \in table'
        BY <3>1
      <4>. HIDE DEF k
      <4>3. {m \in table' : m.short = l.short} = {k}
        BY <1>1, <4>1, <4>2 DEF TableOK
      <4>. QED BY <4>1, <4>2, <4>3
    <3>. QED BY <3>2 DEF Contract!LinksKept
  <2>. QED BY <1>1, <2>2, <2>3 DEF Contract!Next
<1>2. ASSUME IInv, TableOK', UNCHANGED Contract!svars
      PROVE  Contract!LinksKept
  BY <1>2 DEF Contract!svars, Contract!LinksKept, IInv, TableOK
<1>3. IInv /\ SentInv /\ ToldInv /\ [Next]_vars => SentInv' /\ ToldInv'
  BY SentNext, ToldNext
<1>4. Spec => [](SentInv /\ ToldInv)
  BY <1>3, StoreInit, Invariance, PTL DEF Spec
<1>5. IInv /\ IInv' /\ ToldInv' /\ [Next]_vars => Contract!LinksKept
  <2>1. SUFFICES ASSUME IInv, IInv', ToldInv', [Next]_vars
                 PROVE  Contract!LinksKept
    OBVIOUS
  <2>2. TableOK'
    BY <2>1 DEF IInv
  <2>3. [Contract!Next]_Contract!svars
    BY <2>1, ImplementsStep
  <2>. QED BY <1>1, <1>2, <2>1, <2>2, <2>3
<1>. QED BY <1>4, <1>5, Invariance, PTL DEF Spec

\* A process that runs resolves every short that Save or SaveBatch has returned, to its
\* original or as deleted, also when it was started after a crash
\* (database_repository.go:25-142).
AnsweredIsFound ==
  phase = "up" => \A s \in Shorts, o \in Originals :
    <<s, o>> \in Told => Find(mem, s) \in {o, IsDeleted}

THEOREM AnsweredIsFoundSafe == Spec => []AnsweredIsFound
<1>1. IInv /\ ToldInv => AnsweredIsFound
  <2>1. SUFFICES ASSUME IInv, ToldInv, phase = "up", NEW s, NEW o, <<s, o>> \in Told
                 PROVE  Find(mem, s) \in {o, IsDeleted}
    BY DEF AnsweredIsFound
  <2>2. PICK row \in table : <<s, o>> = <<row.short, row.original>>
    BY <2>1 DEF ToldInv, Contract!Leads
  <2>3. s = row.short /\ o = row.original
    BY <2>2
  <2>. QED BY <2>1, <2>3 DEF IInv, CacheInv, Find
<1>2. IInv /\ SentInv /\ ToldInv /\ [Next]_vars => SentInv' /\ ToldInv'
  BY SentNext, ToldNext
<1>. QED BY <1>1, <1>2, StoreInit, Invariance, PTL DEF Spec

===============================================================================
