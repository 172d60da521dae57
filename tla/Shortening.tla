------------------------------ MODULE Shortening ------------------------------
(***************************************************************************)
(* Shortening of URLs: the handlers of internal/handler/router.go and      *)
(* internal/grpc/server.go, the methods GetShort, Shorten and ShortenBatch *)
(* of internal/service/service.go, and the in-memory repository, with any  *)
(* number of requests at the same time and the flushes of the deletion     *)
(* pipeline between their steps.                                           *)
(***************************************************************************)
EXTENDS Naturals, Sequences, Functions, MemoryStorage

CONSTANTS Requests,
          Inputs,       \* what a request may ask: kind, originals and user
          Deletions,    \* what the deletion pipeline may flush
          Originals, Users,
          Valid,        \* originals that pass ValidateOriginalURL
          Nobody,       \* holds the free lock
          MaxIds        \* bound on the identifiers issued in a run

Kinds == {"http", "grpc", "batch"}
Ids   == 1 .. MaxIds

ASSUME InputAssumption ==
  /\ Inputs \subseteq [kind : Kinds, originals : Seq(Originals) \ {<<>>}, user : Users]
  /\ \A input \in Inputs : input.kind # "batch" => Len(input.originals) = 1
  /\ Deletions \subseteq [user : Users, shorts : SUBSET Ids]
ASSUME ValueAssumption ==
  /\ Valid \subseteq Originals /\ Nobody \notin Requests
  /\ NotFound \notin Originals /\ IsDeleted \notin Originals
  /\ MaxIds \in Nat

VARIABLES
  mem,       \* the maps of the repository
  lock,      \* the request that holds the mutex over several steps
  at,        \* where each request is
  in,        \* its input
  canceled,  \* its context is done
  chosen,    \* its originals looked up so far, with the short each will get
  toSave,    \* its originals that have to be stored
  status,    \* its answer
  issued     \* number of identifiers generated

vars == <<mem, lock, at, in, canceled, chosen, toSave, status, issued>>

NoInput == [kind |-> "none", originals |-> <<>>, user |-> "none"]

Init ==
  /\ mem = EmptyStorage /\ lock = Nobody
  /\ at = [r \in Requests |-> "idle"]
  /\ in = [r \in Requests |-> NoInput]
  /\ canceled = [r \in Requests |-> FALSE]
  /\ chosen = [r \in Requests |-> <<>>]
  /\ toSave = [r \in Requests |-> <<>>]
  /\ status = [r \in Requests |-> "none"]
  /\ issued = 0

-----------------------------------------------------------------------------
Finish(r, s) ==
  /\ at' = [at EXCEPT ![r] = "done"]
  /\ status' = [status EXCEPT ![r] = s]

GoTo(r, l) == at' = [at EXCEPT ![r] = l] /\ UNCHANGED status

\* ShortenURL of the gRPC server validates before it looks the URL up.
Begin(r, input) ==
  /\ at[r] = "idle"
  /\ in' = [in EXCEPT ![r] = input]
  /\ IF input.kind = "grpc" /\ input.originals[1] \notin Valid
       THEN Finish(r, "invalid")
       ELSE GoTo(r, "lookup")
  /\ UNCHANGED <<mem, lock, canceled, chosen, toSave, issued>>

\* The client goes away, or the timeout of a batch passes.
Cancel(r) ==
  /\ at[r] \in {"lookup", "save", "saving"} /\ ~canceled[r]
  /\ canceled' = [canceled EXCEPT ![r] = TRUE]
  /\ UNCHANGED <<mem, lock, at, in, chosen, toSave, status, issued>>

\* The first original of r that has not been looked up: repeated originals
\* share one index of the batch.
Open(r, o) ==
  \E i \in DOMAIN in[r].originals :
    /\ o = in[r].originals[i]
    /\ o \notin DOMAIN chosen[r]
    /\ \A j \in 1 .. i - 1 : in[r].originals[j] \in DOMAIN chosen[r]

\* Mutant: a deleted link is not found for its original.
KnownLive(r, o) ==
  o \in DOMAIN mem.short /\ mem.short[o] \notin mem.deleted /\ ~canceled[r]

\* GetShort of a request whose context is done answers that there is none.
Known(r, o) == o \in DOMAIN mem.short /\ ~canceled[r]

\* After the lookup of o, all originals of the batch have been looked up.
LastLookup(r, o) == Range(in[r].originals) \subseteq DOMAIN chosen[r] \cup {o}

Choose(r, o, s) == chosen' = [chosen EXCEPT ![r] = Put(@, o, s)]

Lookup(r, o) ==
  /\ at[r] = "lookup" /\ lock = Nobody
  /\ Open(r, o) /\ Known(r, o)
  /\ Choose(r, o, mem.short[o])
  /\ IF in[r].kind = "batch"
       THEN GoTo(r, IF LastLookup(r, o) THEN "save" ELSE "lookup")
       ELSE Finish(r, IF in[r].kind = "http" THEN "conflict" ELSE "ok")
  /\ UNCHANGED <<mem, lock, in, canceled, toSave, issued>>

\* The text and JSON handlers validate an original that was not found.
Refuse(r, o) ==
  /\ at[r] = "lookup" /\ lock = Nobody
  /\ Open(r, o) /\ ~Known(r, o)
  /\ in[r].kind = "http" /\ o \notin Valid
  /\ Finish(r, "invalid")
  /\ UNCHANGED <<mem, lock, in, canceled, chosen, toSave, issued>>

\* Six random bytes: no identifier is drawn twice.
GenerateID(id) == id \in Ids /\ id = issued + 1 /\ issued' = id

\* createModel, for an original that was not found.
CreateModel(r, o) ==
  /\ at[r] = "lookup" /\ lock = Nobody
  /\ Open(r, o) /\ ~Known(r, o)
  /\ in[r].kind = "http" => o \in Valid
  /\ \E id \in Ids : GenerateID(id) /\ Choose(r, o, id)
  /\ toSave' = [toSave EXCEPT ![r] = Append(@, o)]
  /\ GoTo(r, IF LastLookup(r, o) THEN "save" ELSE "lookup")
  /\ UNCHANGED <<mem, lock, in, canceled>>

\* Mutant: the originals of a batch are stored with the short of its first one.
StoreFirstShort(r, o) ==
  mem' = SaveNoLock(mem, Url(chosen[r][in[r].originals[1]], o, in[r].user, FALSE))

Store(r, o) == mem' = SaveNoLock(mem, Url(chosen[r][o], o, in[r].user, FALSE))

\* Shorten: the repository takes the URL whatever the context says.
Save(r) ==
  /\ at[r] = "save" /\ in[r].kind # "batch" /\ lock = Nobody
  /\ Store(r, toSave[r][1])
  /\ Finish(r, IF in[r].kind = "http" THEN "created" ELSE "ok")
  /\ UNCHANGED <<lock, in, canceled, chosen, toSave, issued>>

\* SaveBatch takes the mutex and keeps it.
BatchLock(r) ==
  /\ at[r] = "save" /\ in[r].kind = "batch" /\ lock = Nobody
  /\ lock' = r
  /\ GoTo(r, "saving")
  /\ UNCHANGED <<mem, in, canceled, chosen, toSave, issued>>

BatchSave(r) ==
  /\ at[r] = "saving" /\ toSave[r] # <<>> /\ ~canceled[r]
  /\ Store(r, Head(toSave[r]))
  /\ toSave' = [toSave EXCEPT ![r] = Tail(@)]
  /\ UNCHANGED <<lock, at, in, canceled, chosen, status, issued>>

\* Mutant: the error path keeps the mutex.
BatchFailLocked(r) ==
  /\ at[r] = "saving" /\ toSave[r] # <<>> /\ canceled[r]
  /\ Finish(r, "error")
  /\ UNCHANGED <<mem, lock, in, canceled, chosen, toSave, issued>>

\* What has been stored before the context was done stays stored.
BatchFail(r) ==
  /\ at[r] = "saving" /\ toSave[r] # <<>> /\ canceled[r]
  /\ lock' = Nobody
  /\ Finish(r, "error")
  /\ UNCHANGED <<mem, in, canceled, chosen, toSave, issued>>

\* Mutant: a batch whose context is done is answered all the same.
BatchDoneEarly(r) ==
  /\ at[r] = "saving"
  /\ toSave[r] = <<>> \/ canceled[r]
  /\ lock' = Nobody
  /\ Finish(r, "created")
  /\ UNCHANGED <<mem, in, canceled, chosen, toSave, issued>>

BatchDone(r) ==
  /\ at[r] = "saving" /\ toSave[r] = <<>>
  /\ lock' = Nobody
  /\ Finish(r, "created")
  /\ UNCHANGED <<mem, in, canceled, chosen, toSave, issued>>

\* A flush of the deletion pipeline. Users name any identifier they like.
Delete(d) ==
  /\ lock = Nobody
  /\ mem' = MarkDeleted(mem, d.user, d.shorts)
  /\ UNCHANGED <<lock, at, in, canceled, chosen, toSave, status, issued>>

RequestNext(r) ==
  \/ \E input \in Inputs : Begin(r, input)
  \/ Cancel(r)
  \/ \E o \in Originals : Lookup(r, o) \/ Refuse(r, o) \/ CreateModel(r, o)
  \/ Save(r) \/ BatchLock(r) \/ BatchSave(r) \/ BatchFail(r) \/ BatchDone(r)

Next ==
  \/ \E r \in Requests : RequestNext(r)
  \/ \E d \in Deletions : Delete(d)

Spec == Init /\ [][Next]_vars

-----------------------------------------------------------------------------
(* Properties *)

Answered(r) == status[r] \in {"created", "conflict", "ok"}

\* The short answered for original number i of request r.
Answer(r, i) == chosen[r][in[r].originals[i]]

\* Every variable keeps its type, and at most one request is past the lock.
TypeOK ==
  /\ DOMAIN mem.orig \subseteq Ids /\ DOMAIN mem.short \subseteq Originals
  /\ DOMAIN mem.user = DOMAIN mem.orig /\ mem.deleted \subseteq DOMAIN mem.user
  /\ lock \in Requests \cup {Nobody}
  /\ at \in [Requests -> {"idle", "lookup", "save", "saving", "done"}]
  /\ in \in [Requests -> Inputs \cup {NoInput}]
  /\ canceled \in [Requests -> BOOLEAN]
  /\ \A r \in Requests : /\ DOMAIN chosen[r] \subseteq Originals
                         /\ Range(chosen[r]) \subseteq Ids
                         /\ toSave[r] \in Seq(Originals)
                         /\ at[r] = "saving" <=> lock = r
  /\ status \in [Requests -> {"none", "created", "conflict", "ok", "invalid", "error"}]
  /\ issued \in 0 .. MaxIds

\* A short that was answered for an original leads to that original for ever, or
\* is gone: also for each place of a batch with repeats, for a short another
\* request is creating and for a conflict with a link that was just stored.
AnswersResolve ==
  \A r \in Requests : Answered(r) =>
    \A i \in DOMAIN in[r].originals :
      Find(mem, Answer(r, i)) \in {in[r].originals[i], IsDeleted}

Told == UNION {{<<Answer(r, i), in[r].originals[i]>> : i \in DOMAIN in[r].originals} :
                 r \in {q \in Requests : Answered(q)}}

Links == {Url(s, mem.orig[s], mem.user[s], s \in mem.deleted) : s \in DOMAIN mem.orig}

Contract == INSTANCE LinkStore WITH Owners <- Users, links <- Links, told <- Told

\* The requests implement the store of links: no short is ever given to a second
\* original, also when two requests race for an original or a batch ends half way; no
\* request is answered a short before its link is stored; and links only ever change by
\* a deletion of their user.
ImplementsStore == Contract!Spec

\* The two directions of the index agree: the short kept for an original leads
\* to that original, also when several requests stored it.
IndexesAgree ==
  \A o \in DOMAIN mem.short :
    mem.short[o] \in DOMAIN mem.orig /\ mem.orig[mem.short[o]] = o

\* An original that was answered is not given a second short by a request that
\* looks it up later, deleted or not, unless that request has been canceled.
NoLateDuplicate ==
  [][\A r \in Requests : Len(toSave'[r]) > Len(toSave[r]) =>
       LET o == toSave'[r][Len(toSave'[r])] IN
         canceled[r] \/ \A q \in Requests :
           Answered(q) => o \notin Range(in[q].originals)]_vars

\* The stated promise of ShortenBatch: no original is stored twice.
NoDuplicates ==
  \A s, t \in DOMAIN mem.orig : mem.orig[s] = mem.orig[t] => s = t
===============================================================================
