--------------------------- MODULE ShorteningProofs ---------------------------
(***************************************************************************)
(* Proofs about Shortening, for any requests, inputs, originals and        *)
(* deletions and any number of identifiers.                                *)
(***************************************************************************)
EXTENDS Shortening, TLAPS

MapNames == {"orig", "short", "user", "deleted"}

\* The maps are a record, and the requests' tables are functions on the requests.
ShapeInv ==
  /\ MapNames \subseteq DOMAIN mem
  /\ DOMAIN chosen = Requests
  /\ toSave \in [Requests -> Seq(Originals)]

\* An identifier stands for one original, in the maps and in the requests' hands, and
\* none is ahead of the generator.
NameInv ==
  /\ \A s \in DOMAIN mem.orig : s <= issued
  /\ \A r \in Requests : \A o \in DOMAIN chosen[r] : chosen[r][o] <= issued
  /\ \A r, q \in Requests : \A o \in DOMAIN chosen[r], p \in DOMAIN chosen[q] :
       chosen[r][o] = chosen[q][p] => o = p
  /\ \A r \in Requests : \A o \in DOMAIN chosen[r] :
       chosen[r][o] \in DOMAIN mem.orig => mem.orig[chosen[r][o]] = o

\* Both indexes are filled together.
IndexInv ==
  /\ IndexesAgree
  /\ \A s \in DOMAIN mem.orig : mem.orig[s] \in DOMAIN mem.short

\* What a request has chosen is stored or still to be stored.
HandInv ==
  \A r \in Requests :
    /\ \A o \in DOMAIN chosen[r] :
         chosen[r][o] \in DOMAIN mem.orig \/ \E i \in DOMAIN toSave[r] : toSave[r][i] = o
    /\ \A i \in DOMAIN toSave[r] : toSave[r][i] \in DOMAIN chosen[r]

\* What has been looked up at each place, and that an answer leaves nothing to store.
Place(r) ==
  /\ at[r] = "idle" => DOMAIN chosen[r] = {} /\ toSave[r] = <<>>
  /\ at[r] # "idle" => in[r] \in Inputs
  /\ at[r] = "lookup" /\ in[r].kind # "batch" => DOMAIN chosen[r] = {} /\ toSave[r] = <<>>
  /\ at[r] = "save" /\ in[r].kind # "batch" => toSave[r] = <<in[r].originals[1]>>
  /\ at[r] \in {"save", "saving"} => Range(in[r].originals) \subseteq DOMAIN chosen[r]
  /\ status[r] # "none" => at[r] = "done"
  /\ Answered(r) => /\ Range(in[r].originals) \subseteq DOMAIN chosen[r]
                    /\ \A o \in DOMAIN chosen[r] : chosen[r][o] \in DOMAIN mem.orig

PlaceInv == \A r \in Requests : Place(r)

TypeInv == TypeOK /\ ShapeInv

IInv == TypeInv /\ NameInv /\ IndexInv /\ HandInv /\ PlaceInv

-----------------------------------------------------------------------------
(* The operators on the maps *)

\* What the maps hold after an original was stored.
LEMMA Stored ==
  ASSUME NEW r, NEW o, Store(r, o)
  PROVE  /\ MapNames \subseteq DOMAIN mem'
         /\ DOMAIN mem'.orig = DOMAIN mem.orig \cup {chosen[r][o]}
         /\ \A x \in DOMAIN mem'.orig :
              mem'.orig[x] = IF x = chosen[r][o] THEN o ELSE mem.orig[x]
         /\ DOMAIN mem'.short = DOMAIN mem.short \cup {o}
         /\ \A x \in DOMAIN mem'.short :
              mem'.short[x] = IF x = o THEN chosen[r][o] ELSE mem.short[x]
         /\ DOMAIN mem'.user = DOMAIN mem.user \cup {chosen[r][o]}
         /\ \A x \in DOMAIN mem'.user :
              mem'.user[x] = IF x = chosen[r][o] THEN in[r].user ELSE mem.user[x]
         /\ mem'.deleted = mem.deleted
BY DEF Store, SaveNoLock, Url, Put, MapNames

\* A deletion touches nothing but the marks of links that are stored.
LEMMA Marked ==
  ASSUME MapNames \subseteq DOMAIN mem, NEW d, Delete(d)
  PROVE  /\ MapNames \subseteq DOMAIN mem'
         /\ mem'.orig = mem.orig /\ mem'.short = mem.short /\ mem'.user = mem.user
         /\ mem'.deleted = mem.deleted \cup {s \in d.shorts \cap DOMAIN mem.user : mem.user[s] = d.user}
BY DEF Delete, MarkDeleted, MapNames

\* What a request has chosen after one more original.
LEMMA Chosen ==
  ASSUME DOMAIN chosen = Requests, NEW r \in Requests, NEW o, NEW s, Choose(r, o, s)
  PROVE  /\ DOMAIN chosen' = Requests
         /\ \A q \in Requests : q # r => chosen'[q] = chosen[q]
         /\ DOMAIN chosen'[r] = DOMAIN chosen[r] \cup {o}
         /\ \A p \in DOMAIN chosen'[r] : chosen'[r][p] = IF p = o THEN s ELSE chosen[r][p]
BY DEF Choose, Put

-----------------------------------------------------------------------------
LEMMA InitInv == Init => IInv
<1>. SUFFICES ASSUME Init
              PROVE  IInv
  OBVIOUS
<1>. USE DEF Init, EmptyStorage
<1>1. TypeInv
  BY ValueAssumption DEF TypeInv, TypeOK, ShapeInv, MapNames, Range
<1>2. NameInv /\ IndexInv /\ HandInv
  BY DEF NameInv, IndexInv, IndexesAgree, HandInv
<1>3. PlaceInv
  BY DEF PlaceInv, Place, Answered
<1>. QED BY <1>1, <1>2, <1>3 DEF IInv

\* The type invariant in three parts: the maps, what requests hold, and the rest.
MemOK ==
  /\ DOMAIN mem.orig \subseteq Ids /\ DOMAIN mem.short \subseteq Originals
  /\ DOMAIN mem.user = DOMAIN mem.orig /\ mem.deleted \subseteq DOMAIN mem.user
  /\ MapNames \subseteq DOMAIN mem

HandOK ==
  /\ DOMAIN chosen = Requests
  /\ toSave \in [Requests -> Seq(Originals)]
  /\ \A r \in Requests : \A o \in DOMAIN chosen[r] : o \in Originals /\ chosen[r][o] \in Ids

PlaceOK ==
  /\ lock \in Requests \cup {Nobody}
  /\ at \in [Requests -> {"idle", "lookup", "save", "saving", "done"}]
  /\ \A r \in Requests : at[r] = "saving" <=> lock = r
  /\ status \in [Requests -> {"none", "created", "conflict", "ok", "invalid", "error"}]

InputOK ==
  /\ in \in [Requests -> Inputs \cup {NoInput}]
  /\ canceled \in [Requests -> BOOLEAN]
  /\ issued \in 0 .. MaxIds

LEMMA TypeParts == TypeInv <=> MemOK /\ HandOK /\ PlaceOK /\ InputOK
<1>1. TypeInv => MemOK /\ PlaceOK /\ InputOK
  BY DEF TypeInv, TypeOK, ShapeInv, MemOK, PlaceOK, InputOK
<1>2. TypeInv => HandOK
  BY DEF TypeInv, TypeOK, ShapeInv, HandOK, Range
<1>3. MemOK /\ HandOK /\ PlaceOK /\ InputOK => ShapeInv
  BY DEF ShapeInv, MemOK, HandOK
<1>4. MemOK /\ HandOK /\ PlaceOK /\ InputOK => TypeOK
  <2>. SUFFICES ASSUME MemOK, HandOK, PlaceOK, InputOK
                PROVE  TypeOK
    OBVIOUS
  <2>1. \A r \in Requests : DOMAIN chosen[r] \subseteq Originals /\ Range(chosen[r]) \subseteq Ids
                             /\ toSave[r] \in Seq(Originals)
    BY DEF HandOK, Range
  <2>. QED BY <2>1 DEF TypeOK, MemOK, PlaceOK, InputOK
<1>. QED BY <1>1, <1>2, <1>3, <1>4 DEF TypeInv

\* The steps that change the maps or what a request holds.
LEMMA Steps ==
  ASSUME [Next]_vars
  PROVE  \/ \E r \in Requests, o \in Originals : Lookup(r, o) \/ CreateModel(r, o)
         \/ \E r \in Requests : Save(r) \/ BatchSave(r)
         \/ \E d \in Deletions : Delete(d)
         \/ UNCHANGED <<mem, chosen, toSave, issued>>
<1>1. ASSUME NEW r \in Requests, RequestNext(r)
      PROVE  \/ \E o \in Originals : Lookup(r, o) \/ CreateModel(r, o)
             \/ Save(r) \/ BatchSave(r)
             \/ UNCHANGED <<mem, chosen, toSave, issued>>
  BY <1>1 DEF RequestNext, Begin, Cancel, Refuse, BatchLock, BatchFail, BatchDone
<1>. QED BY <1>1 DEF Next, vars

\* What a request stores it has chosen.
LEMMA StoresChosen ==
  ASSUME IInv, NEW r \in Requests, Save(r) \/ BatchSave(r)
  PROVE  \E o \in DOMAIN chosen[r] :
           /\ toSave[r] # <<>> /\ o = Head(toSave[r])
           /\ Store(r, o)
           /\ UNCHANGED <<chosen, issued>>
<1>. HandInv /\ PlaceInv /\ HandOK
  BY TypeParts DEF IInv
<1>1. CASE Save(r)
  BY <1>1 DEF Save, PlaceInv, Place, HandInv, HandOK
<1>2. CASE BatchSave(r)
  <2>1. toSave[r] # <<>> /\ Head(toSave[r]) = toSave[r][1] /\ 1 \in DOMAIN toSave[r]
    BY <1>2 DEF BatchSave, HandOK
  <2>. QED BY <1>2, <2>1 DEF BatchSave, HandInv
<1>. QED BY <1>1, <1>2

LEMMA MemNext == IInv /\ [Next]_vars => MemOK'
<1>. SUFFICES ASSUME IInv, [Next]_vars
              PROVE  MemOK'
  OBVIOUS
<1>. MemOK /\ HandOK
  BY TypeParts DEF IInv
<1>1. ASSUME NEW r \in Requests, Save(r) \/ BatchSave(r)
      PROVE  MemOK'
  <2>. PICK o \in DOMAIN chosen[r] : Store(r, o)
    BY <1>1, StoresChosen
  <2>1. o \in Originals /\ chosen[r][o] \in Ids
    BY DEF HandOK
  <2>2. /\ MapNames \subseteq DOMAIN mem'
        /\ DOMAIN mem'.orig = DOMAIN mem.orig \cup {chosen[r][o]}
        /\ DOMAIN mem'.short = DOMAIN mem.short \cup {o}
        /\ DOMAIN mem'.user = DOMAIN mem.user \cup {chosen[r][o]}
        /\ mem'.deleted = mem.deleted
    BY Stored
  <2>. QED BY <2>1, <2>2 DEF MemOK
<1>2. ASSUME NEW d \in Deletions, Delete(d)
      PROVE  MemOK'
  BY <1>2, Marked DEF MemOK
<1>3. CASE UNCHANGED mem
  BY <1>3 DEF MemOK
<1>. QED BY <1>1, <1>2, <1>3, Steps DEF Lookup, CreateModel

LEMMA HandTypeNext == IInv /\ [Next]_vars => HandOK' /\ issued' \in 0 .. MaxIds
<1>. SUFFICES ASSUME IInv, [Next]_vars
              PROVE  HandOK' /\ issued' \in 0 .. MaxIds
  OBVIOUS
<1>. MemOK /\ HandOK /\ InputOK /\ IndexInv
  BY TypeParts DEF IInv
<1>1. ASSUME NEW r \in Requests, NEW o \in Originals, Lookup(r, o)
      PROVE  HandOK' /\ issued' \in 0 .. MaxIds
  <2>1. mem.short[o] \in Ids /\ Choose(r, o, mem.short[o])
    BY <1>1 DEF Lookup, Known, IndexInv, IndexesAgree, MemOK
  <2>2. UNCHANGED <<toSave, issued>>
    BY <1>1 DEF Lookup
  <2>3. \A q \in Requests : \A p \in DOMAIN chosen'[q] : p \in Originals /\ chosen'[q][p] \in Ids
    BY <2>1, Chosen DEF HandOK
  <2>. QED BY <2>1, <2>2, <2>3, Chosen DEF HandOK, InputOK
<1>2. ASSUME NEW r \in Requests, NEW o \in Originals, CreateModel(r, o)
      PROVE  HandOK' /\ issued' \in 0 .. MaxIds
  <2>. PICK id \in Ids : GenerateID(id) /\ Choose(r, o, id)
    BY <1>2 DEF CreateModel
  <2>1. issued' \in 0 .. MaxIds
    BY ValueAssumption DEF GenerateID, Ids
  <2>2. toSave' \in [Requests -> Seq(Originals)]
    BY <1>2 DEF CreateModel, HandOK
  <2>3. \A q \in Requests : \A p \in DOMAIN chosen'[q] : p \in Originals /\ chosen'[q][p] \in Ids
    BY Chosen DEF HandOK
  <2>. QED BY <2>1, <2>2, <2>3, Chosen DEF HandOK
<1>3. CASE \E r \in Requests : BatchSave(r)
  BY <1>3 DEF BatchSave, HandOK, InputOK
<1>4. CASE UNCHANGED <<chosen, toSave, issued>>
  BY <1>4 DEF HandOK, InputOK
<1>. QED BY <1>1, <1>2, <1>3, <1>4, Steps DEF Save, Delete

LEMMA PlaceTypeNext ==
  TypeInv /\ [Next]_vars => PlaceOK' /\ in' \in [Requests -> Inputs \cup {NoInput}]
                             /\ canceled' \in [Requests -> BOOLEAN]
<1>. SUFFICES ASSUME PlaceOK, InputOK, [Next]_vars
              PROVE  PlaceOK' /\ in' \in [Requests -> Inputs \cup {NoInput}]
                      /\ canceled' \in [Requests -> BOOLEAN]
  BY TypeParts
<1>. USE ValueAssumption DEF PlaceOK, InputOK
<1>1. ASSUME NEW r \in Requests, RequestNext(r)
      PROVE  PlaceOK' /\ in' \in [Requests -> Inputs \cup {NoInput}]
              /\ canceled' \in [Requests -> BOOLEAN]
  <2>1. CASE \E input \in Inputs : Begin(r, input)
    BY <2>1 DEF Begin, Finish, GoTo
  <2>2. CASE Cancel(r)
    BY <2>2 DEF Cancel
  <2>3. CASE \E o \in Originals : Lookup(r, o) \/ Refuse(r, o) \/ CreateModel(r, o)
    BY <2>3 DEF Lookup, Refuse, CreateModel, Finish, GoTo
  <2>4. CASE Save(r) \/ BatchSave(r)
    BY <2>4 DEF Save, BatchSave, Finish
  <2>5. CASE BatchLock(r)
    BY <2>5 DEF BatchLock, GoTo
  <2>6. CASE BatchFail(r) \/ BatchDone(r)
    BY <2>6 DEF BatchFail, BatchDone, Finish
  <2>. QED BY <1>1, <2>1, <2>2, <2>3, <2>4, <2>5, <2>6 DEF RequestNext
<1>2. CASE \E d \in Deletions : Delete(d)
  BY <1>2 DEF Delete
<1>3. CASE UNCHANGED vars
  BY <1>3 DEF vars
<1>. QED BY <1>1, <1>2, <1>3 DEF Next

LEMMA TypeNext == IInv /\ [Next]_vars => TypeInv'
<1>. SUFFICES ASSUME IInv, [Next]_vars
              PROVE  MemOK' /\ HandOK' /\ PlaceOK' /\ InputOK'
  BY TypeParts, PTL
<1>. QED BY MemNext, HandTypeNext, PlaceTypeNext DEF IInv, InputOK

-----------------------------------------------------------------------------
LEMMA NameNext == IInv /\ [Next]_vars => NameInv'
<1>. SUFFICES ASSUME IInv, [Next]_vars
              PROVE  NameInv'
  OBVIOUS
<1>. MemOK /\ HandOK /\ InputOK /\ NameInv /\ IndexInv
  BY TypeParts DEF IInv
<1>. issued \in Nat /\ \A s \in DOMAIN mem.orig : s \in Nat
  BY ValueAssumption DEF InputOK, MemOK, Ids
<1>1. ASSUME NEW r \in Requests, NEW o \in Originals, Lookup(r, o)
      PROVE  NameInv'
  <2>. DEFINE s == mem.short[o]
  <2>1. Choose(r, o, s) /\ UNCHANGED <<mem, issued>>
    BY <1>1 DEF Lookup
  <2>2. s \in DOMAIN mem.orig /\ mem.orig[s] = o
    BY <1>1 DEF Lookup, Known, IndexInv, IndexesAgree
  <2>3. \A q \in Requests : \A p \in DOMAIN chosen[q] : chosen[q][p] = s => p = o
    BY <2>2 DEF NameInv
  <2>4. s <= issued
    BY <2>2 DEF NameInv
  <2>. HIDE DEF s
  <2>5. \A q \in Requests : \A p \in DOMAIN chosen'[q] :
          \/ p \in DOMAIN chosen[q] /\ chosen'[q][p] = chosen[q][p]
          \/ p = o /\ chosen'[q][p] = s
    BY <2>1, Chosen DEF HandOK
  <2>6. \A q, t \in Requests : \A p \in DOMAIN chosen'[q], x \in DOMAIN chosen'[t] :
          chosen'[q][p] = chosen'[t][x] => p = x
    BY <2>3, <2>5 DEF NameInv
  <2>7. \A q \in Requests : \A p \in DOMAIN chosen'[q] :
          /\ chosen'[q][p] <= issued
          /\ chosen'[q][p] \in DOMAIN mem.orig => mem.orig[chosen'[q][p]] = p
    BY <2>2, <2>4, <2>5 DEF NameInv
  <2>. QED BY <2>1, <2>6, <2>7 DEF NameInv
<1>2. ASSUME NEW r \in Requests, NEW o \in Originals, CreateModel(r, o)
      PROVE  NameInv'
  <2>. PICK id \in Ids : GenerateID(id) /\ Choose(r, o, id)
    BY <1>2 DEF CreateModel
  <2>1. id = issued + 1 /\ issued' = id /\ UNCHANGED mem
    BY <1>2 DEF CreateModel, GenerateID
  <2>2. \A q \in Requests : \A p \in DOMAIN chosen[q] :
          chosen[q][p] \in Nat /\ chosen[q][p] <= issued /\ chosen[q][p] # id
    BY <2>1 DEF NameInv, HandOK, Ids
  <2>3. id \notin DOMAIN mem.orig /\ \A s \in DOMAIN mem.orig : s <= issued'
    BY <2>1 DEF NameInv
  <2>4. \A q \in Requests : \A p \in DOMAIN chosen'[q] :
          \/ p \in DOMAIN chosen[q] /\ chosen'[q][p] = chosen[q][p]
          \/ p = o /\ chosen'[q][p] = id
    BY Chosen DEF HandOK
  <2>5. \A q, t \in Requests : \A p \in DOMAIN chosen'[q], x \in DOMAIN chosen'[t] :
          chosen'[q][p] = chosen'[t][x] => p = x
    BY <2>2, <2>4 DEF NameInv
  <2>6. \A q \in Requests : \A p \in DOMAIN chosen'[q] : chosen'[q][p] <= issued'
    BY <2>1, <2>2, <2>4
  <2>7. \A q \in Requests : \A p \in DOMAIN chosen'[q] :
          chosen'[q][p] \in DOMAIN mem.orig => mem.orig[chosen'[q][p]] = p
    BY <2>3, <2>4 DEF NameInv
  <2>. QED BY <2>1, <2>3, <2>5, <2>6, <2>7 DEF NameInv
<1>3. ASSUME NEW r \in Requests, Save(r) \/ BatchSave(r)
      PROVE  NameInv'
  <2>. PICK o \in DOMAIN chosen[r] : Store(r, o) /\ UNCHANGED <<chosen, issued>>
    BY <1>3, StoresChosen
  <2>. QED BY Stored DEF NameInv
<1>4. CASE \E d \in Deletions : Delete(d)
  BY <1>4, Marked DEF NameInv, MemOK, Delete
<1>5. CASE UNCHANGED <<mem, chosen, issued>>
  BY <1>5 DEF NameInv
<1>. QED BY <1>1, <1>2, <1>3, <1>4, <1>5, Steps

\* The index by original never points to a short that another original was given.
LEMMA IndexNext == IInv /\ [Next]_vars => IndexInv'
<1>. SUFFICES ASSUME IInv, [Next]_vars
              PROVE  IndexInv'
  OBVIOUS
<1>. MemOK /\ NameInv /\ IndexInv
  BY TypeParts DEF IInv
<1>1. ASSUME NEW r \in Requests, Save(r) \/ BatchSave(r)
      PROVE  IndexInv'
  <2>. PICK o \in DOMAIN chosen[r] : Store(r, o)
    BY <1>1, StoresChosen
  <2>1. chosen[r][o] \in DOMAIN mem.orig => mem.orig[chosen[r][o]] = o
    BY DEF NameInv
  <2>2. IndexesAgree'
    BY <2>1, Stored DEF IndexInv, IndexesAgree
  <2>3. \A s \in DOMAIN mem'.orig : mem'.orig[s] \in DOMAIN mem'.short
    BY Stored DEF IndexInv
  <2>. QED BY <2>2, <2>3 DEF IndexInv
<1>2. CASE \E d \in Deletions : Delete(d)
  BY <1>2, Marked DEF IndexInv, IndexesAgree, MemOK
<1>3. CASE UNCHANGED mem
  BY <1>3 DEF IndexInv, IndexesAgree
<1>. QED BY <1>1, <1>2, <1>3, Steps DEF Lookup, CreateModel

LEMMA HandNext == IInv /\ [Next]_vars => HandInv'
<1>. SUFFICES ASSUME IInv, [Next]_vars
              PROVE  HandInv'
  OBVIOUS
<1>. MemOK /\ HandOK /\ HandInv /\ IndexInv /\ PlaceInv
  BY TypeParts DEF IInv
<1>1. ASSUME NEW r \in Requests, NEW o \in Originals, Lookup(r, o)
      PROVE  HandInv'
  <2>1. Choose(r, o, mem.short[o]) /\ UNCHANGED <<mem, toSave>>
    BY <1>1 DEF Lookup
  <2>2. mem.short[o] \in DOMAIN mem.orig
    BY <1>1 DEF Lookup, Known, IndexInv, IndexesAgree
  <2>3. \A q \in Requests : DOMAIN chosen[q] \subseteq DOMAIN chosen'[q]
    BY <2>1, Chosen DEF HandOK
  <2>4. \A q \in Requests : \A p \in DOMAIN chosen'[q] :
          \/ p \in DOMAIN chosen[q] /\ chosen'[q][p] = chosen[q][p]
          \/ chosen'[q][p] = mem.short[o]
    BY <2>1, Chosen DEF HandOK
  <2>. QED BY <2>1, <2>2, <2>3, <2>4 DEF HandInv
<1>2. ASSUME NEW r \in Requests, NEW o \in Originals, CreateModel(r, o)
      PROVE  HandInv'
  <2>. PICK id \in Ids : Choose(r, o, id)
    BY <1>2 DEF CreateModel
  <2>1. UNCHANGED mem /\ toSave' = [toSave EXCEPT ![r] = Append(@, o)]
    BY <1>2 DEF CreateModel
  <2>2. /\ DOMAIN toSave'[r] = DOMAIN toSave[r] \cup {Len(toSave[r]) + 1}
        /\ \A i \in DOMAIN toSave[r] : toSave'[r][i] = toSave[r][i]
        /\ toSave'[r][Len(toSave[r]) + 1] = o
        /\ \A q \in Requests : q # r => toSave'[q] = toSave[q]
    BY <2>1 DEF HandOK
  <2>. QED BY <2>1, <2>2, Chosen DEF HandInv, HandOK
<1>3. ASSUME NEW r \in Requests, Save(r) \/ BatchSave(r)
      PROVE  HandInv'
  <2>. PICK o \in DOMAIN chosen[r] : /\ toSave[r] # <<>> /\ o = Head(toSave[r])
                                     /\ Store(r, o) /\ UNCHANGED chosen
    BY <1>3, StoresChosen
  <2>1. chosen[r][o] \in DOMAIN mem'.orig /\ DOMAIN mem.orig \subseteq DOMAIN mem'.orig
    BY Stored
  <2>2. CASE UNCHANGED toSave
    BY <2>1, <2>2 DEF HandInv
  <2>3. CASE toSave' = [toSave EXCEPT ![r] = Tail(@)]
    <3>1. /\ \A i \in DOMAIN toSave'[r] : i + 1 \in DOMAIN toSave[r] /\ toSave'[r][i] = toSave[r][i + 1]
          /\ \A i \in DOMAIN toSave[r] : i = 1 \/ (i - 1 \in DOMAIN toSave'[r] /\ toSave'[r][i - 1] = toSave[r][i])
          /\ \A q \in Requests : q # r => toSave'[q] = toSave[q]
          /\ toSave[r][1] = o
      BY <2>3 DEF HandOK
    <3>. QED BY <2>1, <3>1 DEF HandInv
  <2>. QED BY <1>3, <2>2, <2>3 DEF Save, BatchSave
<1>4. CASE \E d \in Deletions : Delete(d)
  BY <1>4, Marked DEF HandInv, MemOK, Delete
<1>5. CASE UNCHANGED <<mem, chosen, toSave>>
  BY <1>5 DEF HandInv
<1>. QED BY <1>1, <1>2, <1>3, <1>4, <1>5, Steps

\* No link leaves the maps.
LEMMA Grows == IInv /\ [Next]_vars => DOMAIN mem.orig \subseteq DOMAIN mem'.orig
<1>. SUFFICES ASSUME IInv, [Next]_vars
              PROVE  DOMAIN mem.orig \subseteq DOMAIN mem'.orig
  OBVIOUS
<1>. MemOK
  BY TypeParts DEF IInv
<1>1. CASE \E r \in Requests : Save(r) \/ BatchSave(r)
  BY <1>1, StoresChosen, Stored
<1>2. CASE \E d \in Deletions : Delete(d)
  BY <1>2, Marked DEF MemOK
<1>. QED BY <1>1, <1>2, Steps DEF Lookup, CreateModel

\* A request that is no batch has one original.
LEMMA OneOriginal ==
  ASSUME NEW input \in Inputs, input.kind # "batch"
  PROVE  /\ DOMAIN input.originals = {1}
         /\ Range(input.originals) = {input.originals[1]}
BY InputAssumption DEF Range

LEMMA PlaceNext == IInv /\ [Next]_vars => PlaceInv'
<1>. SUFFICES ASSUME IInv, [Next]_vars
              PROVE  PlaceInv'
  OBVIOUS
<1>. MemOK /\ HandOK /\ PlaceOK /\ InputOK /\ HandInv /\ IndexInv /\ PlaceInv
  BY TypeParts DEF IInv
<1>1. DOMAIN mem.orig \subseteq DOMAIN mem'.orig
  BY Grows
<1>2. ASSUME NEW q \in Requests, at'[q] = at[q], in'[q] = in[q], status'[q] = status[q],
             chosen'[q] = chosen[q], toSave'[q] = toSave[q]
      PROVE  Place(q)'
  BY <1>1, <1>2 DEF PlaceInv, Place, Answered
<1>3. ASSUME NEW r \in Requests, RequestNext(r)
      PROVE  PlaceInv'
  <2>1. ASSUME NEW q \in Requests, q # r
        PROVE  Place(q)'
    <3>. SUFFICES /\ at'[q] = at[q] /\ in'[q] = in[q] /\ status'[q] = status[q]
                  /\ chosen'[q] = chosen[q] /\ toSave'[q] = toSave[q]
      BY <1>2
    <3>. USE <2>1 DEF PlaceOK, InputOK, HandOK
    <3>1. CASE \E input \in Inputs : Begin(r, input)
      BY <3>1 DEF Begin, Finish, GoTo
    <3>2. CASE Cancel(r)
      BY <3>2 DEF Cancel
    <3>3. ASSUME NEW o \in Originals, Lookup(r, o)
          PROVE  /\ at'[q] = at[q] /\ in'[q] = in[q] /\ status'[q] = status[q]
                 /\ chosen'[q] = chosen[q] /\ toSave'[q] = toSave[q]
      <4>1. chosen'[q] = chosen[q]
        BY <3>3, Chosen DEF Lookup
      <4>. QED BY <3>3, <4>1 DEF Lookup, Finish, GoTo
    <3>4. CASE \E o \in Originals : Refuse(r, o)
      BY <3>4 DEF Refuse, Finish
    <3>5. ASSUME NEW o \in Originals, CreateModel(r, o)
          PROVE  /\ at'[q] = at[q] /\ in'[q] = in[q] /\ status'[q] = status[q]
                 /\ chosen'[q] = chosen[q] /\ toSave'[q] = toSave[q]
      <4>1. chosen'[q] = chosen[q]
        BY <3>5, Chosen DEF CreateModel
      <4>. QED BY <3>5, <4>1 DEF CreateModel, GoTo
    <3>6. CASE Save(r)
      BY <3>6 DEF Save, Finish
    <3>7. CASE BatchLock(r)
      BY <3>7 DEF BatchLock, GoTo
    <3>8. CASE BatchSave(r)
      BY <3>8 DEF BatchSave
    <3>9. CASE BatchFail(r)
      BY <3>9 DEF BatchFail, Finish
    <3>10. CASE BatchDone(r)
      BY <3>10 DEF BatchDone, Finish
    <3>. QED BY <1>3, <3>1, <3>2, <3>3, <3>4, <3>5, <3>6, <3>7, <3>8, <3>9, <3>10 DEF RequestNext
  <2>2. Place(r)'
    <3>. Place(r)
      BY DEF PlaceInv
    <3>1. CASE \E input \in Inputs : Begin(r, input)
      BY <3>1 DEF Begin, Finish, GoTo, Place, Answered, PlaceOK, InputOK
    <3>2. CASE Cancel(r)
      BY <3>2, <1>2 DEF Cancel
    <3>3. ASSUME NEW o \in Originals, Lookup(r, o)
          PROVE  Place(r)'
      <4>. in[r] \in Inputs /\ UNCHANGED <<in, toSave, mem>> /\ at[r] = "lookup" /\ status[r] = "none"
        BY <3>3 DEF Lookup, Place, PlaceOK
      <4>. DOMAIN chosen'[r] = DOMAIN chosen[r] \cup {o}
        BY <3>3, Chosen DEF Lookup, HandOK
      <4>1. CASE in[r].kind = "batch"
        <5>1. at' = [at EXCEPT ![r] = IF LastLookup(r, o) THEN "save" ELSE "lookup"] /\ UNCHANGED status
          BY <3>3, <4>1 DEF Lookup, GoTo
        <5>. QED BY <4>1, <5>1 DEF Place, Answered, LastLookup, PlaceOK
      <4>2. CASE in[r].kind # "batch"
        <5>1. at'[r] = "done" /\ DOMAIN chosen[r] = {}
          BY <3>3, <4>2 DEF Lookup, Finish, Place, PlaceOK
        <5>3. Range(in[r].originals) = {o}
          BY <3>3, <4>2, OneOriginal DEF Lookup, Open
        <5>2. chosen'[r][o] = mem.short[o] /\ mem.short[o] \in DOMAIN mem.orig
          BY <3>3, Chosen DEF Lookup, Known, HandOK, IndexInv, IndexesAgree
        <5>. QED BY <4>2, <5>1, <5>2, <5>3 DEF Place, Answered
      <4>. QED BY <4>1, <4>2
    <3>4. CASE \E o \in Originals : Refuse(r, o)
      BY <3>4 DEF Refuse, Finish, Place, Answered, PlaceOK
    <3>5. ASSUME NEW o \in Originals, CreateModel(r, o)
          PROVE  Place(r)'
      <4>. /\ in[r] \in Inputs /\ UNCHANGED <<in, status>> /\ at[r] = "lookup" /\ status[r] = "none"
           /\ toSave'[r] = Append(toSave[r], o)
           /\ at'[r] = IF LastLookup(r, o) THEN "save" ELSE "lookup"
        BY <3>5 DEF CreateModel, GoTo, Place, PlaceOK, HandOK
      <4>. DOMAIN chosen'[r] = DOMAIN chosen[r] \cup {o}
        BY <3>5, Chosen DEF CreateModel, HandOK
      <4>1. CASE in[r].kind = "batch"
        BY <4>1 DEF Place, Answered, LastLookup
      <4>2. CASE in[r].kind # "batch"
        <5>1. o = in[r].originals[1] /\ Range(in[r].originals) = {o}
          BY <3>5, <4>2, OneOriginal DEF CreateModel, Open
        <5>2. at'[r] = "save"
          BY <5>1 DEF LastLookup
        <5>3. toSave[r] = <<>>
          BY <4>2 DEF Place
        <5>4. toSave'[r] = <<o>>
          BY <5>3
        <5>. QED BY <4>2, <5>1, <5>2, <5>4 DEF Place, Answered
      <4>. QED BY <4>1, <4>2
    <3>6. CASE Save(r)
      <4>. PICK o \in DOMAIN chosen[r] : o = Head(toSave[r]) /\ Store(r, o)
        BY <3>6, StoresChosen
      <4>1. chosen[r][o] \in DOMAIN mem'.orig
        BY Stored
      <4>2. toSave[r] = <<o>> /\ Range(in[r].originals) \subseteq DOMAIN chosen[r] /\ in[r] \in Inputs
        BY <3>6 DEF Save, Place
      <4>3. \A i \in DOMAIN toSave[r] : toSave[r][i] = o
        BY <4>2
      <4>4. \A p \in DOMAIN chosen[r] : chosen[r][p] \in DOMAIN mem'.orig
        BY <1>1, <4>1, <4>3 DEF HandInv
      <4>. QED BY <3>6, <4>2, <4>4 DEF Save, Finish, Place, Answered, PlaceOK
    <3>7. CASE BatchLock(r)
      BY <3>7 DEF BatchLock, GoTo, Place, Answered, PlaceOK
    <3>8. CASE BatchSave(r)
      BY <3>8 DEF BatchSave, Place, Answered
    <3>9. CASE BatchFail(r)
      BY <3>9 DEF BatchFail, Finish, Place, Answered, PlaceOK
    <3>10. CASE BatchDone(r)
      <4>1. \A p \in DOMAIN chosen[r] : chosen[r][p] \in DOMAIN mem.orig
        BY <3>10 DEF BatchDone, HandInv
      <4>. QED BY <3>10, <4>1 DEF BatchDone, Finish, Place, Answered, PlaceOK
    <3>. QED BY <1>3, <3>1, <3>2, <3>3, <3>4, <3>5, <3>6, <3>7, <3>8, <3>9, <3>10 DEF RequestNext
  <2>. QED BY <2>1, <2>2 DEF PlaceInv
<1>4. CASE \E d \in Deletions : Delete(d)
  BY <1>4, <1>2 DEF Delete, PlaceInv
<1>5. CASE UNCHANGED vars
  BY <1>5, <1>2 DEF vars, PlaceInv
<1>. QED BY <1>3, <1>4, <1>5 DEF Next

-----------------------------------------------------------------------------
\* The inductive invariant behind the results: one original to an identifier, wherever it
\* is, and nothing answered that is not stored.
THEOREM Invariance == Spec => []IInv
<1>1. Init => IInv
  BY InitInv
<1>2. IInv /\ [Next]_vars => IInv'
  BY TypeNext, NameNext, IndexNext, HandNext, PlaceNext DEF IInv
<1>. QED BY <1>1, <1>2, PTL DEF Spec

\* Every variable keeps its type, and the mutex is held by the batch that is saving.
THEOREM TypeSafe == Spec => []TypeOK
<1>1. IInv => TypeOK
  BY DEF IInv, TypeInv
<1>. QED BY <1>1, Invariance, PTL

\* The index by original leads to shorts that lead back (in_memory_repository.go:73-82),
\* however many requests store one original.
THEOREM IndexesAgreeSafe == Spec => []IndexesAgree
<1>1. IInv => IndexesAgree
  BY DEF IInv, IndexInv
<1>. QED BY <1>1, Invariance, PTL

\* What was answered leads to its original or is gone (service.go:85-213), for every
\* order of requests and deletions.
THEOREM AnswersResolveSafe == Spec => []AnswersResolve
<1>1. IInv => AnswersResolve
  <2>. SUFFICES ASSUME IInv, NEW r \in Requests, Answered(r), NEW i \in DOMAIN in[r].originals
                PROVE  Find(mem, Answer(r, i)) \in {in[r].originals[i], IsDeleted}
    BY DEF AnswersResolve
  <2>. DEFINE o == in[r].originals[i]
  <2>1. o \in DOMAIN chosen[r] /\ chosen[r][o] \in DOMAIN mem.orig
    BY DEF IInv, PlaceInv, Place, Range
  <2>2. mem.orig[chosen[r][o]] = o
    BY <2>1 DEF IInv, NameInv
  <2>. QED BY <2>1, <2>2 DEF Find, Answer
<1>. QED BY <1>1, Invariance, PTL

\* No request gives a second short to an original that was answered, unless its context is
\* done (service.go:152-200).
THEOREM NoSecondShort == Spec => NoLateDuplicate
<1>. DEFINE A == \A r \in Requests : Len(toSave'[r]) > Len(toSave[r]) =>
                   LET o == toSave'[r][Len(toSave'[r])] IN
                     canceled[r] \/ \A q \in Requests :
                       Answered(q) => o \notin Range(in[q].originals)
<1>1. IInv /\ [Next]_vars => [A]_vars
  <2>. SUFFICES ASSUME IInv, [Next]_vars, NEW r \in Requests,
                       Len(toSave'[r]) > Len(toSave[r]), ~canceled[r],
                       NEW q \in Requests, Answered(q)
                PROVE  toSave'[r][Len(toSave'[r])] \notin Range(in[q].originals)
    OBVIOUS
  <2>. HandOK
    BY TypeParts DEF IInv
  <2>1. PICK o \in Originals : CreateModel(r, o)
    <3>1. PICK s \in Requests, o \in Originals : CreateModel(s, o)
      <4>1. ~(\E s \in Requests : Save(s)) /\ ~(\E d \in Deletions : Delete(d)) /\ ~UNCHANGED toSave
        BY DEF Save, Delete, HandOK
      <4>2. ASSUME NEW s \in Requests, BatchSave(s)
            PROVE  FALSE
        <5>1. toSave[s] \in Seq(Originals) /\ toSave[s] # <<>>
          BY <4>2 DEF BatchSave, HandOK
        <5>2. Len(Tail(toSave[s])) < Len(toSave[s])
          BY <5>1
        <5>3. toSave'[r] = IF r = s THEN Tail(toSave[s]) ELSE toSave[r]
          BY <4>2 DEF BatchSave, HandOK
        <5>4. Len(toSave[r]) \in Nat /\ Len(toSave'[r]) \in Nat
          BY <5>1, <5>3 DEF HandOK
        <5>. QED BY <5>2, <5>3, <5>4
      <4>. QED BY <4>1, <4>2, Steps DEF Lookup
    <3>2. s = r
      BY <3>1 DEF CreateModel, HandOK
    <3>. QED BY <3>1, <3>2
  <2>2. toSave'[r][Len(toSave'[r])] = o
    BY <2>1 DEF CreateModel, HandOK
  <2>3. o \notin DOMAIN mem.short
    BY <2>1 DEF CreateModel, Known
  <2>4. \A x \in Range(in[q].originals) : x \in DOMAIN mem.short
    <3>. TAKE x \in Range(in[q].originals)
    <3>1. x \in DOMAIN chosen[q] /\ chosen[q][x] \in DOMAIN mem.orig
      BY DEF IInv, PlaceInv, Place
    <3>2. mem.orig[chosen[q][x]] = x
      BY <3>1 DEF IInv, NameInv
    <3>. QED BY <3>1, <3>2 DEF IInv, IndexInv
  <2>. QED BY <2>2, <2>3, <2>4
<1>. QED BY <1>1, Invariance, PTL DEF Spec, NoLateDuplicate
-----------------------------------------------------------------------------
(* The store of links *)

\* The short that number i of what a request has to store will get.
Id(r, i) == chosen[r][toSave[r][i]]

\* What a request has to store is new: it is not stored, and nobody else will store it.
FreshInv ==
  /\ \A r \in Requests : at[r] # "done" =>
       \A i \in DOMAIN toSave[r] : Id(r, i) \notin DOMAIN mem.orig
  /\ \A r, q \in Requests : at[r] # "done" /\ at[q] # "done" =>
       \A i \in DOMAIN toSave[r], j \in DOMAIN toSave[q] :
         Id(r, i) = Id(q, j) => r = q /\ i = j

\* A request that is done stays as it is.
LEMMA DoneStays ==
  ASSUME IInv, [Next]_vars, NEW q \in Requests, at[q] = "done"
  PROVE  at'[q] = "done" /\ status'[q] = status[q] /\ in'[q] = in[q] /\ chosen'[q] = chosen[q]
<1>. PlaceOK /\ InputOK /\ HandOK
  BY TypeParts DEF IInv
<1>. USE DEF PlaceOK, InputOK
<1>1. ASSUME NEW r \in Requests, RequestNext(r)
      PROVE  at'[q] = "done" /\ status'[q] = status[q] /\ in'[q] = in[q] /\ chosen'[q] = chosen[q]
  <2>1. CASE \E input \in Inputs : Begin(r, input)
    BY <2>1 DEF Begin, Finish, GoTo
  <2>2. CASE Cancel(r)
    BY <2>2 DEF Cancel
  <2>3. ASSUME NEW o \in Originals, Lookup(r, o) \/ CreateModel(r, o)
        PROVE  at'[q] = "done" /\ status'[q] = status[q] /\ in'[q] = in[q] /\ chosen'[q] = chosen[q]
    <3>1. q # r
      BY <2>3 DEF Lookup, CreateModel
    <3>2. chosen'[q] = chosen[q]
      BY <2>3, <3>1, Chosen DEF Lookup, CreateModel, HandOK
    <3>. QED BY <2>3, <3>1, <3>2 DEF Lookup, CreateModel, Finish, GoTo
  <2>4. CASE \E o \in Originals : Refuse(r, o)
    BY <2>4 DEF Refuse, Finish
  <2>5. CASE Save(r) \/ BatchSave(r)
    BY <2>5 DEF Save, BatchSave, Finish
  <2>6. CASE BatchLock(r)
    BY <2>6 DEF BatchLock, GoTo
  <2>7. CASE BatchFail(r) \/ BatchDone(r)
    BY <2>7 DEF BatchFail, BatchDone, Finish
  <2>. QED BY <1>1, <2>1, <2>2, <2>3, <2>4, <2>5, <2>6, <2>7 DEF RequestNext
<1>2. CASE \E d \in Deletions : Delete(d)
  BY <1>2 DEF Delete
<1>3. CASE UNCHANGED vars
  BY <1>3 DEF vars
<1>. QED BY <1>1, <1>2, <1>3 DEF Next

LEMMA FreshInit == Init => FreshInv
BY DEF Init, FreshInv

LEMMA FreshNext == IInv /\ FreshInv /\ [Next]_vars => FreshInv'
<1>. SUFFICES ASSUME IInv, FreshInv, [Next]_vars
              PROVE  FreshInv'
  OBVIOUS
<1>. MemOK /\ HandOK /\ InputOK /\ PlaceOK /\ NameInv /\ IndexInv /\ HandInv
  BY TypeParts DEF IInv
<1>u. \A q \in Requests : at'[q] # "done" => at[q] # "done"
  BY DoneStays
\* A step after which every short to be stored was to be stored before, at one place.
<1>n. ASSUME UNCHANGED <<mem, chosen, toSave>>
      PROVE  FreshInv'
  BY <1>n, <1>u DEF FreshInv, Id
<1>1. ASSUME NEW r \in Requests, NEW o \in Originals, Lookup(r, o)
      PROVE  FreshInv'
  <2>1. Choose(r, o, mem.short[o]) /\ UNCHANGED <<mem, toSave>> /\ o \notin DOMAIN chosen[r]
    BY <1>1 DEF Lookup, Open
  <2>2. \A q \in Requests : \A i \in DOMAIN toSave[q] : Id(q, i)' = Id(q, i)
    BY <2>1, Chosen DEF HandInv, HandOK, Id
  <2>. QED BY <2>1, <2>2, <1>u DEF FreshInv
<1>2. ASSUME NEW r \in Requests, NEW o \in Originals, CreateModel(r, o)
      PROVE  FreshInv'
  <2>. PICK id \in Ids : GenerateID(id) /\ Choose(r, o, id)
    BY <1>2 DEF CreateModel
  <2>1. id = issued + 1 /\ UNCHANGED mem /\ o \notin DOMAIN chosen[r]
    BY <1>2 DEF CreateModel, GenerateID, Open
  <2>. PICK n \in Nat : n = Len(toSave[r]) + 1
    BY DEF HandOK
  <2>2. /\ DOMAIN toSave'[r] = DOMAIN toSave[r] \cup {n}
        /\ \A i \in DOMAIN toSave[r] : toSave'[r][i] = toSave[r][i]
        /\ toSave'[r][n] = o
        /\ \A q \in Requests : q # r => toSave'[q] = toSave[q]
    BY <1>2 DEF CreateModel, HandOK
  <2>3. \A q \in Requests : \A p \in DOMAIN chosen[q] : chosen[q][p] # id
    <3>1. issued \in Nat
      BY ValueAssumption DEF InputOK
    <3>. QED BY <2>1, <3>1 DEF NameInv, HandOK, Ids
  <2>4. id \notin DOMAIN mem.orig
    <3>1. issued \in Nat /\ \A s \in DOMAIN mem.orig : s \in Nat
      BY ValueAssumption DEF InputOK, MemOK, Ids
    <3>. QED BY <2>1, <3>1 DEF NameInv
  <2>5. \A q \in Requests : \A i \in DOMAIN toSave[q] :
          i \in DOMAIN toSave'[q] /\ Id(q, i)' = Id(q, i) /\ Id(q, i) # id
    BY <2>1, <2>2, <2>3, Chosen DEF HandInv, HandOK, Id
  <2>6. \A q \in Requests : \A i \in DOMAIN toSave'[q] :
          i \in DOMAIN toSave[q] \/ (q = r /\ i = n)
    BY <2>2
  <2>7. Id(r, n)' = id
    BY <2>2, Chosen DEF HandOK, Id
  <2>. QED BY <1>u, <2>1, <2>4, <2>5, <2>6, <2>7 DEF FreshInv
<1>3. ASSUME NEW r \in Requests, Save(r) \/ BatchSave(r)
      PROVE  FreshInv'
  <2>. PICK o \in DOMAIN chosen[r] : /\ toSave[r] # <<>> /\ o = Head(toSave[r])
                                     /\ Store(r, o) /\ UNCHANGED chosen
    BY <1>3, StoresChosen
  <2>1. DOMAIN mem'.orig = DOMAIN mem.orig \cup {Id(r, 1)} /\ 1 \in DOMAIN toSave[r]
    <3>1. o = toSave[r][1] /\ 1 \in DOMAIN toSave[r]
      BY DEF HandOK
    <3>. QED BY <3>1, Stored DEF Id
  <2>2. at[r] # "done"
    BY <1>3 DEF Save, BatchSave
  <2>3. CASE Save(r)
    <3>1. UNCHANGED toSave /\ at'[r] = "done"
      BY <2>3 DEF Save, Finish, PlaceOK
    <3>2. \A q \in Requests : \A i \in DOMAIN toSave[q] : Id(q, i)' = Id(q, i)
      BY <3>1 DEF Id
    <3>. QED BY <1>u, <2>1, <2>2, <3>1, <3>2 DEF FreshInv
  <2>4. CASE BatchSave(r)
    <3>1. /\ \A i \in DOMAIN toSave'[r] : /\ i \in Nat /\ i + 1 \in DOMAIN toSave[r] /\ i + 1 # 1
                                           /\ toSave'[r][i] = toSave[r][i + 1]
          /\ \A q \in Requests : q # r => toSave'[q] = toSave[q]
      <4>1. toSave'[r] = Tail(toSave[r]) /\ \A q \in Requests : q # r => toSave'[q] = toSave[q]
        BY <2>4 DEF BatchSave, HandOK
      <4>2. toSave[r] \in Seq(Originals) /\ toSave[r] # <<>>
        BY DEF HandOK
      <4>. QED BY <4>1, <4>2
    <3>. DEFINE Before(q, i) == IF q = r THEN i + 1 ELSE i
    <3>2. \A q \in Requests : \A i \in DOMAIN toSave'[q] :
            /\ Before(q, i) \in DOMAIN toSave[q] /\ Id(q, i)' = Id(q, Before(q, i))
            /\ ~(q = r /\ Before(q, i) = 1)
      BY <3>1 DEF Id
    <3>3. \A q \in Requests : \A i, j \in DOMAIN toSave'[q] : Before(q, i) = Before(q, j) => i = j
      BY <3>1
    <3>. HIDE DEF Before
    <3>. QED BY <1>u, <2>1, <2>2, <3>2, <3>3 DEF FreshInv
  <2>. QED BY <1>3, <2>3, <2>4
<1>4. ASSUME NEW d \in Deletions, Delete(d)
      PROVE  FreshInv'
  <2>1. mem'.orig = mem.orig /\ UNCHANGED <<chosen, toSave>>
    BY <1>4, Marked DEF MemOK, Delete
  <2>. QED BY <2>1, <1>u DEF FreshInv, Id
<1>. QED BY <1>n, <1>1, <1>2, <1>3, <1>4, Steps

\* A link of the store of which the shorts M are deleted, and what a deletion of S makes of it.
LinkOf(s, o, u, M) == Url(s, o, u, s \in M)
MarkedBy(l, S) == [l EXCEPT !.deleted = @ \/ l.short \in S]

LEMMA LinkMarked ==
  ASSUME NEW s, NEW o, NEW u, NEW M, NEW S
  PROVE  MarkedBy(LinkOf(s, o, u, M), S) = LinkOf(s, o, u, M \cup S)
<1>. DEFINE T == [short : {s}, original : {o}, user : {u}, deleted : BOOLEAN]
            a == LinkOf(s, o, u, M)
            b == LinkOf(s, o, u, M \cup S)
            c == MarkedBy(a, S)
<1>1. /\ a \in T /\ a.short = s /\ a.deleted = (s \in M)
      /\ b \in T /\ b.deleted = (s \in M \cup S)
  BY DEF LinkOf, Url
<1>. HIDE DEF a, b
<1>2. c \in T /\ c.deleted = (a.deleted \/ a.short \in S)
  BY <1>1 DEF MarkedBy
<1>3. c.deleted = b.deleted
  BY <1>1, <1>2
<1>. HIDE DEF c
<1>4. c = b
  BY <1>1, <1>2, <1>3
<1>. QED BY <1>4 DEF a, b, c

\* What a request stores is a new link of the contract.
LEMMA StoreAdds ==
  ASSUME IInv, FreshInv, NEW r \in Requests, Save(r) \/ BatchSave(r)
  PROVE  Contract!Add
<1>. MemOK /\ HandOK
  BY TypeParts DEF IInv
<1>. PICK o \in DOMAIN chosen[r] : toSave[r] # <<>> /\ o = Head(toSave[r]) /\ Store(r, o)
  BY StoresChosen
<1>. DEFINE id == chosen[r][o]
<1>1. id \notin DOMAIN mem.orig
  <2>1. o = toSave[r][1] /\ 1 \in DOMAIN toSave[r]
    BY DEF HandOK
  <2>2. at[r] # "done"
    BY DEF Save, BatchSave
  <2>. QED BY <2>1, <2>2 DEF FreshInv, Id
<1>. HIDE DEF id
<1>2. /\ DOMAIN mem'.orig = DOMAIN mem.orig \cup {id}
      /\ \A x \in DOMAIN mem.orig : mem'.orig[x] = mem.orig[x] /\ mem'.user[x] = mem.user[x]
      /\ mem'.deleted = mem.deleted /\ id \notin mem.deleted
  BY <1>1, Stored DEF MemOK, id
<1>. DEFINE Link(x) == Url(x, mem.orig[x], mem.user[x], x \in mem.deleted)
            After(x) == Url(x, mem'.orig[x], mem'.user[x], x \in mem'.deleted)
<1>3. Links = {Link(x) : x \in DOMAIN mem.orig} /\ Links' = {After(x) : x \in DOMAIN mem'.orig}
  BY DEF Links
<1>4. \A x \in DOMAIN mem.orig : After(x) = Link(x)
  BY <1>2
<1>5. \A x \in DOMAIN mem'.orig : After(x).short = x
  BY DEF Url
<1>6. After(id).deleted = FALSE
  <2>1. (id \in mem'.deleted) = FALSE
    BY <1>2
  <2>2. After(id).deleted = (id \in mem'.deleted)
    BY DEF Url
  <2>. QED BY <2>1, <2>2
<1>. HIDE DEF Link, After
<1>7. Links \subseteq Links'
  BY <1>2, <1>3, <1>4
<1>8. ASSUME NEW l \in Links' \ Links
      PROVE  l.deleted = FALSE /\ \A k \in Links' : k.short = l.short => k = l
  <2>1. l = After(id)
    BY <1>2, <1>3, <1>4, <1>8
  <2>. QED BY <1>2, <1>3, <1>5, <1>6, <2>1
<1>. QED BY <1>7, <1>8 DEF Contract!Add

\* A flush is a deletion of the contract.
LEMMA DeleteMaps ==
  ASSUME IInv, NEW d \in Deletions, Delete(d)
  PROVE  Contract!Delete
<1>. MemOK
  BY TypeParts DEF IInv
<1>. DEFINE S == {s \in d.shorts \cap DOMAIN mem.user : mem.user[s] = d.user}
            Link(x) == LinkOf(x, mem.orig[x], mem.user[x], mem.deleted)
            After(x) == LinkOf(x, mem.orig[x], mem.user[x], mem.deleted \cup S)
<1>1. mem'.orig = mem.orig /\ mem'.user = mem.user /\ mem'.deleted = mem.deleted \cup S
  BY Marked DEF MemOK
<1>2. d.user \in Users
  BY InputAssumption
<1>3. Links = {Link(x) : x \in DOMAIN mem.orig} /\ Links' = {After(x) : x \in DOMAIN mem.orig}
  BY <1>1 DEF Links, LinkOf
<1>4. S \subseteq {l.short : l \in Contract!OwnedBy(d.user)}
  <2>. SUFFICES ASSUME NEW s \in S
                PROVE  s \in {l.short : l \in Contract!OwnedBy(d.user)}
    OBVIOUS
  <2>1. Link(s) \in Links /\ Link(s).short = s /\ Link(s).user = d.user
    BY <1>3 DEF MemOK, LinkOf, Url
  <2>. QED BY <2>1 DEF Contract!OwnedBy
<1>5. \A x \in DOMAIN mem.orig : MarkedBy(Link(x), S) = After(x)
  <2>. HIDE DEF S
  <2>. QED BY LinkMarked
<1>6. Links' = {MarkedBy(l, S) : l \in Links}
  <2>. HIDE DEF Link, After, S
  <2>. QED BY <1>3, <1>5
<1>7. UNCHANGED Told
  BY DEF Told, Answered, Answer, Delete
<1>. HIDE DEF S
<1>. QED BY <1>2, <1>4, <1>6, <1>7 DEF Contract!Delete, MarkedBy

\* What was answered is a stored link.
LEMMA ToldLeads == IInv => Told \subseteq Contract!Leads(Links)
<1>. SUFFICES ASSUME IInv, NEW r \in Requests, Answered(r), NEW i \in DOMAIN in[r].originals
              PROVE  <<Answer(r, i), in[r].originals[i]>> \in Contract!Leads(Links)
  BY DEF Told
<1>. DEFINE o == in[r].originals[i]
            s == chosen[r][o]
            l == Url(s, mem.orig[s], mem.user[s], s \in mem.deleted)
<1>1. o \in DOMAIN chosen[r] /\ s \in DOMAIN mem.orig
  BY DEF IInv, PlaceInv, Place, Range
<1>2. mem.orig[s] = o
  BY <1>1 DEF IInv, NameInv
<1>3. l \in Links /\ l.short = s /\ l.original = o
  BY <1>1, <1>2 DEF Links, Url
<1>. QED BY <1>3 DEF Contract!Leads, Answer

LEMMA ToldStays == IInv /\ [Next]_vars => Told \subseteq Told'
<1>. SUFFICES ASSUME IInv, [Next]_vars, NEW r \in Requests, Answered(r),
                     NEW i \in DOMAIN in[r].originals
              PROVE  <<Answer(r, i), in[r].originals[i]>> \in Told'
  BY DEF Told
<1>1. at[r] = "done"
  BY DEF IInv, PlaceInv, Place, Answered
<1>2. status'[r] = status[r] /\ in'[r] = in[r] /\ chosen'[r] = chosen[r]
  BY <1>1, DoneStays
<1>. QED BY <1>2 DEF Told, Answer, Answered

LEMMA ImplementsStep ==
  IInv /\ IInv' /\ FreshInv /\ [Next]_vars => [Contract!Next]_Contract!svars
<1>. SUFFICES ASSUME IInv, IInv', FreshInv, [Next]_vars
              PROVE  Contract!Next
  BY DEF Contract!svars
<1>1. (Told \subseteq Contract!Leads(Links))'
  BY ToldLeads, PTL
<1>2. Contract!Tell
  BY <1>1, ToldStays DEF Contract!Tell
<1>3. UNCHANGED mem => Contract!Add
  BY DEF Contract!Add, Links
<1>4. ASSUME NEW r \in Requests, Save(r) \/ BatchSave(r)
      PROVE  Contract!Next
  BY <1>2, <1>4, StoreAdds DEF Contract!Next
<1>5. ASSUME NEW d \in Deletions, Delete(d)
      PROVE  Contract!Next
  BY <1>5, DeleteMaps DEF Contract!Next
<1>. QED BY <1>2, <1>3, <1>4, <1>5, Steps DEF Contract!Next, Lookup, CreateModel

\* The requests implement the store of links (service.go:85-213, in_memory_repository.go:73-174):
\* each step adds links, answers what is stored, or deletes links of one user.
THEOREM Refinement == Spec => ImplementsStore
<1>1. Init => Contract!Init
  BY DEF Init, EmptyStorage, Contract!Init, Links, Told, Answered
<1>2. IInv /\ [Next]_vars /\ FreshInv => FreshInv'
  BY FreshNext
<1>3. Spec => []FreshInv
  BY <1>2, FreshInit, Invariance, PTL DEF Spec
<1>4. IInv /\ IInv' /\ FreshInv /\ [Next]_vars => [Contract!Next]_Contract!svars
  BY ImplementsStep
<1>. QED BY <1>1, <1>3, <1>4, Invariance, PTL DEF Spec, ImplementsStore, Contract!Spec

\* The links are records, one for each short.
LinkType == [short : Ids, original : {mem.orig[s] : s \in DOMAIN mem.orig},
             user : {mem.user[s] : s \in DOMAIN mem.orig}, deleted : BOOLEAN]

LEMMA OneLink ==
  ASSUME MemOK
  PROVE  Links \subseteq LinkType /\ \A k, l \in Links : k.short = l.short => k = l
<1>1. ASSUME NEW l \in Links
      PROVE  l \in LinkType /\ l = Url(l.short, mem.orig[l.short], mem.user[l.short],
                                       l.short \in mem.deleted)
  <2>1. PICK s \in DOMAIN mem.orig : l = Url(s, mem.orig[s], mem.user[s], s \in mem.deleted)
    BY DEF Links
  <2>2. l.short = s
    BY <2>1 DEF Url
  <2>3. l \in LinkType
    BY <2>1 DEF LinkType, Url, MemOK
  <2>. QED BY <2>1, <2>2, <2>3
<1>. QED BY <1>1

\* A link that is stored stays, as the only one of its short, with its original and user,
\* whatever requests and flushes do at the same time (service.go:85-213,
\* in_memory_repository.go:73-174): a short that was handed out never leads elsewhere.
THEOREM LinksKept == Spec => [][Contract!LinksKept]_vars
<1>1. ASSUME IInv, (\A k, l \in Links : k.short = l.short => k = l)', Contract!Next
      PROVE  Contract!LinksKept
  <2>1. Links \subseteq LinkType /\ \A k, l \in Links : k.short = l.short => k = l
    BY <1>1, OneLink, TypeParts DEF IInv
  <2>2. CASE Contract!Add
    <3>1. ASSUME NEW l \in Links
          PROVE  l \in Links' /\ {m \in Links' : m.short = l.short} = {l}
      BY <1>1, <2>2, <3>1 DEF Contract!Add
    <3>. QED BY <3>1 DEF Contract!LinksKept
  <2>3. CASE Contract!Delete
    <3>1. PICK S : Links' = {[l EXCEPT !.deleted = @ \/ l.short \in S] : l \in Links}
      BY <2>3 DEF Contract!Delete
    <3>2. ASSUME NEW l \in Links
          PROVE  \E k \in Links' : /\ {m \in Links' : m.short = l.short} = {k}
                                   /\ k.original = l.original /\ k.user = l.user
                                   /\ (l.deleted => k.deleted)
      <4>. DEFINE k == [l EXCEPT !.deleted = @ \/ l.short \in S]
      <4>1. /\ k.short = l.short /\ k.original = l.original /\ k.user = l.user
            /\ l.deleted => k.deleted
        BY <2>1 DEF LinkType
      <4>2. k \in Links'
        BY <3>1
      <4>. HIDE DEF k
      <4>3. {m \in Links' : m.short = l.short} = {k}
        BY <1>1, <4>1, <4>2
      <4>. QED BY <4>1, <4>2, <4>3
    <3>. QED BY <3>2 DEF Contract!LinksKept
  <2>. QED BY <1>1, <2>2, <2>3 DEF Contract!Next
<1>2. ASSUME IInv, UNCHANGED Contract!svars
      PROVE  Contract!LinksKept
  <2>1. \A k, l \in Links : k.short = l.short => k = l
    BY <1>2, OneLink, TypeParts DEF IInv
  <2>. QED BY <1>2, <2>1 DEF Contract!svars, Contract!LinksKept
<1>3. IInv /\ [Next]_vars /\ FreshInv => FreshInv'
  BY FreshNext
<1>4. Spec => []FreshInv
  BY <1>3, FreshInit, Invariance, PTL DEF Spec
<1>5. IInv => \A k, l \in Links : k.short = l.short => k = l
  BY OneLink, TypeParts DEF IInv
<1>6. IInv /\ IInv' /\ FreshInv /\ [Next]_vars => Contract!LinksKept
  <2>1. SUFFICES ASSUME IInv, IInv', FreshInv, [Next]_vars
                 PROVE  Contract!LinksKept
    OBVIOUS
  <2>2. (\A k, l \in Links : k.short = l.short => k = l)'
    BY <1>5, <2>1, PTL
  <2>3. [Contract!Next]_Contract!svars
    BY <2>1, ImplementsStep
  <2>. QED BY <1>1, <1>2, <2>1, <2>2, <2>3
<1>. QED BY <1>4, <1>6, Invariance, PTL DEF Spec

===============================================================================
