------------------------ MODULE FileRepositoryProofs -------------------------
(***************************************************************************)
(* Proofs about FileRepository, for any calls and URLs, any size of the    *)
(* buffer, any number of failures and any number of crashes.               *)
(***************************************************************************)
EXTENDS FileRepository, SequenceTheorems, WellFoundedInduction, TLAPS

MapNames == {"orig", "short", "user", "deleted"}

\* URLs that the calls save, and what can be held of their lines.
Saved == UNION {Range(Work[c].urls) : c \in Calls}
Held  == [url : Saved, part : {"whole", "first", "second"}] \cup {Zero}

\* How many of its URLs a call has taken.
Taken(c) == Len(Work[c].urls) - Len(left[c])

\* The maps lead from the short of a URL to its original, or have lost it in a race.
Known(url) ==
  url.short \in lost \/ (url.short \in DOMAIN mem.orig /\ mem.orig[url.short] = url.original)

\* The line of a URL is in the buffer, where it will be written behind a line end.
FileEnds == file # <<>> => file[Len(file)].part # "first"
Placed(url) ==
  \E j \in 1 .. n : /\ buf[j] = Line(url)
                    /\ IF j > 1 THEN buf[j - 1].part # "first" ELSE FileEnds

\* The lines of a call that must be readable: all but perhaps the first.
Counts(c, i) == i > 1 \/ c \notin behind

-----------------------------------------------------------------------------
(* The inductive invariant *)

Labels == {"idle", "cache", "store", "sync", "done"} \cup Writing

ControlInv ==
  /\ phase \in {"up", "down"}
  /\ at \in [Calls -> Labels]
  /\ status \in [Calls -> {"none", "ok", "error"}]
  /\ mixed \subseteq Calls /\ behind \subseteq Calls
  /\ \A c \in Calls : /\ lock = c <=> Work[c].kind # "save" /\ at[c] \notin {"idle", "done"}
                      /\ at[c] = "store" => Work[c].kind # "save"
                      /\ at[c] = "cache" => Work[c].kind = "save"
                      /\ status[c] # "none" => at[c] = "done"
                      /\ phase = "down" => at[c] \in {"idle", "done"}

\* What the file and the buffer hold is what the calls save, and a process that is down
\* has no buffer.
WriterInv ==
  /\ file \in Seq(Held) /\ buf \in [1 .. Cells -> Held]
  /\ n \in Int /\ n <= Cells /\ werr \in BOOLEAN
  /\ pos \in [Calls -> 0 .. Cells]
  /\ phase = "down" => buf = FreshBuffer

MemInv ==
  /\ MapNames \subseteq DOMAIN mem
  /\ DOMAIN mem.orig \subseteq Shorts /\ DOMAIN mem.short \subseteq Originals
  /\ mem.deleted = {} /\ lost \subseteq Shorts

\* What is left of a call is the end of its URLs.
LeftInv ==
  /\ left \in [Calls -> Seq(Record)]
  /\ \A c \in Calls :
       /\ Len(left[c]) <= Len(Work[c].urls)
       /\ \A j \in 1 .. Len(left[c]) : left[c][j] = Work[c].urls[Taken(c) + j]
       /\ at[c] \in {"idle", "cache"} => left[c] = Work[c].urls
       /\ at[c] \in {"encode", "copy", "advance"} => left[c] # <<>>
       /\ at[c] = "advance" => pos[c] \in 1 .. Cells

\* A call that has the writer to itself is the only one that writes. Its lines are in
\* the buffer one after the other, the next one will be behind a line end, and behind
\* the write they can be read; its first line only if it did not begin behind half a line.
Alone(c) ==
  /\ at[c] \in Writing => \A d \in Calls \ {c} : at[d] \notin Writing
  /\ at[c] \in {"encode", "copy", "advance"} =>
       /\ Taken(c) >= 1 \/ c \notin behind => ~Unended
       /\ \A i \in 1 .. Taken(c) : Counts(c, i) => Placed(Work[c].urls[i])
  /\ at[c] = "advance" => pos[c] = n + 1 /\ buf[n + 1] = Line(Current(c))
  /\ at[c] \in {"flush", "slice", "write"} =>
       \A i \in DOMAIN Work[c].urls : Counts(c, i) => Placed(Work[c].urls[i])
  /\ at[c] = "write" => pos[c] = n
  /\ at[c] \in {"reset", "sync"} \/ status[c] = "ok" =>
       \A i \in DOMAIN Work[c].urls : Counts(c, i) => Work[c].urls[i] \in ReadableUrls

AloneInv == \A c \in Calls \ mixed : Alone(c)

\* Who is past a check of the writer that has failed shares it with the call that made
\* it fail.
FailedInv == werr => \A c \in Calls : at[c] \in Checked => c \in mixed

\* The maps know all that can be read and all that will be written.
CacheInv ==
  phase = "up" =>
    /\ \A i \in DOMAIN file : Readable(i) => Known(file[i].url)
    /\ \A i \in 1 .. Cells : buf[i] # Zero => Known(buf[i].url)
    /\ \A c \in Calls : \A i \in DOMAIN Work[c].urls :
         at[c] \in Writing \/ (at[c] = "store" /\ i <= Taken(c)) => Known(Work[c].urls[i])

IInv == ControlInv /\ WriterInv /\ MemInv /\ LeftInv /\ AloneInv /\ FailedInv /\ CacheInv

-----------------------------------------------------------------------------
(* The URLs of the calls *)

LEMMA Urls ==
  ASSUME NEW c \in Calls
  PROVE  /\ Work[c].urls \in Seq(Record)
         /\ \A i \in DOMAIN Work[c].urls :
              Work[c].urls[i] \in Record /\ Work[c].urls[i] \in Saved
<1>1. Work[c].urls \in Seq(Record)
  BY WorkAssumption
<1>2. \A i \in DOMAIN Work[c].urls : Work[c].urls[i] \in Record
  BY <1>1
<1>. QED BY <1>1, <1>2 DEF Saved, Range

\* A short stands for one original in all that is saved.
LEMMA SavedUrls ==
  /\ Saved \subseteq Record
  /\ \A u, v \in Saved : u.short = v.short => u.original = v.original
<1>1. ASSUME NEW u \in Saved
      PROVE  \E c \in Calls : \E i \in DOMAIN Work[c].urls : u = Work[c].urls[i]
  BY DEF Saved, Range
<1>2. Saved \subseteq Record
  BY <1>1, Urls
<1>3. ASSUME NEW u \in Saved, NEW v \in Saved, u.short = v.short
      PROVE  u.original = v.original
  BY <1>1, <1>3, DistinctAssumption
<1>. QED BY <1>2, <1>3

LEMMA RecordFields ==
  ASSUME NEW u \in Record
  PROVE  u.short \in Shorts /\ u.original \in Originals /\ u.deleted = FALSE /\ u # NoUrl
BY BoundAssumption DEF Record, Url

\* The lines and their halves.
LEMMA Lines ==
  /\ NoUrl \notin Saved /\ Zero \in Held /\ Zero.part = "first"
  /\ \A u \in Saved : /\ Line(u) \in Held /\ Line(u).part = "whole" /\ Line(u).url = u
                      /\ Line(u) # Zero
  /\ \A x \in Held : /\ x.part \in {"whole", "first", "second"}
                     /\ x # Zero => x.url \in Saved
                     /\ Tear(x) \in Held /\ Tear(x).part = "first"
                     /\ Rest(x) \in Held
                     /\ Rest(x) # Zero => x # Zero /\ Rest(x).url = x.url
<1>1. NoUrl \notin Saved
  BY SavedUrls, RecordFields
<1>2. Zero \in Held /\ Zero.part = "first"
  BY DEF Zero, Held
<1>3. ASSUME NEW u \in Saved
      PROVE  Line(u) \in Held /\ Line(u).part = "whole" /\ Line(u).url = u /\ Line(u) # Zero
  BY DEF Line, Held, Zero
<1>4. ASSUME NEW x \in Held
      PROVE  /\ x.part \in {"whole", "first", "second"}
             /\ x # Zero => x.url \in Saved
             /\ Tear(x) \in Held /\ Tear(x).part = "first"
             /\ Rest(x) \in Held
             /\ Rest(x) # Zero => x # Zero /\ Rest(x).url = x.url
  <2>1. CASE x = Zero
    BY <1>2, <2>1 DEF Tear, Rest
  <2>2. CASE x # Zero
    <3>1. x \in [url : Saved, part : {"whole", "first", "second"}]
      BY <2>2 DEF Held
    <3>2. /\ [x EXCEPT !.part = "first"] \in Held /\ [x EXCEPT !.part = "first"].part = "first"
          /\ [x EXCEPT !.part = "second"] \in Held /\ [x EXCEPT !.part = "second"].url = x.url
      BY <3>1 DEF Held
    <3>. QED BY <1>2, <2>2, <3>1, <3>2 DEF Tear, Rest
  <2>. QED BY <2>1, <2>2
<1>. QED BY <1>1, <1>2, <1>3, <1>4

\* The URL that a call takes next.
LEMMA NextUrl ==
  ASSUME LeftInv, NEW c \in Calls, left[c] # <<>>
  PROVE  /\ Taken(c) \in Nat /\ Taken(c) + 1 \in DOMAIN Work[c].urls
         /\ Current(c) = Work[c].urls[Taken(c) + 1] /\ Current(c) \in Saved
         /\ Len(Tail(left[c])) = Len(left[c]) - 1
         /\ Tail(left[c]) \in Seq(Record)
         /\ \A j \in 1 .. Len(Tail(left[c])) : Tail(left[c])[j] = left[c][j + 1]
<1>1. left[c] \in Seq(Record) /\ Len(left[c]) \in Nat \ {0}
  BY DEF LeftInv
<1>2. Len(Work[c].urls) \in Nat /\ DOMAIN Work[c].urls = 1 .. Len(Work[c].urls)
  BY Urls
<1>3. Head(left[c]) = left[c][1]
  BY <1>1
<1>4. Taken(c) \in Nat /\ Taken(c) + 1 \in DOMAIN Work[c].urls
  BY <1>1, <1>2 DEF LeftInv, Taken
<1>. QED BY <1>1, <1>2, <1>3, <1>4, Urls DEF LeftInv, Taken, Current

LEMMA SaveUrls ==
  ASSUME NEW c \in Calls, Work[c].kind = "save"
  PROVE  Len(Work[c].urls) = 1 /\ Work[c].urls # <<>>
<1>1. Len(Work[c].urls) = 1
  BY WorkAssumption
<1>2. ASSUME Work[c].urls = <<>>
      PROVE  Len(Work[c].urls) # 1
  BY <1>2
<1>. QED BY <1>1, <1>2

LEMMA NoneTaken == ASSUME NEW c \in Calls, left[c] = Work[c].urls PROVE Taken(c) = 0
BY Urls DEF Taken

LEMMA NothingLeft ==
  ASSUME NEW c \in Calls
  PROVE  Len(Work[c].urls) - Len(<<>>) = Len(Work[c].urls)
BY Urls

-----------------------------------------------------------------------------
LEMMA InitInv == Init => IInv
<1>. SUFFICES ASSUME Init PROVE IInv
  OBVIOUS
<1>1. ControlInv
  BY BoundAssumption DEF Init, ControlInv, Labels
<1>2. WriterInv
  <2>1. FreshBuffer \in [1 .. Cells -> Held] /\ <<>> \in Seq(Held)
    BY Lines DEF FreshBuffer
  <2>2. 0 \in 0 .. Cells /\ 0 \in Int /\ 0 <= Cells
    BY BoundAssumption
  <2>. QED BY <2>1, <2>2 DEF Init, WriterInv
<1>3. MemInv
  BY DEF Init, MemInv, EmptyStorage, MapNames
<1>4. LeftInv
  <2>1. left \in [Calls -> Seq(Record)] /\ \A c \in Calls : left[c] = Work[c].urls
    BY Urls DEF Init
  <2>2. \A c \in Calls : Taken(c) = 0 /\ Len(Work[c].urls) \in Nat
    BY <2>1, NoneTaken, Urls
  <2>. QED BY <2>1, <2>2 DEF Init, LeftInv
<1>5. AloneInv
  BY DEF Init, AloneInv, Alone, Writing, Checked
<1>6. FailedInv
  BY DEF Init, FailedInv
<1>7. CacheInv
  BY DEF Init, CacheInv, FreshBuffer, Writing, Checked
<1>. QED BY <1>1, <1>2, <1>3, <1>4, <1>5, <1>6, <1>7 DEF IInv

-----------------------------------------------------------------------------
\* Where the steps of a call lead.
LEMMA Moves ==
  ASSUME ControlInv, NEW c \in Calls, CallNext(c)
  PROVE  /\ phase = "up" /\ phase' = "up" /\ status[c] = "none"
         /\ \E l \in Labels \ {"idle"} : at' = [at EXCEPT ![c] = l]
         /\ at[c] \notin {"idle", "cache", "store"} => at'[c] \in Writing \cup {"sync", "done"}
         /\ lost \subseteq lost'
         /\ mixed \subseteq mixed' /\ mixed' \subseteq Calls
         /\ behind \subseteq behind' /\ behind' \subseteq Calls
         /\ \/ /\ at'[c] # "done" /\ status' = status
               /\ (BatchLock(c) /\ lock' = c) \/ (~BatchLock(c) /\ lock' = lock)
            \/ /\ at'[c] = "done" /\ lock' = IF lock = c THEN Nobody ELSE lock
               /\ \E s \in {"ok", "error"} : status' = [status EXCEPT ![c] = s]
<1>. USE DEF ControlInv, Labels, Writing, Checked
<1>1. CASE CacheLock(c) \/ SaveCache(c) \/ BatchStored(c) \/ EncodeCheck(c) \/ EncodeCopy(c)
           \/ EncodeAdvance(c) \/ FlushCheck(c) \/ FlushSlice(c) \/ FlushWrite(c) \/ FlushFail(c)
  <2>1. /\ phase = "up" /\ phase' = phase /\ lost' = lost /\ at[c] # "done"
        /\ ~BatchLock(c)
        /\ \E l \in Labels \ {"idle", "done"} :
             /\ GoTo(c, l)
             /\ at[c] \notin {"idle", "cache", "store"} => l \in Writing \cup {"sync", "done"}
    BY <1>1 DEF CacheLock, SaveCache, BatchLock, BatchStored, EncodeCheck, EncodeCopy,
       EncodeAdvance, FlushCheck, FlushSlice, FlushWrite, FlushFail, Is
  <2>. QED BY <2>1 DEF GoTo, Mixed
<1>2. CASE BatchLock(c) \/ BatchStore(c)
  BY <1>2 DEF BatchLock, BatchStore, Is
<1>3. CASE BatchStop(c) \/ Sync(c)
  BY <1>3 DEF BatchStop, Sync, Is, Finish
<1>4. CASE WriterFailed(c) \/ FlushFailed(c) \/ FlushReset(c)
  <2>1. /\ phase = "up" /\ phase' = phase /\ lost' = lost
        /\ at[c] \in Writing /\ ~BatchLock(c)
        /\ GoTo(c, "sync") \/ Finish(c, "error")
    BY <1>4 DEF WriterFailed, FlushFailed, FlushReset, FlushError, Failed, BatchLock, Is
  <2>. QED BY <2>1 DEF GoTo, Mixed, Finish
<1>. QED BY <1>1, <1>2, <1>3, <1>4 DEF CallNext

\* The other actions.
LEMMA Others ==
  ASSUME [Next]_vars
  PROVE  \/ \E c \in Calls : CallNext(c)
         \/ Down
         \/ Start
         \/ UNCHANGED vars
BY DEF Next, CloseFile, Crash

\* A step of a call changes nothing of what the others hold.
LEMMA OthersKeep ==
  ASSUME IInv, NEW c \in Calls, CallNext(c), NEW d \in Calls, d # c
  PROVE  left'[d] = left[d] /\ at'[d] = at[d] /\ pos'[d] = pos[d] /\ status'[d] = status[d]
         /\ (d \in behind' <=> d \in behind)
<1>. USE DEF IInv, ControlInv, WriterInv, LeftInv
<1>1. at'[d] = at[d] /\ status'[d] = status[d]
  <2>1. PICK l : at' = [at EXCEPT ![c] = l]
    BY Moves
  <2>2. status' = status \/ \E r : status' = [status EXCEPT ![c] = r]
    BY Moves
  <2>. QED BY <2>1, <2>2
<1>2. left'[d] = left[d] /\ pos'[d] = pos[d]
  BY DEF CallNext, CacheLock, SaveCache, BatchLock, BatchStore, BatchStored, BatchStop, WriterFailed,
     EncodeCheck, EncodeCopy, EncodeAdvance, FlushCheck, FlushSlice, FlushWrite, FlushFail,
     FlushFailed, FlushReset, Sync
<1>3. d \in behind' <=> d \in behind
  BY DEF CallNext, CacheLock, SaveCache, BatchLock, BatchStore, BatchStored, BatchStop, WriterFailed,
     EncodeCheck, EncodeCopy, EncodeAdvance, FlushCheck, FlushSlice, FlushWrite, FlushFail,
     FlushFailed, FlushReset, FlushError, Failed, Sync, GoTo, Finish
<1>. QED BY <1>1, <1>2, <1>3

LEMMA ControlNext == IInv /\ [Next]_vars => ControlInv'
<1>. SUFFICES ASSUME IInv, [Next]_vars PROVE ControlInv'
  OBVIOUS
<1>. USE DEF IInv, ControlInv
<1>1. ASSUME NEW c \in Calls, CallNext(c)
      PROVE  ControlInv'
  <2>1. PICK l \in Labels \ {"idle"} : at' = [at EXCEPT ![c] = l]
    BY <1>1, Moves
  <2>2. at[c] # "done"
    BY <1>1 DEF CallNext, CacheLock, SaveCache, BatchLock, BatchStore, BatchStored, BatchStop,
       WriterFailed, EncodeCheck, EncodeCopy, EncodeAdvance, FlushCheck, FlushSlice, FlushWrite,
       FlushFail, FlushFailed, FlushReset, Sync, Is
  <2>3. /\ at'[c] = "store" => Work[c].kind # "save"
        /\ at'[c] = "cache" => Work[c].kind = "save"
        /\ at[c] = "idle" /\ Work[c].kind # "save" <=> BatchLock(c)
        /\ BatchLock(c) => lock = Nobody /\ at'[c] = "store"
    BY <1>1, <2>1 DEF CallNext, CacheLock, SaveCache, BatchLock, BatchStore, BatchStored, BatchStop,
       WriterFailed, EncodeCheck, EncodeCopy, EncodeAdvance, FlushCheck, FlushSlice, FlushWrite,
       FlushFail, FlushFailed, FlushReset, FlushError, Failed, Sync, GoTo, Finish, Is
  <2>4. \A d \in Calls : lock' = d <=> Work[d].kind # "save" /\ at'[d] \notin {"idle", "done"}
    BY <1>1, <2>1, <2>2, <2>3, Moves, BoundAssumption
  <2>. QED BY <1>1, <2>1, <2>3, <2>4, Moves
<1>2. CASE Down
  BY <1>2, BoundAssumption DEF Down, Labels
<1>3. CASE Start \/ UNCHANGED vars
  BY <1>3 DEF Start, vars
<1>. QED BY <1>1, <1>2, <1>3, Others

-----------------------------------------------------------------------------
\* The lines of the file after k lines of the buffer and perhaps a torn one.
LEMMA Appended ==
  ASSUME WriterInv, NEW k \in 0 .. Cells, NEW rest \in {<<>>} \cup {<<Tear(x)>> : x \in Held}
  PROVE  LET new == file \o SubSeq(buf, 1, k) \o rest IN
         /\ new \in Seq(Held) /\ Len(file) \in Nat /\ Len(rest) \in Nat
         /\ DOMAIN file = 1 .. Len(file)
         /\ DOMAIN new = 1 .. Len(file) + k + Len(rest)
         /\ \A i \in 1 .. Len(file) : new[i] = file[i]
         /\ \A i \in 1 .. k : new[Len(file) + i] = buf[i]
         /\ \A i \in 1 .. Len(rest) : new[Len(file) + k + i].part = "first"
<1>1. SubSeq(buf, 1, k) \in Seq(Held) /\ Len(SubSeq(buf, 1, k)) = k
      /\ \A i \in 1 .. k : SubSeq(buf, 1, k)[i] = buf[i]
  BY SubSeqProperties, BoundAssumption DEF WriterInv
<1>2. rest \in Seq(Held) /\ \A i \in 1 .. Len(rest) : rest[i].part = "first"
  <2>1. CASE rest = <<>>
    BY <2>1
  <2>2. CASE \E x \in Held : rest = <<Tear(x)>>
    <3>1. PICK x \in Held : rest = <<Tear(x)>>
      BY <2>2
    <3>2. Tear(x) \in Held /\ Tear(x).part = "first"
      BY Lines
    <3>. QED BY <3>1, <3>2
  <2>. QED BY <2>1, <2>2
<1>. DEFINE s == SubSeq(buf, 1, k)
<1>. HIDE DEF s
<1>3. file \o s \in Seq(Held) /\ Len(file \o s) = Len(file) + k
      /\ \A i \in 1 .. Len(file) + k :
           (file \o s)[i] = IF i <= Len(file) THEN file[i] ELSE s[i - Len(file)]
  BY <1>1, ConcatProperties DEF WriterInv, s
<1>. DEFINE fs == file \o s
<1>. HIDE DEF fs
<1>4. /\ fs \o rest \in Seq(Held)
      /\ Len(fs \o rest) = Len(file) + k + Len(rest)
      /\ \A i \in 1 .. Len(file) + k + Len(rest) : (fs \o rest)[i] =
           IF i <= Len(file) + k THEN fs[i] ELSE rest[i - (Len(file) + k)]
  <2>1. fs \in Seq(Held) /\ Len(fs) = Len(file) + k
    BY <1>3 DEF fs
  <2>2. /\ fs \o rest \in Seq(Held)
        /\ Len(fs \o rest) = Len(fs) + Len(rest)
        /\ \A i \in 1 .. Len(fs) + Len(rest) : (fs \o rest)[i] =
             IF i <= Len(fs) THEN fs[i] ELSE rest[i - Len(fs)]
    <3>1. rest \in Seq(Held)
      BY <1>2
    <3>. QED BY <2>1, <3>1, ConcatProperties
  <2>. QED BY <2>1, <2>2
<1>5. Len(file) \in Nat /\ DOMAIN file = 1 .. Len(file) /\ Len(rest) \in Nat
  BY <1>2 DEF WriterInv
<1>6. DOMAIN (fs \o rest) = 1 .. Len(file) + k + Len(rest)
  BY <1>4
<1>7. \A i \in 1 .. Len(file) : (fs \o rest)[i] = file[i]
  BY <1>3, <1>4, <1>5 DEF fs
<1>8. \A i \in 1 .. k : (fs \o rest)[Len(file) + i] = s[i]
  BY <1>3, <1>4, <1>5 DEF fs
<1>9. \A i \in 1 .. Len(rest) : (fs \o rest)[Len(file) + k + i] = rest[i]
  BY <1>4, <1>5
<1>. QED BY <1>1, <1>2, <1>4, <1>5, <1>6, <1>7, <1>8, <1>9 DEF s, fs

\* What a step may do to the file.
Appends ==
  \E k \in 0 .. Cells : \E rest \in {<<>>} \cup {<<Tear(x)>> : x \in Held} :
    file' = file \o SubSeq(buf, 1, k) \o rest

LEMMA FileSteps == IInv /\ [Next]_vars => file' = file \/ Appends
<1>. SUFFICES ASSUME IInv, [Next]_vars, file' # file PROVE Appends
  OBVIOUS
<1>1. ASSUME NEW k \in 0 .. Cells, file' = file \o SubSeq(buf, 1, k)
      PROVE  Appends
  <2>1. file \o SubSeq(buf, 1, k) \in Seq(Held)
    BY SubSeqProperties, ConcatProperties, BoundAssumption DEF IInv, WriterInv
  <2>2. file \o SubSeq(buf, 1, k) \o <<>> = file \o SubSeq(buf, 1, k)
    BY <2>1, ConcatEmptySeq
  <2>. QED BY <1>1, <2>2 DEF Appends
<1>2. ASSUME NEW c \in Calls, FlushWrite(c)
      PROVE  Appends
  <2>1. pos[c] \in 0 .. Cells /\ file' = file \o SubSeq(buf, 1, pos[c])
    BY <1>2 DEF FlushWrite, IInv, WriterInv
  <2>. QED BY <2>1, <1>1
<1>3. ASSUME NEW c \in Calls, FlushFail(c)
      PROVE  Appends
  <2>1. PICK k \in 0 .. pos[c] - 1 :
          \/ file' = file \o SubSeq(buf, 1, k)
          \/ file' = file \o SubSeq(buf, 1, k) \o <<Tear(buf[k + 1])>>
    BY <1>3 DEF FlushFail
  <2>2. pos[c] \in 0 .. Cells
    BY DEF IInv, WriterInv
  <2>3. k \in 0 .. Cells /\ k + 1 \in 1 .. Cells
    BY <2>2, BoundAssumption
  <2>4. buf[k + 1] \in Held
    BY <2>3 DEF IInv, WriterInv
  <2>. QED BY <2>1, <2>3, <2>4, <1>1 DEF Appends
<1>4. ASSUME NEW c \in Calls, CallNext(c), ~FlushWrite(c), ~FlushFail(c)
      PROVE  file' = file
  BY <1>4 DEF CallNext, CacheLock, SaveCache, BatchLock, BatchStore, BatchStored, BatchStop,
     WriterFailed, EncodeCheck, EncodeCopy, EncodeAdvance, FlushCheck, FlushSlice, FlushFailed,
     FlushReset, Sync
<1>. QED BY <1>2, <1>3, <1>4, Others DEF Down, Start, vars

\* What a failed Flush leaves in the buffer is what it held.
LEMMA ErrorKeeps ==
  ASSUME WriterInv, NEW c \in Calls, FlushError(c)
  PROVE  /\ buf' \in [1 .. Cells -> Held]
         /\ \A i \in 1 .. Cells : \E j \in 1 .. Cells :
              buf'[i] = buf[j] \/ (buf'[i] = Rest(buf[j]) /\ buf[j] \in Held)
         /\ n' \in Int /\ n' <= Cells /\ werr' = TRUE
<1>. DEFINE k == pos[c]
<1>1. k \in 0 .. Cells /\ Cells \in Nat /\ n \in Int /\ n <= Cells
  BY BoundAssumption DEF WriterInv
<1>2. buf' = [i \in 1 .. Cells |-> IF i > n - k THEN buf[i]
                                   ELSE IF i = 1 /\ at[c] = "torn" THEN Rest(buf[k + 1])
                                   ELSE buf[i + k]]
  BY DEF FlushError
<1>. HIDE DEF k
<1>3. ASSUME NEW i \in 1 .. Cells
      PROVE  /\ buf'[i] \in Held
             /\ \E j \in 1 .. Cells :
                  buf'[i] = buf[j] \/ (buf'[i] = Rest(buf[j]) /\ buf[j] \in Held)
  <2>1. CASE i > n - k
    BY <1>2, <2>1 DEF WriterInv
  <2>2. CASE i <= n - k
    <3>1. i + k \in 1 .. Cells /\ k + 1 \in 1 .. Cells
      BY <1>1, <2>2
    <3>2. buf[i + k] \in Held /\ buf[k + 1] \in Held
      BY <3>1 DEF WriterInv
    <3>3. buf'[i] = Rest(buf[k + 1]) \/ buf'[i] = buf[i + k]
      BY <1>1, <1>2, <2>2
    <3>. QED BY <3>1, <3>2, <3>3, Lines
  <2>. QED BY <1>1, <2>1, <2>2
<1>4. buf' \in [1 .. Cells -> Held]
  BY <1>2, <1>3
<1>5. n' \in Int /\ n' <= Cells /\ werr' = TRUE
  BY <1>1 DEF FlushError, k
<1>. QED BY <1>3, <1>4, <1>5

LEMMA WriterNext == IInv /\ [Next]_vars => WriterInv'
<1>. SUFFICES ASSUME IInv, [Next]_vars PROVE WriterInv'
  OBVIOUS
<1>1. file' \in Seq(Held)
  BY FileSteps, Appended DEF Appends, IInv, WriterInv
<1>. Cells \in Nat
  BY BoundAssumption
<1>2. ASSUME NEW c \in Calls, CallNext(c)
      PROVE  WriterInv'
  <2>1. phase' = "up" /\ left[c] \in Seq(Record)
    BY <1>2, Moves DEF IInv, LeftInv
  <2>2. CASE EncodeCopy(c)
    <3>1. n + 1 \in 1 .. Cells /\ n + 1 \in 0 .. Cells
      BY <2>2 DEF EncodeCopy, IInv, WriterInv
    <3>2. Line(Current(c)) \in Held
      BY <2>2, NextUrl, Lines DEF EncodeCopy, Is, IInv, LeftInv
    <3>. QED BY <1>1, <2>1, <2>2, <3>1, <3>2 DEF EncodeCopy, IInv, WriterInv
  <2>3. CASE EncodeAdvance(c)
    <3>1. n' \in Int /\ n' <= Cells
      BY <2>3 DEF EncodeAdvance, IInv, WriterInv
    <3>2. 0 \in 0 .. Cells
      OBVIOUS
    <3>. QED BY <1>1, <2>1, <2>3, <3>1, <3>2 DEF EncodeAdvance, IInv, WriterInv
  <2>4. CASE FlushSlice(c)
    <3>1. n \in 0 .. Cells
      BY <2>4 DEF FlushSlice, IInv, WriterInv
    <3>. QED BY <1>1, <2>1, <2>4, <3>1 DEF FlushSlice, writer, IInv, WriterInv
  <2>5. CASE FlushFail(c)
    <3>1. PICK k \in 0 .. pos[c] - 1 : pos' = [pos EXCEPT ![c] = k]
      BY <2>5 DEF FlushFail
    <3>2. k \in 0 .. Cells
      BY DEF IInv, WriterInv
    <3>. QED BY <1>1, <2>1, <2>5, <3>1, <3>2 DEF FlushFail, writer, IInv, WriterInv
  <2>6. CASE FlushFailed(c) \/ FlushReset(c)
    <3>1. pos' = [pos EXCEPT ![c] = 0] /\ 0 \in 0 .. Cells
      BY <2>6 DEF FlushFailed, FlushReset
    <3>2. FlushError(c) \/ (n' = 0 /\ UNCHANGED <<buf, werr>>)
      BY <2>6 DEF FlushFailed, FlushReset
    <3>3. buf' \in [1 .. Cells -> Held] /\ n' \in Int /\ n' <= Cells /\ werr' \in BOOLEAN
      <4>1. CASE FlushError(c)
        BY <4>1, ErrorKeeps DEF IInv
      <4>2. CASE n' = 0 /\ UNCHANGED <<buf, werr>>
        BY <4>2 DEF IInv, WriterInv
      <4>. QED BY <3>2, <4>1, <4>2
    <3>. QED BY <1>1, <2>1, <3>1, <3>3 DEF IInv, WriterInv
  <2>7. CASE ~(EncodeCopy(c) \/ EncodeAdvance(c) \/ FlushSlice(c) \/ FlushFail(c)
               \/ FlushFailed(c) \/ FlushReset(c))
    <3>1. UNCHANGED <<buf, n, werr, pos>>
      BY <1>2, <2>7 DEF CallNext, CacheLock, SaveCache, BatchLock, BatchStore, BatchStored,
         BatchStop, WriterFailed, EncodeCheck, FlushCheck, FlushWrite, Sync, writer
    <3>. QED BY <1>1, <2>1, <3>1 DEF IInv, WriterInv
  <2>. QED BY <2>2, <2>3, <2>4, <2>5, <2>6, <2>7
<1>3. CASE Down
  <2>1. 0 \in 0 .. Cells /\ FreshBuffer \in [1 .. Cells -> Held]
    BY Lines DEF FreshBuffer
  <2>2. pos' \in [Calls -> 0 .. Cells] /\ buf' = FreshBuffer /\ n' = 0 /\ werr' = FALSE
    BY <1>3, <2>1 DEF Down
  <2>3. buf' = FreshBuffer'
    BY <2>2 DEF FreshBuffer
  <2>4. n' \in Int /\ n' <= Cells
    BY <2>2
  <2>5. werr' \in BOOLEAN
    BY <2>2
  <2>. QED BY <1>1, <2>1, <2>2, <2>3, <2>4, <2>5 DEF WriterInv
<1>4. CASE Start \/ UNCHANGED vars
  BY <1>1, <1>4 DEF Start, vars, writer, WriterInv, IInv, FreshBuffer
<1>. QED BY <1>2, <1>3, <1>4, Others

-----------------------------------------------------------------------------
(* The progress of each call *)

LEMMA LeftTypeNext == IInv /\ [Next]_vars => left' \in [Calls -> Seq(Record)]
<1>. SUFFICES ASSUME IInv, [Next]_vars PROVE left' \in [Calls -> Seq(Record)]
  OBVIOUS
<1>1. left \in [Calls -> Seq(Record)]
  BY DEF IInv, LeftInv
<1>2. ASSUME NEW c \in Calls, CallNext(c)
      PROVE  left' \in [Calls -> Seq(Record)]
  <2>1. CASE BatchStore(c) \/ EncodeAdvance(c)
    <3>1. left[c] # <<>> /\ left' = [left EXCEPT ![c] = Tail(@)]
      BY <2>1 DEF BatchStore, EncodeAdvance, Is, IInv, LeftInv
    <3>2. Tail(left[c]) \in Seq(Record)
      BY <3>1, NextUrl DEF IInv
    <3>. QED BY <1>1, <3>1, <3>2
  <2>2. CASE BatchStored(c)
    BY <1>1, <2>2, Urls DEF BatchStored
  <2>3. CASE left' = left
    BY <1>1, <2>3
  <2>. QED BY <1>2, <2>1, <2>2, <2>3 DEF CallNext, CacheLock, SaveCache, BatchLock, BatchStop,
           WriterFailed, EncodeCheck, EncodeCopy, FlushCheck, FlushSlice, FlushWrite, FlushFail,
           FlushFailed, FlushReset, Sync
<1>. QED BY <1>1, <1>2, Others DEF Down, Start, vars

LEMMA LeftNext == IInv /\ [Next]_vars => LeftInv'
<1>. SUFFICES ASSUME IInv, [Next]_vars, NEW d \in Calls
              PROVE  /\ Len(left'[d]) <= Len(Work[d].urls)
                     /\ \A j \in 1 .. Len(left'[d]) :
                          left'[d][j] = Work[d].urls[Len(Work[d].urls) - Len(left'[d]) + j]
                     /\ at'[d] \in {"idle", "cache"} => left'[d] = Work[d].urls
                     /\ at'[d] \in {"encode", "copy", "advance"} => left'[d] # <<>>
                     /\ at'[d] = "advance" => pos'[d] \in 1 .. Cells
  BY LeftTypeNext DEF LeftInv, Taken
<1>1. /\ left[d] \in Seq(Record) /\ Len(left[d]) \in Nat
      /\ Len(left[d]) <= Len(Work[d].urls)
      /\ \A j \in 1 .. Len(left[d]) : left[d][j] = Work[d].urls[Len(Work[d].urls) - Len(left[d]) + j]
      /\ at[d] \in {"idle", "cache"} => left[d] = Work[d].urls
      /\ at[d] \in {"encode", "copy", "advance"} => left[d] # <<>>
      /\ at[d] = "advance" => pos[d] \in 1 .. Cells
  BY DEF IInv, LeftInv, Taken
<1>2. /\ Work[d].urls \in Seq(Record) /\ Len(Work[d].urls) \in Nat
      /\ Len(Work[d].urls) <= Len(Work[d].urls)
      /\ \A j \in 1 .. Len(Work[d].urls) :
           Work[d].urls[j] = Work[d].urls[Len(Work[d].urls) - Len(Work[d].urls) + j]
      /\ Work[d].kind = "save" => Work[d].urls # <<>>
  <2>2. Work[d].urls \in Seq(Record)
    BY Urls
  <2>3. Len(Work[d].urls) \in Nat /\ (Work[d].kind = "save" => Work[d].urls # <<>>)
    BY <2>2, SaveUrls
  <2>4. \A j \in 1 .. Len(Work[d].urls) : Len(Work[d].urls) - Len(Work[d].urls) + j = j
    BY <2>3
  <2>. QED BY <2>2, <2>3, <2>4
<1>. USE DEF ControlInv, Labels, Writing, Checked
<1>3. ASSUME NEW c \in Calls, CallNext(c), c = d
      PROVE  /\ Len(left'[d]) <= Len(Work[d].urls)
             /\ \A j \in 1 .. Len(left'[d]) :
                  left'[d][j] = Work[d].urls[Len(Work[d].urls) - Len(left'[d]) + j]
             /\ at'[d] \in {"idle", "cache"} => left'[d] = Work[d].urls
             /\ at'[d] \in {"encode", "copy", "advance"} => left'[d] # <<>>
             /\ at'[d] = "advance" => pos'[d] \in 1 .. Cells
  <2>1. CASE left'[d] = left[d] /\ at'[d] \notin {"idle", "cache", "encode", "copy", "advance"}
    BY <1>1, <2>1
  <2>2. CASE CacheLock(c) \/ SaveCache(c) \/ EncodeCheck(c)
    <3>1. /\ left'[d] = left[d] /\ at[d] \in {"idle", "cache", "encode"}
          /\ at'[d] = "cache" => at[d] = "idle"
          /\ at'[d] = "copy" => at[d] = "encode"
          /\ at'[d] = "encode" => at[d] = "cache" /\ Work[d].kind = "save"
          /\ at'[d] \in {"cache", "encode", "copy"}
      BY <1>3, <2>2 DEF CacheLock, SaveCache, EncodeCheck, Is, GoTo, IInv
    <3>. QED BY <1>1, <1>2, <3>1
  <2>3. CASE BatchStored(c)
    <3>1. left'[d] = Work[d].urls
      BY <1>3, <2>3 DEF BatchStored, IInv, LeftInv
    <3>2. at'[d] \in {"flush", "encode"} /\ (at'[d] = "encode" => Work[d].urls # <<>>)
      BY <1>3, <2>3 DEF BatchStored, GoTo, IInv
    <3>. QED BY <1>2, <3>1, <3>2
  <2>4. CASE EncodeCopy(c)
    <3>1. n + 1 \in 1 .. Cells
      BY <2>4, BoundAssumption DEF EncodeCopy, IInv, WriterInv
    <3>2. pos'[d] = n + 1 /\ left' = left /\ at'[d] = "advance" /\ at[d] = "copy"
      BY <1>3, <2>4 DEF EncodeCopy, Is, GoTo, IInv, WriterInv
    <3>. QED BY <1>1, <3>1, <3>2
  <2>5. CASE BatchStore(c) \/ EncodeAdvance(c)
    <3>1. left[d] # <<>> /\ left'[d] = Tail(left[d])
      BY <1>1, <1>3, <2>5 DEF BatchStore, EncodeAdvance, Is, IInv, LeftInv
    <3>2. /\ Len(Tail(left[d])) = Len(left[d]) - 1 /\ Tail(left[d]) \in Seq(Record)
          /\ \A j \in 1 .. Len(Tail(left[d])) : Tail(left[d])[j] = left[d][j + 1]
      BY <3>1, NextUrl DEF IInv
    <3>3. Len(left'[d]) <= Len(Work[d].urls)
          /\ \A j \in 1 .. Len(left'[d]) :
               left'[d][j] = Work[d].urls[Len(Work[d].urls) - Len(left'[d]) + j]
      <4>. DEFINE all  == Len(Work[d].urls)
                  now  == Len(left[d])
                  then == Len(left'[d])
      <4>1. all \in Nat /\ now \in Nat /\ then \in Nat /\ then = now - 1 /\ now <= all
        BY <1>1, <1>2, <3>1, <3>2
      <4>2. \A j \in 1 .. then : left'[d][j] = left[d][j + 1]
        BY <3>1, <3>2
      <4>3. \A j \in 1 .. now : left[d][j] = Work[d].urls[all - now + j]
        BY <1>1
      <4>. HIDE DEF all, now, then
      <4>4. ASSUME NEW j \in 1 .. then
            PROVE  left'[d][j] = Work[d].urls[all - then + j]
        <5>1. j + 1 \in 1 .. now /\ all - now + (j + 1) = all - then + j
          BY <4>1
        <5>. QED BY <4>2, <4>3, <5>1
      <4>. QED BY <4>1, <4>4 DEF all, then
    <3>4. at'[d] \in {"store", "flush", "encode"} /\ (at'[d] = "encode" => Tail(left[d]) # <<>>)
      BY <1>3, <2>5 DEF BatchStore, EncodeAdvance, Is, GoTo, IInv
    <3>. QED BY <3>1, <3>2, <3>3, <3>4
  <2>6. CASE BatchLock(c) \/ BatchStop(c) \/ WriterFailed(c) \/ FlushCheck(c) \/ FlushSlice(c)
             \/ FlushWrite(c) \/ FlushFail(c) \/ FlushFailed(c) \/ FlushReset(c) \/ Sync(c)
    <3>1. left' = left
      BY <2>6 DEF BatchLock, BatchStop, WriterFailed, FlushCheck, FlushSlice, FlushWrite,
         FlushFail, FlushFailed, FlushReset, Sync
    <3>2. CASE BatchLock(c) \/ BatchStop(c) \/ Sync(c)
      BY <1>1, <1>3, <3>1, <3>2 DEF BatchLock, BatchStop, Sync, Finish, IInv
    <3>3. CASE FlushCheck(c) \/ FlushSlice(c) \/ FlushWrite(c) \/ FlushFail(c)
      <4>1. \E l \in {"sync", "slice", "write", "reset", "failed", "torn"} : GoTo(c, l)
        BY <3>3 DEF FlushCheck, FlushSlice, FlushWrite, FlushFail
      <4>2. at'[d] \in {"sync", "slice", "write", "reset", "failed", "torn"}
        BY <1>3, <4>1 DEF GoTo, IInv
      <4>. QED BY <1>1, <3>1, <4>2
    <3>4. CASE WriterFailed(c) \/ FlushFailed(c) \/ FlushReset(c)
      <4>1. GoTo(c, "sync") \/ Finish(c, "error")
        BY <3>4 DEF WriterFailed, FlushFailed, FlushReset, FlushError, Failed
      <4>2. at'[d] \in {"sync", "done"}
        BY <1>3, <4>1 DEF GoTo, Finish, IInv
      <4>. QED BY <1>1, <3>1, <4>2
    <3>. QED BY <2>6, <3>2, <3>3, <3>4
  <2>. QED BY <1>3, <2>2, <2>3, <2>4, <2>5, <2>6 DEF CallNext
<1>4. ASSUME NEW c \in Calls, CallNext(c), c # d
      PROVE  left'[d] = left[d] /\ at'[d] = at[d] /\ pos'[d] = pos[d]
  BY <1>4, OthersKeep
<1>5. CASE Down
  <2>1. left' = left /\ at'[d] \in {"idle", "done"} /\ (at'[d] = "idle" => at[d] = "idle")
    BY <1>5 DEF Down
  <2>. QED BY <1>1, <2>1
<1>6. CASE Start \/ UNCHANGED vars
  BY <1>1, <1>6 DEF Start, vars
<1>. QED BY <1>1, <1>3, <1>4, <1>5, <1>6, Others

-----------------------------------------------------------------------------
(* Calls that have the writer to themselves *)

\* Where a line of the file stands, it is read for good.
LEMMA StillRead ==
  ASSUME IInv, [Next]_vars
  PROVE  /\ \A i \in DOMAIN file : i \in DOMAIN file' /\ file'[i] = file[i] /\ Readable(i)' = Readable(i)
         /\ ReadableUrls \subseteq ReadableUrls'
<1>1. file \in Seq(Held) /\ Len(file) \in Nat /\ DOMAIN file = 1 .. Len(file)
  BY DEF IInv, WriterInv
<1>2. \A i \in DOMAIN file : i \in DOMAIN file' /\ file'[i] = file[i]
  <2>1. CASE Appends
    <3>1. PICK k \in 0 .. Cells, rest \in {<<>>} \cup {<<Tear(x)>> : x \in Held} :
            file' = file \o SubSeq(buf, 1, k) \o rest
      BY <2>1 DEF Appends
    <3>2. /\ DOMAIN file' = 1 .. Len(file) + k + Len(rest)
          /\ \A i \in 1 .. Len(file) : file'[i] = file[i]
          /\ Len(rest) \in Nat
      BY <3>1, Appended DEF IInv
    <3>. QED BY <1>1, <3>2
  <2>. QED BY <2>1, FileSteps
<1>3. ASSUME NEW i \in DOMAIN file
      PROVE  Readable(i)' = Readable(i)
  <2>1. i > 1 => i - 1 \in DOMAIN file
    BY <1>1
  <2>2. i > 1 /\ i - 1 > 1 => (i - 1) - 1 \in DOMAIN file
    BY <1>1
  <2>3. Starts(i)' = Starts(i) /\ (i > 1 => Starts(i - 1)' = Starts(i - 1))
    <3>1. i \in Nat /\ i >= 1
      BY <1>1
    <3>2. i = 1 \/ i > 1
      BY <3>1
    <3>3. i > 1 => i - 1 = 1 \/ i - 1 > 1
      BY <3>1
    <3>. QED BY <1>2, <2>1, <2>2, <3>2, <3>3 DEF Starts
  <2>. QED BY <1>2, <2>1, <2>3 DEF Readable
<1>4. ReadableUrls \subseteq ReadableUrls'
  BY <1>2, <1>3 DEF ReadableUrls
<1>. QED BY <1>2, <1>3, <1>4

\* A write of all that the buffer holds makes a line readable that stands behind a line end.
LEMMA Flushed ==
  ASSUME IInv, [Next]_vars, NEW c \in Calls, FlushWrite(c), pos[c] = n,
         NEW url \in Saved, Placed(url)
  PROVE  url \in ReadableUrls'
<1>1. PICK j \in 1 .. n : /\ buf[j] = Line(url)
                          /\ IF j > 1 THEN buf[j - 1].part # "first" ELSE FileEnds
  BY DEF Placed
<1>2. n \in 0 .. Cells /\ n \in Nat /\ Len(file) \in Nat /\ DOMAIN file = 1 .. Len(file)
  BY <1>1, BoundAssumption DEF IInv, WriterInv
<1>3. file' = file \o SubSeq(buf, 1, n) \o <<>>
  <2>1. file \o SubSeq(buf, 1, n) \in Seq(Held)
    BY <1>2, SubSeqProperties, ConcatProperties, BoundAssumption DEF IInv, WriterInv
  <2>2. file \o SubSeq(buf, 1, n) \o <<>> = file \o SubSeq(buf, 1, n)
    BY <2>1, ConcatEmptySeq
  <2>. QED BY <2>2 DEF FlushWrite
<1>4. /\ DOMAIN file' = 1 .. Len(file) + n + Len(<<>>)
      /\ \A i \in 1 .. Len(file) : file'[i] = file[i]
      /\ \A i \in 1 .. n : file'[Len(file) + i] = buf[i]
  BY <1>2, <1>3, Appended DEF IInv
<1>. PICK i \in Nat : i = Len(file) + j
  BY <1>2
<1>5. i \in DOMAIN file' /\ file'[i] = Line(url)
  BY <1>1, <1>2, <1>4
<1>6. i = 1 \/ file'[i - 1].part # "first"
  <2>1. CASE j > 1
    <3>1. j - 1 \in 1 .. n /\ i - 1 = Len(file) + (j - 1)
      BY <1>2, <2>1
    <3>. QED BY <1>1, <1>4, <2>1, <3>1
  <2>2. CASE j = 1 /\ Len(file) > 0
    <3>1. i - 1 = Len(file) /\ Len(file) \in 1 .. Len(file) /\ file # <<>>
      BY <1>2, <2>2
    <3>2. file'[i - 1] = file[Len(file)]
      BY <1>4, <3>1
    <3>. QED BY <1>1, <2>2, <3>1, <3>2 DEF FileEnds
  <2>3. CASE j = 1 /\ Len(file) = 0
    BY <2>3
  <2>. QED BY <1>1, <1>2, <2>1, <2>2, <2>3
<1>7. Starts(i)'
  BY <1>6 DEF Starts
<1>8. file'[i].part = "whole" /\ file'[i].url = url
  BY <1>5, Lines
<1>9. Readable(i)'
  BY <1>7, <1>8 DEF Readable
<1>. QED BY <1>5, <1>8, <1>9 DEF ReadableUrls

\* A step of another call leaves a call alone that has the writer to itself, or is the end of
\* its having it so.
LEMMA Undisturbed ==
  ASSUME IInv, [Next]_vars, NEW c \in Calls \ mixed, NEW d \in Calls, d # c, CallNext(d)
  PROVE  at[c] \in Writing =>
           /\ UNCHANGED <<n, buf, file>>
           /\ c \notin mixed' => at'[d] \notin Writing
<1>. SUFFICES ASSUME at[c] \in Writing
              PROVE  /\ UNCHANGED <<n, buf, file>>
                     /\ c \notin mixed' => at'[d] \notin Writing
  OBVIOUS
<1>. USE DEF IInv, ControlInv, Labels, Writing, Checked
<1>1. at[d] \notin Writing
  BY DEF AloneInv, Alone
<1>2. CacheLock(d) \/ SaveCache(d) \/ BatchLock(d) \/ BatchStore(d) \/ BatchStored(d) \/ BatchStop(d)
      \/ Sync(d)
  BY <1>1 DEF CallNext, WriterFailed, EncodeCheck, EncodeCopy, EncodeAdvance, FlushCheck, FlushSlice,
     FlushWrite, FlushFail, FlushFailed, FlushReset, Is
<1>3. UNCHANGED <<n, buf, file>>
  BY <1>2 DEF CacheLock, SaveCache, BatchLock, BatchStore, BatchStored, BatchStop, Sync, writer
<1>4. CASE BatchLock(d) \/ BatchStore(d) \/ BatchStop(d) \/ Sync(d)
  BY <1>1, <1>3, <1>4 DEF BatchLock, BatchStore, BatchStop, Sync, Is, Finish
<1>5. CASE CacheLock(d) \/ SaveCache(d) \/ BatchStored(d)
  <2>1. PICK l \in Labels : at' = [at EXCEPT ![d] = l] /\ mixed' = mixed \cup Mixed(d, l)
    BY <1>5 DEF CacheLock, SaveCache, BatchStored, GoTo
  <2>2. l \in Writing => c \in Mixed(d, l)
    BY <2>1 DEF Mixed
  <2>. QED BY <1>3, <2>1, <2>2
<1>. QED BY <1>2, <1>4, <1>5

\* A call that begins to use the writer.
LEMMA Begins ==
  ASSUME ControlInv, NEW c \in Calls, NEW l \in {"encode", "flush"}, GoTo(c, l),
         at[c] \notin Writing, c \notin mixed', UNCHANGED <<writer, file>>
  PROVE  /\ \A d \in Calls \ {c} : at'[d] \notin Writing
         /\ c \notin behind' => ~Unended'
<1>1. at' = [at EXCEPT ![c] = l] /\ mixed' = mixed \cup Mixed(c, l) /\ l \in Writing
  BY DEF GoTo, Writing
<1>2. \A d \in Calls \ {c} : at'[d] \notin Writing
  BY <1>1 DEF Mixed, ControlInv
<1>3. c \notin behind' => ~Unended
  BY <1>1 DEF GoTo
<1>4. Unended' <=> Unended
  BY DEF Unended, writer
<1>. QED BY <1>2, <1>3, <1>4

\* The steps of the call itself.
LEMMA AloneOwn ==
  ASSUME IInv, [Next]_vars, NEW c \in Calls, c \notin mixed, c \notin mixed', CallNext(c)
  PROVE  Alone(c)'
<1>. USE DEF ControlInv, Labels, Writing, Checked
<1>. IInv /\ Alone(c) /\ ControlInv /\ WriterInv /\ LeftInv
  BY DEF IInv, AloneInv
<1>1. n \in Int /\ n <= Cells /\ Cells \in Nat /\ pos[c] \in 0 .. Cells
  BY BoundAssumption DEF WriterInv
<1>2. status[c] = "none" /\ behind \subseteq behind'
  BY Moves
<1>3. at[c] \in Writing => \A d \in Calls \ {c} : at'[d] \notin Writing
  <2>1. PICK l : at' = [at EXCEPT ![c] = l]
    BY Moves
  <2>. QED BY <2>1 DEF Alone
<1>4. CASE SaveCache(c) \/ BatchStored(c)
  <2>1. PICK l \in {"encode", "flush"} :
          GoTo(c, l) /\ (l = "flush" => Work[c].urls = <<>>)
    BY <1>4 DEF SaveCache, BatchStored
  <2>2. left'[c] = Work[c].urls /\ at[c] \notin Writing /\ UNCHANGED <<writer, file>>
    BY <1>4 DEF SaveCache, BatchStored, Is, LeftInv
  <2>3. /\ \A d \in Calls \ {c} : at'[d] \notin Writing
        /\ c \notin behind' => ~Unended'
    BY <2>1, <2>2, Begins
  <2>4. Taken(c)' = 0
    BY <2>2, Urls DEF Taken
  <2>5. at'[c] = l /\ status'[c] = "none"
    BY <1>2, <2>1 DEF GoTo
  <2>6. l = "flush" => DOMAIN Work[c].urls = {}
    BY <2>1
  <2>. QED BY <2>3, <2>4, <2>5, <2>6 DEF Alone
<1>5. CASE CacheLock(c) \/ BatchLock(c) \/ BatchStore(c) \/ BatchStop(c)
  <2>1. at'[c] \in {"cache", "store", "done"} /\ status'[c] # "ok"
    BY <1>2, <1>5 DEF CacheLock, BatchLock, BatchStore, BatchStop, Is, GoTo, Finish
  <2>. QED BY <2>1 DEF Alone
<1>6. CASE WriterFailed(c) \/ FlushFailed(c) \/ (FlushReset(c) /\ FlushError(c))
  <2>1. Failed(c)
    BY <1>6 DEF WriterFailed, FlushFailed, FlushError
  <2>2. CASE Work[c].kind = "close"
    <3>1. Work[c].urls = <<>>
      BY <2>2, WorkAssumption
    <3>2. at'[c] = "sync"
      BY <2>1, <2>2 DEF Failed, GoTo
    <3>. QED BY <3>1, <3>2 DEF Alone
  <2>3. CASE Work[c].kind # "close"
    <3>1. at'[c] = "done" /\ status'[c] = "error"
      BY <2>1, <2>3 DEF Failed, Finish
    <3>. QED BY <3>1 DEF Alone
  <2>. QED BY <2>2, <2>3
<1>7. CASE EncodeCheck(c) \/ FlushCheck(c) \/ FlushSlice(c)
  <2>1. PICK l \in {"copy", "sync", "slice", "write"} :
          /\ GoTo(c, l)
          /\ l = "copy" => at[c] = "encode"
          /\ l # "copy" => at[c] \in {"flush", "slice"}
          /\ l = "write" => pos'[c] = n
          /\ l = "sync" => n = 0
    BY <1>7 DEF EncodeCheck, FlushCheck, FlushSlice, Is, WriterInv
  <2>2. UNCHANGED <<file, n, buf, left>> /\ at[c] \in Writing
    BY <1>7 DEF EncodeCheck, FlushCheck, FlushSlice, writer, Is
  <2>3. at'[c] = l /\ status'[c] = "none" /\ behind' = behind
    BY <1>2, <2>1, <2>2 DEF GoTo
  <2>4. \A url : Placed(url)' <=> Placed(url)
    BY <2>2 DEF Placed, FileEnds
  <2>5. (Unended' <=> Unended) /\ Taken(c)' = Taken(c) /\ \A i : Counts(c, i)' <=> Counts(c, i)
    BY <2>2, <2>3 DEF Unended, Taken, Counts
  <2>6. l = "sync" => \A i \in DOMAIN Work[c].urls : ~Counts(c, i)
    <3>1. \A url : Placed(url) => n # 0
      BY DEF Placed
    <3>. QED BY <2>1, <3>1 DEF Alone
  <2>. QED BY <1>3, <2>1, <2>2, <2>3, <2>4, <2>5, <2>6 DEF Alone
<1>8. CASE EncodeCopy(c)
  <2>1. /\ at[c] = "copy" /\ at'[c] = "advance" /\ status'[c] = "none" /\ behind' = behind
        /\ UNCHANGED <<left, n, file>> /\ pos'[c] = n + 1 /\ n \in 0 .. Cells /\ n + 1 \in 1 .. Cells
        /\ buf' = [buf EXCEPT ![n + 1] = Line(Current(c))]
    <3>1. at[c] = "copy" /\ GoTo(c, "advance") /\ UNCHANGED <<left, n, file>>
      BY <1>8 DEF EncodeCopy, Is
    <3>2. at'[c] = "advance" /\ status'[c] = "none" /\ behind' = behind
      BY <1>2, <3>1 DEF GoTo
    <3>3. n \in 0 .. Cells /\ n + 1 \in 1 .. Cells /\ pos'[c] = n + 1
      BY <1>1, <1>8 DEF EncodeCopy, WriterInv
    <3>. QED BY <1>8, <3>1, <3>2, <3>3 DEF EncodeCopy
  <2>2. buf'[n + 1] = Line(Current(c)) /\ \A j \in 1 .. n : buf'[j] = buf[j]
    BY <1>1, <2>1 DEF WriterInv
  <2>3. ASSUME NEW url, Placed(url)
        PROVE  Placed(url)'
    <3>1. PICK j \in 1 .. n : /\ buf[j] = Line(url)
                              /\ IF j > 1 THEN buf[j - 1].part # "first" ELSE FileEnds
      BY <2>3 DEF Placed
    <3>2. j > 1 => j - 1 \in 1 .. n
      BY <2>1
    <3>3. (FileEnds' <=> FileEnds) /\ n' = n
      BY <2>1 DEF FileEnds
    <3>. QED BY <2>2, <3>1, <3>2, <3>3 DEF Placed
  <2>4. Unended' <=> Unended
    <3>1. n \in 1 .. Cells => n \in 1 .. n
      BY <2>1
    <3>. QED BY <2>1, <2>2, <3>1 DEF Unended
  <2>5. Taken(c)' = Taken(c) /\ Current(c)' = Current(c) /\ \A i : Counts(c, i)' <=> Counts(c, i)
    BY <2>1 DEF Taken, Current, Counts
  <2>. QED BY <1>3, <2>1, <2>2, <2>3, <2>4, <2>5 DEF Alone
<1>9. CASE EncodeAdvance(c)
  <2>1. /\ at[c] = "advance" /\ status'[c] = "none" /\ UNCHANGED <<buf, file, behind>> /\ n' = n + 1
        /\ left[c] # <<>> /\ left'[c] = Tail(left[c])
        /\ at'[c] = IF Tail(left[c]) = <<>> THEN "flush" ELSE "encode"
    BY <1>1, <1>2, <1>9 DEF EncodeAdvance, Is, GoTo, LeftInv, Alone
  <2>2. /\ Taken(c) \in Nat /\ Current(c) = Work[c].urls[Taken(c) + 1] /\ Current(c) \in Saved
        /\ Len(left'[c]) = Len(left[c]) - 1
    BY <2>1, NextUrl
  <2>3. Taken(c)' = Taken(c) + 1 /\ \A i : Counts(c, i)' <=> Counts(c, i)
    <3>1. Len(left[c]) \in Nat /\ Len(Work[c].urls) \in Nat
      BY Urls DEF LeftInv
    <3>2. Taken(c)' = Taken(c) + 1
      BY <2>2, <3>1 DEF Taken
    <3>3. \A i : Counts(c, i)' <=> Counts(c, i)
      BY <2>1 DEF Counts
    <3>. QED BY <3>2, <3>3
  <2>4. n \in 0 .. Cells /\ n + 1 \in 1 .. Cells /\ n + 1 \in 1 .. n' /\ buf[n + 1] = Line(Current(c))
    BY <1>1, <2>1 DEF LeftInv, Alone
  <2>5. FileEnds' <=> FileEnds
    BY <2>1 DEF FileEnds
  <2>6. \A url : Placed(url) => Placed(url)'
    BY <2>1, <2>4, <2>5 DEF Placed
  <2>. PICK url \in Saved : url = Current(c)
    BY <2>2
  <2>7. Counts(c, Taken(c) + 1) => Placed(url)'
    <3>1. Counts(c, Taken(c) + 1) => ~Unended
      <4>1. Taken(c) + 1 > 1 => Taken(c) >= 1
        BY <2>2
      <4>. QED BY <2>1, <4>1 DEF Alone, Counts
    <3>2. ~Unended => IF n + 1 > 1 THEN buf[(n + 1) - 1].part # "first" ELSE FileEnds
      <4>1. CASE n \in 1 .. Cells
        <5>1. (n + 1) - 1 = n /\ n + 1 > 1
          BY <4>1
        <5>. QED BY <4>1, <5>1 DEF Unended
      <4>2. CASE n = 0
        <5>1. n \notin 1 .. Cells /\ ~(n + 1 > 1)
          BY <4>2
        <5>. QED BY <5>1 DEF Unended, FileEnds
      <4>. QED BY <2>4, <4>1, <4>2
    <3>. QED BY <2>1, <2>4, <2>5, <3>1, <3>2 DEF Placed
  <2>8. \A i \in 1 .. Taken(c)' : Counts(c, i) => Placed(Work[c].urls[i])'
    <3>1. ASSUME NEW i \in 1 .. Taken(c)', Counts(c, i)
          PROVE  Placed(Work[c].urls[i])'
      <4>1. i \in 1 .. Taken(c) \/ i = Taken(c) + 1
        BY <2>2, <2>3
      <4>2. i \in 1 .. Taken(c) => Placed(Work[c].urls[i])
        BY <2>1, <3>1 DEF Alone
      <4>3. i = Taken(c) + 1 => Placed(url)' /\ url = Work[c].urls[i]
        BY <2>2, <2>7, <3>1
      <4>. QED BY <2>6, <4>1, <4>2, <4>3
    <3>. QED BY <3>1
  <2>9. Tail(left[c]) = <<>> => DOMAIN Work[c].urls = 1 .. Taken(c)'
    <3>1. Work[c].urls \in Seq(Record)
      BY Urls
    <3>2. left'[c] = Tail(left[c])
      BY <2>1
    <3>3. Tail(left[c]) = <<>> => Taken(c)' = Len(Work[c].urls)
      BY <3>2, NothingLeft DEF Taken
    <3>. QED BY <3>1, <3>3
  <2>10. ~Unended'
    <3>1. n' \in 1 .. Cells /\ buf'[n'].part # "first"
      BY <2>1, <2>2, <2>4, Lines
    <3>. QED BY <3>1 DEF Unended
  <2>. QED BY <1>3, <2>1, <2>3, <2>8, <2>9, <2>10 DEF Alone
<1>10. CASE FlushWrite(c)
  <2>1. /\ at[c] = "write" /\ at'[c] = "reset" /\ status'[c] = "none" /\ behind' = behind
    BY <1>2, <1>10 DEF FlushWrite, Is, GoTo
  <2>2. ASSUME NEW i \in DOMAIN Work[c].urls, Counts(c, i)
        PROVE  Work[c].urls[i] \in ReadableUrls'
    <3>1. Placed(Work[c].urls[i]) /\ pos[c] = n /\ Work[c].urls[i] \in Saved
      BY <2>1, <2>2, Urls DEF Alone
    <3>. QED BY <1>10, <3>1, Flushed
  <2>3. \A i : Counts(c, i)' <=> Counts(c, i)
    BY <2>1 DEF Counts
  <2>. QED BY <1>3, <2>1, <2>2, <2>3 DEF Alone
<1>11. CASE FlushFail(c)
  <2>1. at'[c] \in {"failed", "torn"} /\ at[c] = "write" /\ status'[c] = "none"
    BY <1>2, <1>11 DEF FlushFail, Is, GoTo
  <2>. QED BY <1>3, <2>1 DEF Alone
<1>12. CASE (FlushReset(c) /\ ~FlushError(c)) \/ Sync(c)
  <2>1. at[c] \in {"reset", "sync"} /\ at'[c] \in {"sync", "done"} /\ behind' = behind
    BY <1>12 DEF FlushReset, Sync, Is, GoTo, Finish
  <2>2. \A i \in DOMAIN Work[c].urls : Counts(c, i) => Work[c].urls[i] \in ReadableUrls'
    BY <2>1, StillRead DEF Alone
  <2>3. \A i : Counts(c, i)' <=> Counts(c, i)
    BY <2>1 DEF Counts
  <2>. QED BY <2>1, <2>2, <2>3 DEF Alone
<1>. QED BY <1>4, <1>5, <1>6, <1>7, <1>8, <1>9, <1>10, <1>11, <1>12 DEF CallNext

LEMMA AloneNext == IInv /\ [Next]_vars => AloneInv'
<1>. SUFFICES ASSUME IInv, [Next]_vars, NEW c \in Calls, c \notin mixed'
              PROVE  Alone(c)'
  BY DEF AloneInv
<1>. USE DEF ControlInv, Labels, Writing, Checked
<1>1. mixed \subseteq mixed'
  BY Others, Moves DEF Down, Start, vars, IInv
<1>2. Alone(c)
  BY <1>1 DEF IInv, AloneInv
<1>3. CASE CallNext(c)
  BY <1>1, <1>3, AloneOwn
<1>4. ASSUME NEW d \in Calls, d # c, CallNext(d)
      PROVE  Alone(c)'
  <2>1. /\ at'[c] = at[c] /\ status'[c] = status[c] /\ left'[c] = left[c] /\ pos'[c] = pos[c]
        /\ c \in behind' <=> c \in behind
    BY <1>4, OthersKeep
  <2>2. at[c] \in Writing => UNCHANGED <<n, buf, file>> /\ at'[d] \notin Writing
    BY <1>1, <1>4, Undisturbed
  <2>3. Taken(c)' = Taken(c) /\ Current(c)' = Current(c) /\ \A i : Counts(c, i)' <=> Counts(c, i)
    BY <2>1 DEF Taken, Current, Counts
  <2>4. at[c] \in Writing => \A e \in Calls \ {c} : at'[e] \notin Writing
    <3>1. \A e \in Calls : e # d => at'[e] = at[e]
      BY <1>4, OthersKeep
    <3>. QED BY <1>2, <2>2, <3>1 DEF Alone
  <2>5. at[c] \in Writing => (Unended' <=> Unended) /\ \A url : Placed(url)' <=> Placed(url)
    BY <2>2 DEF Unended, Placed, FileEnds
  <2>6. at[c] \in {"reset", "sync"} \/ status[c] = "ok" =>
          \A i \in DOMAIN Work[c].urls : Counts(c, i) => Work[c].urls[i] \in ReadableUrls'
    BY <1>2, StillRead DEF Alone
  <2>. QED BY <1>2, <2>1, <2>2, <2>3, <2>4, <2>5, <2>6 DEF Alone
<1>5. CASE Down
  <2>1. at'[c] \in {"idle", "done"} /\ status' = status /\ behind' = behind
    BY <1>5 DEF Down
  <2>2. status[c] = "ok" =>
          \A i \in DOMAIN Work[c].urls : Counts(c, i) => Work[c].urls[i] \in ReadableUrls'
    BY <1>2, StillRead DEF Alone
  <2>. QED BY <2>1, <2>2 DEF Alone, Counts
<1>6. CASE Start \/ UNCHANGED vars
  <2>1. UNCHANGED <<at, status, left, pos, n, buf, file, behind>>
    BY <1>6 DEF Start, vars, writer
  <2>2. /\ Taken(c)' = Taken(c) /\ Current(c)' = Current(c) /\ \A i : Counts(c, i)' <=> Counts(c, i)
        /\ (Unended' <=> Unended) /\ \A url : Placed(url)' <=> Placed(url)
        /\ ReadableUrls' = ReadableUrls
    BY <2>1 DEF Taken, Current, Counts, Unended, Placed, FileEnds, ReadableUrls, Readable, Starts
  <2>. QED BY <1>2, <2>1, <2>2 DEF Alone
<1>. QED BY <1>3, <1>4, <1>5, <1>6, Others

\* A call that is past a check when the writer fails shares it with the call that failed.
LEMMA FailedNext == IInv /\ [Next]_vars => FailedInv'
<1>. SUFFICES ASSUME IInv, [Next]_vars, werr', NEW d \in Calls, at'[d] \in Checked
              PROVE  d \in mixed'
  BY DEF FailedInv
<1>. USE DEF ControlInv, Labels, Writing, Checked, IInv
<1>1. ASSUME NEW c \in Calls, CallNext(c)
      PROVE  d \in mixed'
  <2>1. mixed \subseteq mixed' /\ \A e \in Calls \ {c} : at'[e] = at[e]
    BY <1>1, Moves, OthersKeep
  <2>2. CASE d = c
    <3>1. at[c] \in Checked \/ ~werr
      <4>1. CASE EncodeCheck(c) \/ FlushCheck(c)
        BY <4>1 DEF EncodeCheck, FlushCheck
      <4>2. CASE CacheLock(c) \/ SaveCache(c) \/ BatchLock(c) \/ BatchStore(c) \/ BatchStored(c)
                 \/ BatchStop(c) \/ Sync(c)
        BY <2>2, <4>2 DEF CacheLock, SaveCache, BatchLock, BatchStore, BatchStored, BatchStop, Sync,
           Is, GoTo, Finish
      <4>3. CASE WriterFailed(c)
        <5>1. Failed(c)
          BY <4>3 DEF WriterFailed
        <5>2. at' = [at EXCEPT ![c] = "sync"] \/ at' = [at EXCEPT ![c] = "done"]
          BY <5>1 DEF Failed, GoTo, Finish
        <5>3. at'[c] \in {"sync", "done"}
          BY <5>2
        <5>. QED BY <2>2, <5>3
      <4>4. CASE EncodeCopy(c) \/ EncodeAdvance(c) \/ FlushSlice(c) \/ FlushWrite(c) \/ FlushFail(c)
                 \/ FlushFailed(c) \/ FlushReset(c)
        BY <4>4 DEF EncodeCopy, EncodeAdvance, FlushSlice, FlushWrite, FlushFail, FlushFailed, FlushReset, Is
      <4>. QED BY <1>1, <4>1, <4>2, <4>3, <4>4 DEF CallNext
    <3>2. ~FlushError(c)
      <4>1. FlushError(c) => at'[c] \in {"sync", "done"}
        BY DEF FlushError, Failed, GoTo, Finish
      <4>. QED BY <2>2, <4>1
    <3>3. werr' = werr
      BY <1>1, <3>2 DEF CallNext, CacheLock, SaveCache, BatchLock, BatchStore, BatchStored, BatchStop,
         WriterFailed, EncodeCheck, EncodeCopy, EncodeAdvance, FlushCheck, FlushSlice, FlushWrite,
         FlushFail, FlushFailed, FlushReset, Sync, writer
    <3>. QED BY <2>1, <2>2, <3>1, <3>3 DEF FailedInv
  <2>3. CASE d # c /\ werr
    BY <2>1, <2>3 DEF FailedInv
  <2>4. CASE d # c /\ ~werr
    <3>1. at[c] \in Writing
      BY <1>1, <2>4 DEF CallNext, CacheLock, SaveCache, BatchLock, BatchStore, BatchStored, BatchStop,
         WriterFailed, EncodeCheck, EncodeCopy, EncodeAdvance, FlushCheck, FlushSlice, FlushWrite,
         FlushFail, FlushFailed, FlushReset, Sync, Is, writer
    <3>. QED BY <2>1, <2>4, <3>1 DEF AloneInv, Alone
  <2>. QED BY <2>2, <2>3, <2>4
<1>2. CASE Down
  BY <1>2 DEF Down
<1>3. CASE Start \/ UNCHANGED vars
  BY <1>3 DEF Start, vars, writer, FailedInv
<1>. QED BY <1>1, <1>2, <1>3, Others

-----------------------------------------------------------------------------
(* The maps *)

\* A set of lines that is not empty has a last one.
LEMMA Greatest ==
  ASSUME NEW k \in Nat, NEW lines, lines \subseteq 1 .. k, lines # {}
  PROVE  \E i \in lines : \A j \in lines : j <= i
<1>. DEFINE rest == {k - i : i \in lines}
<1>1. rest \subseteq Nat /\ rest # {}
  <2>1. PICK i \in lines : TRUE
    OBVIOUS
  <2>2. k - i \in rest
    OBVIOUS
  <2>3. \A j \in lines : k - j \in Nat
    OBVIOUS
  <2>. QED BY <2>2, <2>3
<1>2. PICK x \in rest : \A y \in rest : ~(<<y, x>> \in OpToRel(<, Nat))
  BY <1>1, WFMin, NatLessThanWellFounded, Zenon
<1>3. \A y \in rest : y \in Nat /\ x \in Nat => ~(y < x)
  BY <1>2, Zenon DEF OpToRel
<1>4. \A y \in rest : ~(y < x)
  BY <1>1, <1>3
<1>5. PICK i \in lines : x = k - i
  OBVIOUS
<1>6. \A j \in lines : ~(k - j < k - i)
  BY <1>4, <1>5
<1>. QED BY <1>6

\* What can be read is what a call has saved.
LEMMA ReadIsSaved ==
  ASSUME WriterInv, NEW i \in DOMAIN file, Readable(i)
  PROVE  file[i].url \in Saved
<1>1. file[i] \in Held /\ file[i].part # "first"
  BY DEF WriterInv, Readable
<1>. QED BY <1>1, Lines

\* What a start reads: for each readable line a line with its short, and so its original.
LEMMA LoadedMaps ==
  ASSUME IInv, Start
  PROVE  /\ MemInv'
         /\ \A i \in DOMAIN file : Readable(i) => Known(file[i].url)'
<1>. DEFINE good        == {i \in DOMAIN file : Readable(i)}
            short(s)    == {i \in good : file[i].url.short = s}
            original(o) == {i \in good : file[i].url.original = o}
<1>1. file \in Seq(Held) /\ Len(file) \in Nat /\ DOMAIN file = 1 .. Len(file)
  BY DEF IInv, WriterInv
<1>2. \A i \in good : file[i].url \in Saved /\ file[i].url \in Record
  BY ReadIsSaved, SavedUrls DEF IInv
<1>3. ASSUME NEW lines, lines \subseteq good, lines # {}
      PROVE  \E i \in lines : LastOf(lines) = file[i].url
  <2>1. \E i \in lines : \A j \in lines : j <= i
    BY <1>1, <1>3, Greatest
  <2>. QED BY <2>1 DEF LastOf
<1>4. /\ mem'.orig = [s \in {file[i].url.short : i \in good} |-> LastOf(short(s)).original]
      /\ mem'.short = [o \in {file[i].url.original : i \in good} |-> LastOf(original(o)).short]
      /\ mem'.deleted = {s \in {file[i].url.short : i \in good} : \E i \in short(s) : file[i].url.deleted}
      /\ MapNames \subseteq DOMAIN mem' /\ file' = file /\ lost' = lost
  BY DEF Start, Loaded, MapNames
<1>5. mem'.deleted = {}
  <2>1. \A i \in good : ~file[i].url.deleted
    BY <1>2, RecordFields
  <2>. QED BY <1>4, <2>1
<1>6. DOMAIN mem'.orig \subseteq Shorts /\ DOMAIN mem'.short \subseteq Originals
  <2>1. \A i \in good : file[i].url.short \in Shorts /\ file[i].url.original \in Originals
    BY <1>2, RecordFields
  <2>2. /\ DOMAIN mem'.orig = {file[i].url.short : i \in good}
        /\ DOMAIN mem'.short = {file[i].url.original : i \in good}
    BY <1>4
  <2>. QED BY <2>1, <2>2
<1>7. ASSUME NEW i \in good
      PROVE  Known(file[i].url)'
  <2>1. i \in short(file[i].url.short)
    OBVIOUS
  <2>2. PICK j \in short(file[i].url.short) : LastOf(short(file[i].url.short)) = file[j].url
    BY <1>3, <2>1
  <2>3. file[j].url.original = file[i].url.original
    BY <1>2, <2>2, SavedUrls
  <2>4. file[i].url.short \in DOMAIN mem'.orig
    BY <1>4
  <2>5. mem'.orig[file[i].url.short] = LastOf(short(file[i].url.short)).original
    <3>. DEFINE s == file[i].url.short
    <3>1. s \in {file[j1].url.short : j1 \in good}
      OBVIOUS
    <3>2. mem'.orig = [t \in {file[j1].url.short : j1 \in good} |-> LastOf(short(t)).original]
      BY <1>4
    <3>. HIDE DEF s, good, short
    <3>3. mem'.orig[s] = LastOf(short(s)).original
      BY <3>1, <3>2
    <3>. QED BY <3>3 DEF s
  <2>. QED BY <1>4, <2>2, <2>3, <2>4, <2>5 DEF Known
<1>. QED BY <1>4, <1>5, <1>6, <1>7 DEF MemInv, IInv

\* What a call does to the maps: it stores its URL, or the URL is lost in a race.
Stores(c) ==
  /\ mem' = Cached(c) \/ (mem' = mem /\ Current(c).short \in lost')
  /\ lost \subseteq lost' /\ lost' \subseteq Shorts
  /\ Current(c) \in Saved

LEMMA StoredMaps ==
  ASSUME MemInv, NEW c \in Calls, Stores(c)
  PROVE  /\ MemInv' /\ \A u \in Saved : u = Current(c) \/ Known(u) => Known(u)'
<1>. PICK url \in Saved : url = Current(c)
  BY DEF Stores
<1>1. url \in Record
  BY SavedUrls
<1>2. CASE mem' = Cached(c)
  <2>1. /\ MapNames \subseteq DOMAIN mem'
        /\ DOMAIN mem'.orig = DOMAIN mem.orig \cup {url.short}
        /\ DOMAIN mem'.short = DOMAIN mem.short \cup {url.original}
        /\ \A s \in DOMAIN mem'.orig :
             mem'.orig[s] = IF s = url.short THEN url.original ELSE mem.orig[s]
        /\ mem'.deleted = mem.deleted
    BY <1>1, <1>2, RecordFields DEF Cached, SaveNoLock, Put, MapNames
  <2>2. MemInv'
    BY <1>1, <2>1, RecordFields DEF MemInv, Stores
  <2>3. ASSUME NEW u \in Saved, u = url \/ Known(u)
        PROVE  Known(u)'
    BY <2>1, <2>3, SavedUrls DEF Known, Stores
  <2>. QED BY <2>2, <2>3
<1>3. CASE mem' = mem /\ url.short \in lost'
  BY <1>3 DEF MemInv, Known, Stores
<1>. QED BY <1>2, <1>3 DEF Stores

\* Steps that store the next URL of a call.
LEMMA StepStores ==
  ASSUME IInv, NEW c \in Calls, CallNext(c)
  PROVE  /\ SaveCache(c) \/ BatchStore(c) => Stores(c)
         /\ ~(SaveCache(c) \/ BatchStore(c)) => UNCHANGED <<mem, lost>>
<1>. USE DEF IInv, LeftInv
<1>1. ASSUME SaveCache(c)
      PROVE  Stores(c)
  <2>1. Work[c].kind = "save" /\ left[c] = Work[c].urls
    BY <1>1 DEF SaveCache, Is, ControlInv
  <2>2. left[c] # <<>>
    BY <2>1, SaveUrls
  <2>3. Current(c) \in Saved /\ lost' = lost /\ lost \subseteq Shorts
    BY <1>1, <2>2, NextUrl DEF SaveCache, MemInv
  <2>. QED BY <1>1, <2>3 DEF SaveCache, Stores
<1>2. ASSUME BatchStore(c)
      PROVE  Stores(c)
  <2>1. Current(c) \in Saved
    BY <1>2, NextUrl DEF BatchStore
  <2>2. \A d \in Saving : Current(d) \in Saved
    <3>1. ASSUME NEW d \in Saving
          PROVE  Current(d) \in Saved
      <4>1. d \in Calls /\ Work[d].kind = "save" /\ left[d] = Work[d].urls
        BY DEF Saving, ControlInv
      <4>2. left[d] # <<>>
        BY <4>1, SaveUrls
      <4>. QED BY <4>1, <4>2, NextUrl
    <3>. QED BY <3>1
  <2>3. \A u \in Saved : u.short \in Shorts
    BY SavedUrls, RecordFields
  <2>4. PICK gone \in SUBSET {Current(d).short : d \in IF Saving = {} THEN {} ELSE Saving \cup {c}} :
          /\ lost' = lost \cup gone
          /\ mem' = IF Current(c).short \in gone THEN mem ELSE Cached(c)
    BY <1>2 DEF BatchStore
  <2>5. gone \subseteq Shorts
    BY <2>1, <2>2, <2>3
  <2>6. lost' \subseteq Shorts /\ lost \subseteq lost'
    BY <2>4, <2>5 DEF MemInv
  <2>7. mem' = Cached(c) \/ (mem' = mem /\ Current(c).short \in lost')
    BY <2>4
  <2>. QED BY <2>1, <2>6, <2>7 DEF Stores
<1>3. ASSUME ~(SaveCache(c) \/ BatchStore(c))
      PROVE  UNCHANGED <<mem, lost>>
  BY <1>3 DEF CallNext, CacheLock, BatchLock, BatchStored, BatchStop, WriterFailed, EncodeCheck,
     EncodeCopy, EncodeAdvance, FlushCheck, FlushSlice, FlushWrite, FlushFail, FlushFailed,
     FlushReset, Sync
<1>. QED BY <1>1, <1>2, <1>3

LEMMA MemNext == IInv /\ [Next]_vars => MemInv'
<1>. SUFFICES ASSUME IInv, [Next]_vars PROVE MemInv'
  OBVIOUS
<1>1. CASE \E c \in Calls : Stores(c)
  BY <1>1, StoredMaps DEF IInv
<1>2. CASE Down
  BY <1>2 DEF Down, EmptyStorage, MemInv, MapNames
<1>3. CASE UNCHANGED <<mem, lost>>
  BY <1>3 DEF MemInv, IInv
<1>. QED BY <1>1, <1>2, <1>3, LoadedMaps, StepStores, Others DEF vars

\* Everything that the buffer holds is something that a call saves.
LEMMA HeldIsSaved ==
  ASSUME WriterInv, NEW i \in 1 .. Cells, buf[i] # Zero
  PROVE  buf[i].url \in Saved
<1>1. buf[i] \in Held
  BY DEF WriterInv
<1>. QED BY <1>1, Lines

LEMMA Behind ==
  ASSUME NEW a \in Nat, NEW k \in Nat, NEW i \in Nat, i > a, i <= a + k
  PROVE  \E j \in 1 .. k : i = a + j
<1>1. i - a \in 1 .. k /\ i = a + (i - a)
  OBVIOUS
<1>. QED BY <1>1

\* Lines that a write adds are known as far as the lines of the buffer are.
LEMMA FileKnown ==
  ASSUME IInv, [Next]_vars, phase = "up", \A u \in Saved : Known(u) => Known(u)',
         NEW i \in DOMAIN file', Readable(i)'
  PROVE  Known(file[i].url)'
<1>. USE DEF IInv
<1>1. ASSUME i \in DOMAIN file
      PROVE  Known(file[i].url)'
  <2>1. file'[i] = file[i] /\ Readable(i)
    BY <1>1, StillRead
  <2>2. Known(file[i].url) /\ file[i].url \in Saved
    BY <1>1, <2>1, ReadIsSaved DEF CacheInv
  <2>3. PICK u \in Saved : u = file[i].url
    BY <2>2
  <2>4. Known(u)' /\ file'[i].url = u
    BY <2>1, <2>2, <2>3
  <2>. QED BY <2>4 DEF Known
<1>2. CASE file' = file
  BY <1>1, <1>2
<1>3. CASE Appends
  <2>1. PICK k \in 0 .. Cells, rest \in {<<>>} \cup {<<Tear(x)>> : x \in Held} :
          file' = file \o SubSeq(buf, 1, k) \o rest
    BY <1>3 DEF Appends
  <2>2. k \in Nat /\ Cells \in Nat
    BY BoundAssumption
  <2>3. /\ Len(file) \in Nat /\ Len(rest) \in Nat /\ DOMAIN file = 1 .. Len(file)
        /\ DOMAIN file' = 1 .. Len(file) + k + Len(rest)
        /\ \A j \in 1 .. k : file'[Len(file) + j] = buf[j]
        /\ \A j \in 1 .. Len(rest) : file'[Len(file) + k + j].part = "first"
    BY <2>1, Appended
  <2>. i \in Nat /\ i <= Len(file) + k + Len(rest)
    BY <2>2, <2>3
  <2>4. file'[i].part # "first"
    BY DEF Readable
  <2>5. CASE i <= Len(file)
    <3>1. i >= 1
      BY <2>3, <2>2
    <3>. QED BY <1>1, <2>3, <2>5, <3>1
  <2>6. CASE i > Len(file) /\ i <= Len(file) + k
    <3>1. PICK j \in 1 .. k : i = Len(file) + j
      BY <2>2, <2>3, <2>6, Behind
    <3>2. file'[i] = buf[j] /\ buf[j] # Zero /\ j \in 1 .. Cells
      BY <2>2, <2>3, <2>4, <3>1, Lines
    <3>3. PICK u \in Saved : u = buf[j].url
      BY <3>2, HeldIsSaved
    <3>4. Known(u)'
      BY <3>2, <3>3 DEF CacheInv
    <3>5. file'[i].url = u
      BY <3>2, <3>3
    <3>. QED BY <3>4, <3>5 DEF Known
  <2>7. CASE i > Len(file) + k
    <3>1. PICK j \in 1 .. Len(rest) : i = Len(file) + k + j
      <4>1. Len(file) + k \in Nat
        BY <2>2, <2>3
      <4>. QED BY <2>3, <2>7, <4>1, Behind
    <3>. QED BY <2>3, <2>4, <3>1
  <2>. QED BY <2>2, <2>3, <2>5, <2>6, <2>7
<1>. QED BY <1>2, <1>3, FileSteps

\* What a step leaves in the buffer is known as it was.
LEMMA BufKnown ==
  ASSUME IInv, NEW c \in Calls, CallNext(c), \A u \in Saved : Known(u) => Known(u)',
         NEW i \in 1 .. Cells, buf'[i] # Zero
  PROVE  Known(buf[i].url)'
<1>. USE DEF IInv
<1>0. phase = "up"
  BY Moves
<1>1. ASSUME NEW x \in Held, x # Zero, Known(x.url), buf'[i] = x \/ buf'[i] = Rest(x)
      PROVE  Known(buf[i].url)'
  <2>1. x.url \in Saved /\ (Rest(x) # Zero => Rest(x).url = x.url)
    BY <1>1, Lines
  <2>2. PICK u \in Saved : u = x.url
    BY <2>1
  <2>3. Known(u)' /\ buf'[i].url = u
    BY <1>1, <2>1, <2>2
  <2>. QED BY <2>3 DEF Known
<1>2. ASSUME NEW j \in 1 .. Cells, buf'[i] = buf[j] \/ buf'[i] = Rest(buf[j])
      PROVE  Known(buf[i].url)'
  <2>1. buf[j] \in Held
    BY DEF WriterInv
  <2>2. buf[j] # Zero
    BY <1>2, <2>1, Lines DEF Rest
  <2>3. Known(buf[j].url)
    BY <1>0, <2>2 DEF CacheInv
  <2>. QED BY <1>1, <1>2, <2>1, <2>2, <2>3
<1>3. CASE EncodeCopy(c)
  <2>1. left[c] # <<>> /\ at[c] = "copy"
    BY <1>3 DEF EncodeCopy, Is, LeftInv
  <2>2. Known(Current(c)) /\ Current(c) \in Saved
    BY <1>0, <2>1, NextUrl DEF CacheInv, Writing, Checked
  <2>3. buf'[i] = Line(Current(c)) \/ buf'[i] = buf[i]
    BY <1>3 DEF EncodeCopy, WriterInv
  <2>4. /\ Line(Current(c)) \in Held /\ Line(Current(c)) # Zero
        /\ Line(Current(c)).url = Current(c)
    BY <2>2, Lines
  <2>. QED BY <1>1, <1>2, <2>2, <2>3, <2>4
<1>4. CASE FlushError(c)
  BY <1>2, <1>4, ErrorKeeps
<1>5. CASE buf' = buf
  BY <1>2, <1>5
<1>. QED BY <1>3, <1>4, <1>5 DEF CallNext, CacheLock, SaveCache, BatchLock, BatchStore, BatchStored,
     BatchStop, WriterFailed, EncodeCheck, EncodeAdvance, FlushCheck, FlushSlice, FlushWrite,
     FlushFail, FlushFailed, FlushReset, Sync, writer

\* What a call writes is known before.
LEMMA WorkKnown ==
  ASSUME IInv, NEW c \in Calls, CallNext(c), \A u \in Saved : Known(u) => Known(u)',
         SaveCache(c) \/ BatchStore(c) => Stores(c),
         NEW d \in Calls, NEW i \in DOMAIN Work[d].urls,
         at'[d] \in Writing \/ (at'[d] = "store" /\ i <= Taken(d)')
  PROVE  Known(Work[d].urls[i])'
<1>. USE DEF IInv, ControlInv
<1>0. phase = "up"
  BY Moves
<1>1. Work[d].urls[i] \in Saved /\ Work[d].urls \in Seq(Record) /\ i \in 1 .. Len(Work[d].urls)
  BY Urls
<1>2. ASSUME at[d] \in Writing \/ (at[d] = "store" /\ i <= Taken(d))
      PROVE  Known(Work[d].urls[i])'
  <2>1. Known(Work[d].urls[i])
    BY <1>0, <1>2 DEF CacheInv
  <2>. QED BY <1>1, <2>1
<1>3. CASE d # c
  <2>1. at'[d] = at[d] /\ left'[d] = left[d]
    BY <1>3, OthersKeep
  <2>2. Taken(d)' = Taken(d)
    BY <2>1 DEF Taken
  <2>. QED BY <1>2, <2>1, <2>2
<1>4. CASE d = c /\ SaveCache(c)
  <2>1. Len(Work[c].urls) = 1 /\ left[c] = Work[c].urls
    BY <1>4, WorkAssumption DEF SaveCache, Is, LeftInv
  <2>2. i = 1
    BY <1>1, <1>4, <2>1
  <2>3. Current(c) = Work[d].urls[i]
    BY <1>1, <1>4, <2>1, <2>2 DEF Current
  <2>. QED BY <1>1, <1>4, <2>3, StoredMaps
<1>5. CASE d = c /\ BatchStore(c)
  <2>1. at[c] = "store" /\ at' = at /\ left[c] # <<>> /\ left'[c] = Tail(left[c])
    BY <1>5 DEF BatchStore, Is, LeftInv
  <2>2. /\ Taken(c) \in Nat /\ Current(c) = Work[c].urls[Taken(c) + 1]
        /\ Len(left'[c]) = Len(left[c]) - 1
    BY <2>1, NextUrl
  <2>3. Taken(c)' = Taken(c) + 1
    <3>1. Len(left[c]) \in Nat /\ Len(Work[c].urls) \in Nat
      BY Urls DEF LeftInv
    <3>. QED BY <2>2, <3>1 DEF Taken
  <2>4. i <= Taken(c) \/ i = Taken(c) + 1
    <3>1. i <= Taken(c) + 1
      BY <1>5, <2>1, <2>3, Zenon DEF Writing, Checked
    <3>. QED BY <1>1, <2>2, <3>1
  <2>5. i = Taken(c) + 1 => Work[d].urls[i] = Current(c)
    BY <1>5, <2>2
  <2>. QED BY <1>1, <1>2, <1>5, <2>1, <2>4, <2>5, StoredMaps
<1>6. CASE d = c /\ BatchLock(c)
  <2>1. at'[c] = "store" /\ left'[c] = Work[c].urls
    BY <1>6 DEF BatchLock, Is, LeftInv
  <2>2. Taken(c)' = 0
    BY <2>1, Urls DEF Taken
  <2>. QED BY <1>1, <1>6, <2>1, <2>2 DEF Writing, Checked
<1>7. CASE d = c /\ BatchStored(c)
  <2>1. at[c] = "store" /\ left[c] = <<>>
    BY <1>7 DEF BatchStored, Is
  <2>2. Taken(c) = Len(Work[c].urls)
    BY <2>1, NothingLeft DEF Taken
  <2>. QED BY <1>1, <1>2, <1>7, <2>1, <2>2
<1>8. CASE d = c /\ (CacheLock(c) \/ BatchStop(c) \/ Sync(c))
  <2>1. at'[d] \in {"cache", "done"}
    BY <1>8 DEF CacheLock, BatchStop, Sync, GoTo, Finish
  <2>. QED BY <2>1 DEF Writing, Checked
<1>9. CASE at[d] \in Writing
  BY <1>2, <1>9
<1>. QED BY <1>3, <1>4, <1>5, <1>6, <1>7, <1>8, <1>9 DEF CallNext, WriterFailed, EncodeCheck, EncodeCopy,
     EncodeAdvance, FlushCheck, FlushSlice, FlushWrite, FlushFail, FlushFailed, FlushReset, Is,
     Writing, Checked

LEMMA CacheNext == IInv /\ [Next]_vars => CacheInv'
<1>. SUFFICES ASSUME IInv, [Next]_vars PROVE CacheInv'
  OBVIOUS
<1>1. ASSUME NEW c \in Calls, CallNext(c)
      PROVE  CacheInv'
  <2>1. /\ \A u \in Saved : Known(u) => Known(u)'
        /\ SaveCache(c) \/ BatchStore(c) => Stores(c)
    <3>1. SaveCache(c) \/ BatchStore(c) => Stores(c)
      BY <1>1, StepStores
    <3>2. CASE SaveCache(c) \/ BatchStore(c)
      BY <3>1, <3>2, StoredMaps DEF IInv
    <3>3. CASE ~(SaveCache(c) \/ BatchStore(c))
      <4>1. UNCHANGED <<mem, lost>>
        BY <1>1, <3>3, StepStores
      <4>. QED BY <3>3, <4>1 DEF Known
    <3>. QED BY <3>1, <3>2, <3>3
  <2>2. phase = "up"
    BY <1>1, Moves DEF IInv
  <2>. QED BY <1>1, <2>1, <2>2, FileKnown, BufKnown, WorkKnown DEF CacheInv
<1>2. CASE Down
  BY <1>2 DEF Down, CacheInv
<1>3. CASE Start
  <2>1. \A i \in DOMAIN file : Readable(i) => Known(file[i].url)'
    BY <1>3, LoadedMaps
  <2>2. phase = "down" /\ file' = file /\ buf' = buf /\ at' = at
    BY <1>3 DEF Start, writer
  <2>3. \A i \in 1 .. Cells : buf'[i] = Zero
    BY <2>2 DEF IInv, WriterInv, FreshBuffer
  <2>4. \A c \in Calls : at'[c] \notin Writing \cup {"store"}
    BY <2>2 DEF IInv, ControlInv, Writing, Checked
  <2>. QED BY <2>1, <2>2, <2>3, <2>4 DEF CacheInv, Readable, Starts, Known
<1>4. CASE UNCHANGED vars
  BY <1>4 DEF IInv, vars, writer, CacheInv, Readable, Starts, Known, Taken
<1>. QED BY <1>1, <1>2, <1>3, <1>4, Others

-----------------------------------------------------------------------------
\* The inductive invariant behind the results below.
THEOREM Invariance == Spec => []IInv
<1>1. Init => IInv
  BY InitInv
<1>2. IInv /\ [Next]_vars => IInv'
  BY ControlNext, WriterNext, MemNext, LeftNext, AloneNext, FailedNext, CacheNext DEF IInv
<1>. QED BY <1>1, <1>2, PTL DEF Spec

\* Every variable keeps its type, and r.mu is held by a batch or Close that is under way
\* (file_storage_repository.go:96-131, 181-192), whatever races for the writer.
THEOREM TypeSafe == Spec => []TypeOK
<1>1. IInv => TypeOK
  <2>. SUFFICES ASSUME IInv PROVE TypeOK
    OBVIOUS
  <2>1. Held \subseteq Cell
    BY SavedUrls DEF Held, Cell, Zero
  <2>2. file \in Seq(Cell) /\ buf \in [1 .. Cells -> Cell]
    BY <2>1 DEF IInv, WriterInv
  <2>. QED BY <2>2 DEF IInv, ControlInv, Labels, WriterInv, MemInv, LeftInv, TypeOK
<1>. QED BY <1>1, Invariance, PTL

\* Every line that a start can read is in the maps of a process that runs, but for entries
\* that the race of SaveBatch with Save has lost (file_storage_repository.go:65-155), after
\* any number of failed calls, torn writes, races for the writer and crashes.
THEOREM CacheCoversFileSafe == Spec => []CacheCoversFile
<1>1. IInv => CacheCoversFile
  <2>. SUFFICES ASSUME IInv, phase = "up", NEW i \in DOMAIN file, Readable(i)
                PROVE  file[i].url.short \in lost \/ Find(mem, file[i].url.short) = file[i].url.original
    BY DEF CacheCoversFile, ReadableUrls
  <2>1. Known(file[i].url) /\ mem.deleted = {}
    BY DEF IInv, CacheInv, MemInv
  <2>. QED BY <2>1 DEF Find, Known
<1>. QED BY <1>1, Invariance, PTL

\* Each line of a call that had the writer to itself and returned nil can be read by every
\* later start (file_storage_repository.go:65-155), whatever fails, crashes or races before
\* or after it; its first line only if the call did not begin behind half a line.
THEOREM AloneIsWrittenSafe == Spec => []AloneIsWritten
<1>1. IInv => AloneIsWritten
  BY DEF IInv, AloneInv, Alone, AloneIsWritten, Counts
<1>. QED BY <1>1, Invariance, PTL

\* Once the writer has failed, only a call that was already past its check and shared the
\* writer with the failed one can still append to the file, and no call gets past the check
\* (file_storage_repository.go:70-77, 111-122, 185) until the process starts again.
THEOREM FailureIsFinalSafe == Spec => FailureIsFinal
<1>. DEFINE Final ==
       werr => /\ Past' \subseteq Past
               /\ file' = file \/ \E c \in mixed \cap Past : at'[c] \notin {"slice", "write"}
<1>1. IInv /\ [Next]_vars => Final
  <2>. SUFFICES ASSUME IInv, [Next]_vars, werr PROVE Final
    OBVIOUS
  <2>. USE DEF IInv, ControlInv, Labels, Writing, Checked
  <2>1. ASSUME NEW c \in Calls, CallNext(c)
        PROVE  Final
    <3>1. \A d \in Calls \ {c} : at'[d] = at[d]
      BY <2>1, OthersKeep
    <3>2. CASE FlushSlice(c)
      BY <2>1, <3>1, <3>2 DEF FlushSlice, Is, Past
    <3>3. CASE FlushWrite(c) \/ FlushFail(c)
      <4>1. at[c] = "write" /\ at'[c] \in {"reset", "failed", "torn"}
        BY <3>3 DEF FlushWrite, FlushFail, Is, GoTo
      <4>2. c \in mixed
        BY <4>1 DEF FailedInv
      <4>. QED BY <3>1, <4>1, <4>2 DEF Past
    <3>4. CASE CacheLock(c) \/ SaveCache(c) \/ BatchLock(c) \/ BatchStore(c) \/ BatchStored(c)
               \/ BatchStop(c) \/ EncodeCopy(c) \/ EncodeAdvance(c) \/ Sync(c)
      <4>1. file' = file
        BY <3>4 DEF CacheLock, SaveCache, BatchLock, BatchStore, BatchStored, BatchStop, EncodeCopy,
           EncodeAdvance, Sync
      <4>2. at'[c] \notin {"slice", "write"}
        BY <3>4 DEF CacheLock, SaveCache, BatchLock, BatchStore, BatchStored, BatchStop, EncodeCopy,
           EncodeAdvance, Sync, Is, GoTo, Finish
      <4>. QED BY <3>1, <4>1, <4>2 DEF Past
    <3>5. CASE WriterFailed(c) \/ FlushFailed(c) \/ FlushReset(c)
      <4>1. file' = file
        BY <3>5 DEF WriterFailed, FlushFailed, FlushReset
      <4>2. GoTo(c, "sync") \/ Finish(c, "error")
        BY <3>5 DEF WriterFailed, FlushFailed, FlushReset, FlushError, Failed
      <4>3. at'[c] \notin {"slice", "write"}
        BY <4>2 DEF GoTo, Finish
      <4>. QED BY <3>1, <4>1, <4>3 DEF Past
    <3>6. CASE EncodeCheck(c) \/ FlushCheck(c)
      BY <3>6 DEF EncodeCheck, FlushCheck
    <3>. QED BY <2>1, <3>2, <3>3, <3>4, <3>5, <3>6 DEF CallNext
  <2>2. CASE Down
    BY <2>2 DEF Down, Past
  <2>3. CASE Start \/ UNCHANGED vars
    BY <2>3 DEF Start, vars, Past
  <2>. QED BY <2>1, <2>2, <2>3, Others
<1>2. IInv /\ [Next]_vars => [Final]_vars
  BY <1>1
<1>. QED BY <1>2, Invariance, PTL DEF Spec, FailureIsFinal
===============================================================================
