---------------------------- MODULE FileRepository ----------------------------
(***************************************************************************)
(* internal/repository/file_storage_repository.go: the in-memory maps and  *)
(* the file of JSON lines behind them. SaveBatch and Close hold r.mu, Save *)
(* does not, and all write through the same bufio.Writer: its checks,      *)
(* copies, writes and assignments are steps of their own, each of them     *)
(* atomic. SaveBatch also changes the maps without their mutex. bufio and  *)
(* the file are external; the lines of one call fit the buffer, lines are  *)
(* of one length, and one that is torn twice is not put together again.    *)
(***************************************************************************)
EXTENDS Integers, Sequences, Functions, MemoryStorage

CONSTANTS Calls,
          Work,      \* what each call asks: kind and URLs
          Shorts, Originals, Users,
          Cells,     \* bound: lines that fit the buffer
          NoUrl,     \* of bytes that are no line
          Nobody     \* holds the free mutex

\* A line holds every field of the URL.
Record == {Url(s, o, u, FALSE) : s \in Shorts, o \in Originals, u \in Users}

\* Close is a batch of nothing that ignores errors and ends the process.
ASSUME WorkAssumption ==
  \A c \in Calls : /\ Work[c].kind \in {"save", "batch", "close"}
                   /\ Work[c].urls \in Seq(Record)
                   /\ Work[c].kind = "save" => Len(Work[c].urls) = 1
                   /\ Work[c].kind = "close" => Work[c].urls = <<>>
\* generateID: a short is given to one original only.
ASSUME DistinctAssumption ==
  \A c, d \in Calls : \A i \in DOMAIN Work[c].urls, j \in DOMAIN Work[d].urls :
    Work[c].urls[i].short = Work[d].urls[j].short =>
      Work[c].urls[i].original = Work[d].urls[j].original
ASSUME BoundAssumption ==
  /\ Cells \in Nat /\ Nobody \notin Calls /\ NoUrl \notin Record
  /\ NotFound \notin Originals /\ IsDeleted \notin Originals

VARIABLES
  phase,    \* of the process: up or down
  mem,      \* the maps
  lost,     \* history: shorts whose entry in the maps was lost in a race
  file,     \* the lines of the file, and halves of lines
  buf,      \* the buffer of the writer, with what earlier lines left in it
  n,        \* number of lines buffered; b.n -= n of a failed Flush may make it negative
  werr,     \* the writer has failed and refuses everything
  lock,     \* the batch that holds r.mu
  at,       \* where each call is
  left,     \* its URLs that are not yet stored or encoded
  pos,      \* place of the line it adds to the buffer, or number of lines it writes
  status,   \* what each call returned
  mixed,    \* history: calls that used the writer at the same time as another
  behind    \* history: calls that began to use it behind bytes without a line end

writer == <<buf, n, werr>>
vars == <<phase, mem, lost, file, writer, lock, at, left, pos, status, mixed, behind>>

Line(url) == [url |-> url, part |-> "whole"]
\* Bytes without a line end: a line that is torn, or what no line was copied to.
Zero == [url |-> NoUrl, part |-> "first"]
Tear(line) == IF line.part = "whole" THEN [line EXCEPT !.part = "first"] ELSE Zero
Rest(line) == IF line = Zero THEN Zero ELSE [line EXCEPT !.part = "second"]

FreshBuffer == [i \in 1 .. Cells |-> Zero]

Init ==
  /\ phase = "up" /\ mem = EmptyStorage /\ lost = {} /\ file = <<>>
  /\ buf = FreshBuffer /\ n = 0 /\ werr = FALSE /\ lock = Nobody
  /\ at = [c \in Calls |-> "idle"]
  /\ left = [c \in Calls |-> Work[c].urls]
  /\ pos = [c \in Calls |-> 0]
  /\ status = [c \in Calls |-> "none"]
  /\ mixed = {} /\ behind = {}

-----------------------------------------------------------------------------
\* Past the check of the writer's error, and all that use the writer.
Checked == {"copy", "advance", "slice", "write", "reset", "failed", "torn"}
Writing == {"encode", "flush"} \cup Checked

Is(c, l) == phase = "up" /\ at[c] = l

\* Calls that share the writer with another one after c goes to l.
Mixed(c, l) ==
  LET others == {d \in Calls \ {c} : at[d] \in Writing}
  IN IF l \in Writing /\ others # {} THEN others \cup {c} ELSE {}

\* The line that the next one is written behind has no end.
Unended ==
  IF n \in 1 .. Cells THEN buf[n].part = "first"
  ELSE file # <<>> /\ file[Len(file)].part = "first"

GoTo(c, l) ==
  /\ at' = [at EXCEPT ![c] = l]
  /\ mixed' = mixed \cup Mixed(c, l)
  /\ behind' = IF at[c] \notin Writing /\ l \in Writing /\ Unended THEN behind \cup {c} ELSE behind
  /\ UNCHANGED <<status, lock>>

\* Mutant: the error paths of SaveBatch keep r.mu.
FinishLocked(c, s) ==
  /\ at' = [at EXCEPT ![c] = "done"]
  /\ status' = [status EXCEPT ![c] = s]
  /\ lock' = IF lock = c /\ s = "ok" THEN Nobody ELSE lock
  /\ UNCHANGED <<mixed, behind>>

\* The deferred Unlock of SaveBatch.
Finish(c, s) ==
  /\ at' = [at EXCEPT ![c] = "done"]
  /\ status' = [status EXCEPT ![c] = s]
  /\ lock' = IF lock = c THEN Nobody ELSE lock
  /\ UNCHANGED <<mixed, behind>>

\* An error ends a call; Close goes on.
Failed(c) == IF Work[c].kind = "close" THEN GoTo(c, "sync") ELSE Finish(c, "error")

-----------------------------------------------------------------------------
(* The maps *)

Current(c) == Head(left[c])
Cached(c) == SaveNoLock(mem, Current(c))

\* Saves that are inside storage.Save and hold storage.mu.
Saving == {d \in Calls : at[d] = "cache"}

CacheLock(c) ==
  /\ Is(c, "idle") /\ Work[c].kind = "save" /\ Saving = {}
  /\ GoTo(c, "cache")
  /\ UNCHANGED <<phase, mem, lost, file, writer, left, pos>>

SaveCache(c) ==
  /\ Is(c, "cache")
  /\ mem' = Cached(c) \/ (Current(c).short \in lost /\ mem' = mem)
  /\ GoTo(c, "encode")
  /\ UNCHANGED <<phase, lost, file, writer, left, pos>>

BatchLock(c) ==
  /\ Is(c, "idle") /\ Work[c].kind # "save" /\ lock = Nobody
  /\ at' = [at EXCEPT ![c] = "store"]
  /\ lock' = c
  /\ UNCHANGED <<phase, mem, lost, file, writer, left, pos, status, mixed, behind>>

\* SaveBatchNoLock, one URL at a time. Beside a Save either entry may be lost, if
\* the runtime does not see the race and end the process (Crash).
BatchStore(c) ==
  /\ Is(c, "store") /\ left[c] # <<>>
  /\ \E gone \in SUBSET {Current(d).short : d \in IF Saving = {} THEN {} ELSE Saving \cup {c}} :
       /\ lost' = lost \cup gone
       /\ mem' = IF Current(c).short \in gone THEN mem ELSE Cached(c)
  /\ left' = [left EXCEPT ![c] = Tail(@)]
  /\ UNCHANGED <<phase, file, writer, lock, at, pos, status, mixed, behind>>

\* Mutant: a batch goes on before all its URLs are in the maps.
BatchStoredEarly(c) ==
  /\ Is(c, "store")
  /\ left' = [left EXCEPT ![c] = Work[c].urls]
  /\ GoTo(c, IF Work[c].urls = <<>> THEN "flush" ELSE "encode")
  /\ UNCHANGED <<phase, mem, lost, file, writer, pos>>

BatchStored(c) ==
  /\ Is(c, "store") /\ left[c] = <<>>
  /\ left' = [left EXCEPT ![c] = Work[c].urls]
  /\ GoTo(c, IF Work[c].urls = <<>> THEN "flush" ELSE "encode")
  /\ UNCHANGED <<phase, mem, lost, file, writer, pos>>

\* The context is done: the maps and the buffer keep what they have got.
BatchStop(c) ==
  /\ at[c] \in {"store", "encode"} /\ phase = "up"
  /\ Work[c].kind = "batch" /\ left[c] # <<>>
  /\ Finish(c, "error")
  /\ UNCHANGED <<phase, mem, lost, file, writer, left, pos>>

-----------------------------------------------------------------------------
(* The writer *)

\* Encode and Flush return the error that the writer has kept. A call that is past
\* its check panics over a negative length, which the server recovers from.
WriterFailed(c) ==
  /\ phase = "up" /\ werr
  /\ at[c] \in {"encode", "flush"} \cup (IF n < 0 THEN {"copy", "slice"} ELSE {})
  /\ Failed(c)
  /\ UNCHANGED <<phase, mem, lost, file, writer, left, pos>>

EncodeCheck(c) ==
  /\ Is(c, "encode") /\ ~werr
  /\ GoTo(c, "copy")
  /\ UNCHANGED <<phase, mem, lost, file, writer, left, pos>>

\* The line is copied behind those in the buffer.
EncodeCopy(c) ==
  /\ Is(c, "copy") /\ n >= 0 /\ n < Cells
  /\ buf' = [buf EXCEPT ![n + 1] = Line(Current(c))]
  /\ pos' = [pos EXCEPT ![c] = n + 1]
  /\ GoTo(c, "advance")
  /\ UNCHANGED <<phase, mem, lost, file, n, werr, left>>

\* b.n is increased, from its value now or from the one that the copy read.
EncodeAdvance(c) ==
  /\ Is(c, "advance")
  /\ n' \in {m \in {n + 1, pos[c]} : m <= Cells}
  /\ left' = [left EXCEPT ![c] = Tail(@)]
  /\ pos' = [pos EXCEPT ![c] = 0]
  /\ GoTo(c, IF Tail(left[c]) = <<>> THEN "flush" ELSE "encode")
  /\ UNCHANGED <<phase, mem, lost, file, buf, werr>>

\* Mutant: the call ends without Flush.
FlushLeft(c) ==
  /\ Is(c, "flush") /\ ~werr
  /\ GoTo(c, "sync")
  /\ UNCHANGED <<phase, mem, lost, file, writer, left, pos>>

\* Mutant: Flush does not look at the error of an earlier write.
FlushAgain(c) ==
  /\ Is(c, "flush")
  /\ GoTo(c, IF n = 0 THEN "sync" ELSE "slice")
  /\ UNCHANGED <<phase, mem, lost, file, writer, left, pos>>

FlushCheck(c) ==
  /\ Is(c, "flush") /\ ~werr
  /\ GoTo(c, IF n = 0 THEN "sync" ELSE "slice")
  /\ UNCHANGED <<phase, mem, lost, file, writer, left, pos>>

FlushSlice(c) ==
  /\ Is(c, "slice") /\ n >= 0
  /\ pos' = [pos EXCEPT ![c] = n]
  /\ GoTo(c, "write")
  /\ UNCHANGED <<phase, mem, lost, file, writer, left>>

FlushWrite(c) ==
  /\ Is(c, "write")
  /\ file' = file \o SubSeq(buf, 1, pos[c])
  /\ GoTo(c, "reset")
  /\ UNCHANGED <<phase, mem, lost, writer, left, pos>>

\* The write stops early, between two lines or within one.
FlushFail(c) ==
  /\ Is(c, "write")
  /\ \E k \in 0 .. pos[c] - 1 :
       /\ pos' = [pos EXCEPT ![c] = k]
       /\ \/ GoTo(c, "failed") /\ file' = file \o SubSeq(buf, 1, k)
          \/ GoTo(c, "torn") /\ file' = file \o SubSeq(buf, 1, k) \o <<Tear(buf[k + 1])>>
  /\ UNCHANGED <<phase, mem, lost, writer, left>>

\* What has been written, as much as the call knows, is taken from the buffer as it
\* is now: half a line leaves its other half.
FlushError(c) ==
  LET k == pos[c] IN
  /\ werr' = TRUE
  /\ buf' = [i \in 1 .. Cells |-> IF i > n - k THEN buf[i]
                                  ELSE IF i = 1 /\ at[c] = "torn" THEN Rest(buf[k + 1])
                                  ELSE buf[i + k]]
  /\ n' = IF at[c] = "torn" /\ n <= k THEN n - k - 1 ELSE n - k
  /\ Failed(c)

FlushFailed(c) ==
  /\ phase = "up" /\ at[c] \in {"failed", "torn"}
  /\ FlushError(c)
  /\ pos' = [pos EXCEPT ![c] = 0]
  /\ UNCHANGED <<phase, mem, lost, file, left>>

\* Lines added since the slice was taken make the write a short one.
FlushReset(c) ==
  /\ Is(c, "reset")
  /\ \/ pos[c] < n /\ FlushError(c)
     \/ pos[c] >= n /\ n' = 0 /\ GoTo(c, "sync") /\ UNCHANGED <<buf, werr>>
  /\ pos' = [pos EXCEPT ![c] = 0]
  /\ UNCHANGED <<phase, mem, lost, file, left>>

Sync(c) ==
  /\ Is(c, "sync") /\ Work[c].kind # "close"
  /\ Finish(c, "ok") \/ Finish(c, "error")
  /\ UNCHANGED <<phase, mem, lost, file, writer, left, pos>>

-----------------------------------------------------------------------------
(* The process *)

Down ==
  /\ phase = "up" /\ phase' = "down"
  /\ mem' = EmptyStorage /\ lost' = {}
  /\ buf' = FreshBuffer /\ n' = 0 /\ werr' = FALSE
  /\ lock' = Nobody
  /\ at' = [c \in Calls |-> IF at[c] = "idle" THEN "idle" ELSE "done"]
  /\ pos' = [c \in Calls |-> 0]
  /\ UNCHANGED <<file, left, status, mixed, behind>>

Crash == Down

\* Close at the end of main, which flushes what a stopped batch has left in the buffer.
CloseFile(c) == at[c] = "sync" /\ Work[c].kind = "close" /\ Down

\* A line is read if it starts behind the end of another one, and as a whole if its
\* second half is right behind the first.
Starts(i) == i = 1 \/ file[i - 1].part # "first"
Readable(i) ==
  \/ file[i].part = "whole" /\ Starts(i)
  \/ /\ file[i].part = "second" /\ i > 1
     /\ file[i - 1] = Tear(Line(file[i].url)) /\ Starts(i - 1)

ReadableUrls == {file[i].url : i \in {j \in DOMAIN file : Readable(j)}}

\* The last of some lines.
LastOf(lines) == file[CHOOSE i \in lines : \A j \in lines : j <= i].url

\* loadFromFile: Save of one readable line after the other, so that each key of a map
\* is left with the last line that has it; bad lines are skipped.
Loaded ==
  LET good        == {i \in DOMAIN file : Readable(i)}
      short(s)    == {i \in good : file[i].url.short = s}
      original(o) == {i \in good : file[i].url.original = o}
      shorts      == {file[i].url.short : i \in good}
  IN  [orig    |-> [s \in shorts |-> LastOf(short(s)).original],
       short   |-> [o \in {file[i].url.original : i \in good} |-> LastOf(original(o)).short],
       user    |-> [s \in shorts |-> LastOf(short(s)).user],
       deleted |-> {s \in shorts : \E i \in short(s) : file[i].url.deleted}]

\* NewFileStorageRepository.
Start ==
  /\ phase = "down" /\ phase' = "up"
  /\ mem' = Loaded
  /\ UNCHANGED <<lost, file, writer, lock, at, left, pos, status, mixed, behind>>

CallNext(c) ==
  \/ CacheLock(c) \/ SaveCache(c) \/ BatchLock(c) \/ BatchStore(c) \/ BatchStored(c)
  \/ BatchStop(c) \/ WriterFailed(c) \/ EncodeCheck(c) \/ EncodeCopy(c) \/ EncodeAdvance(c)
  \/ FlushCheck(c) \/ FlushSlice(c) \/ FlushWrite(c) \/ FlushFail(c) \/ FlushFailed(c)
  \/ FlushReset(c) \/ Sync(c)

Next == (\E c \in Calls : CallNext(c) \/ CloseFile(c)) \/ Crash \/ Start

Spec == Init /\ [][Next]_vars

-----------------------------------------------------------------------------
(* Properties *)

Cell == [url : Record \cup {NoUrl}, part : {"whole", "first", "second"}]

\* Every variable keeps its type, and r.mu is held by a batch or Close under way.
TypeOK ==
  /\ phase \in {"up", "down"}
  /\ DOMAIN mem.orig \subseteq Shorts /\ DOMAIN mem.short \subseteq Originals
  /\ lost \subseteq Shorts
  /\ file \in Seq(Cell) /\ buf \in [1 .. Cells -> Cell]
  /\ n \in Int /\ n <= Cells /\ werr \in BOOLEAN
  /\ at \in [Calls -> {"idle", "cache", "store", "sync", "done"} \cup Writing]
  /\ left \in [Calls -> Seq(Record)] /\ pos \in [Calls -> 0 .. Cells]
  /\ status \in [Calls -> {"none", "ok", "error"}]
  /\ mixed \subseteq Calls /\ behind \subseteq Calls
  /\ \A c \in Calls : lock = c <=> Work[c].kind # "save" /\ at[c] \notin {"idle", "done"}

\* Every line that a start can read is in the maps, unless its entry was lost in the
\* race of SaveBatch with Save for them: they are filled before the file, also by calls
\* that fail, and by each start after a crash.
CacheCoversFile ==
  phase = "up" => \A url \in ReadableUrls :
    url.short \in lost \/ Find(mem, url.short) = url.original

\* Each line of a call that had the writer to itself and returned nil can be read by
\* every later start, whatever fails, crashes or races before or after the call, but for
\* its first line if the call began behind half a line: that one is lost though the call
\* returned nil, for nothing ends the half line that an earlier process left.
AloneIsWritten ==
  \A c \in Calls \ mixed : status[c] = "ok" =>
    \A i \in DOMAIN Work[c].urls :
      i > 1 \/ c \notin behind => Work[c].urls[i] \in ReadableUrls

\* Calls that have passed the check of the error in Flush, but not yet written.
Past == {c \in Calls : at[c] \in {"slice", "write"}}

\* Once the writer has failed, no call gets past the check until the process starts
\* again, and only one that was past it, sharing the writer with the one that failed,
\* may still append to what that one left: neither a later call nor Close.
FailureIsFinal ==
  [][werr => /\ Past' \subseteq Past
             /\ file' = file \/ \E c \in mixed \cap Past : at'[c] \notin {"slice", "write"}]_vars

\* Stated for Save: it saves the URL to the file.
SavedIsWritten ==
  \A c \in Calls : Work[c].kind = "save" /\ status[c] = "ok" =>
    \A i \in DOMAIN Work[c].urls : \E j \in DOMAIN file : file[j].url = Work[c].urls[i]
===============================================================================
