# Verification of go-shortener

TLA+ models of the URL shortener in `src/`, checked with TLC, and theorems about
them proved with TLAPS. The modules are translated from the Go code; comments and
documents are used only for what they promise.

## 1. The system

| component | code | state | operations |
|---|---|---|---|
| transport | `internal/handler/router.go`, `internal/grpc/server.go`, `internal/middleware` | none of its own; user id in the request's context | shorten (text, JSON, batch, gRPC), redirect, list, delete, ping, stats |
| shortening | `internal/service/service.go` 85-212, 470-487 | none of its own | `GetShort`, `Shorten`, `ShortenBatch`, `Resolve` |
| asynchronous deletion | `internal/service/service.go` 62-82, 240-468 | channel of 10, five workers, queue under a mutex, two shutdown flags | `DeleteUserURLs`, worker loop, flush every five seconds, `Shutdown` |
| repositories | `internal/repository` | four maps under a mutex; with them a table (PostgreSQL) or a file of JSON lines | `Save`, `SaveBatch`, `DeleteUserURLs`, `Find`, `GetShort`, loading at start |
| audit | `internal/audit` | queue of 1024, one goroutine, observers | `Notify`, `run`, `Close` |
| identity | `internal/auth`, `internal/middleware/auth.go`, interceptor in `internal/grpc/server.go` | the client's cookie or token | issue, sign and verify a user's identifier |
| audit middleware | `internal/middleware/audit.go` | action and URL of a response | `SetAuditData`, the event after the handler |
| configuration | `internal/config` | flags, environment, file | `New`, `Validate` |
| process | `cmd/shortener` | configuration, repository, two servers | start, signal, shutdown in stages of 30 s |
| reset generator | `cmd/reset` | `reset.gen.go` of each package | scan, emit, compare, replace the file |
| others | `internal/logger`, `internal/pool`, other middleware, `cmd/staticlint`, `cmd/testsuite`, `cmd/client` | none | logging, compression, subnet test, lint, test driver, client |

How they interact: a handler looks an original up and then saves it with separate
calls of the service, each of which is a critical section of the repository. A
deletion is answered once its request is in the channel; a worker moves it to the
queue and flushes the queue into the repository later, so deletions run between
any two steps of other requests. After the handler, the audit middleware puts an
event into the audit queue and may block there. At shutdown `main` stops the
servers, then `Shutdown` stops the workers, flushes the queue and closes the audit
service, and the deferred `Close` of the repository runs last.

What is hard here: the order of steps of handlers, workers and `Shutdown`
(select statements with several ready alternatives, a check and a send in two
steps); failing or partly failing repository calls and the retry of what failed;
check-then-act between lookup and save; two identities for one client; stages of the
shutdown that give up and leave handlers running; maps and table (or file) changed in
separate steps with a crash in between; a bounded channel and a bounded queue;
deadlines. `PROJECT.json` lists each such place under `hazards`, with the
properties aimed at it.

What makes each component correct:

* deletion: an accepted deletion is never lost or invented, reaches the repository
  if that recovers, and a `Shutdown` that returns nil has saved what it owes;
* shortening: what was answered resolves to its original or has been deleted;
  the two indexes agree; no second short for an original that was answered;
* identity and audit trail: a client finds its links in its list and nobody else
  deletes them; the trail says who made and followed which link;
* repositories: what was answered survives a crash; the maps never miss what is
  stored; a deletion of an answered link is durable and touches its user's links only;
* audit: every observer is offered every accepted event once and in order, and
  `Close` waits for that;
* process: the settings in use are the documented ones; a graceful exit has saved
  every accepted deletion and offered every accepted event; after the signal the
  process ends;
* reset generator: the generated code resets everything once and tests each pointer
  before it follows it; a file is never left half written.

## 2. Modules

| module | models | lines of code behind it |
|---|---|---|
| `DeletionContract` | what asynchronous deletion promises, with no channel, queue or worker | service.go |
| `DeletePipeline` | handlers in `DeleteUserURLs`, channel, workers, queue, flushes, `Shutdown` | service.go 62-82, 240-468 |
| `DeletePipelineProofs` | proofs about `DeletePipeline` | |
| `MemoryStorage` | the maps as a record and their operations as operators | in_memory_repository.go |
| `LinkStore` | what the shortener promises about its links, with no index, lock, transaction or cache | service.go, repository.go |
| `Shortening` | requests of every transport over the in-memory repository, with deletions between their steps | router.go, server.go, service.go, in_memory_repository.go |
| `ShorteningProofs` | proofs about `Shortening` and the operators of `MemoryStorage` | |
| `DatabaseRepository` | maps in front of the table `urls`, crashes and starts | database_repository.go |
| `DatabaseRepositoryProofs` | proofs about `DatabaseRepository` | |
| `FileRepository` | maps in front of the file, the shared buffered writer, crashes and starts | file_storage_repository.go |
| `FileRepositoryProofs` | proofs about `FileRepository` | |
| `AuditContract` | what the audit service promises, with no queue, goroutine or observer | audit/service.go |
| `AuditService` | requests in `Notify`, queue, `run`, observers, `Close` | internal/audit |
| `AuditServiceProofs` | proofs about `AuditService` | |
| `Configuration` | `config.New` as operators on the three sources, without variables | config.go |
| `Process` | start, servers, signal and stages of the shutdown, over both contracts | main.go, tls.go, service.go 438-467 |
| `ProcessProofs` | proofs about `Process` and `Configuration` | |
| `Access` | cookies, tokens, handlers and audit middleware over a store of links | middleware/auth.go, auth.go, server.go, middleware/audit.go, router.go |
| `AccessProofs` | proofs about `Access` | |
| `ResetGenerator` | runs of the generator and the statements it writes | cmd/reset/main.go |
| `ResetMethods` | what these statements do to a value when they run, with the properties about it | (Go's rules for methods) |
| `ResetGeneratorProofs` | proofs about `ResetGenerator` | |
| `MC...` | values of the constants for TLC | |

`MemoryStorage` has no variables: the four modules with a variable `mem` compose
it, each with its own atomicity. `DeletePipeline` implements `DeletionContract` and
`AuditService` implements `AuditContract` (`ImplementsContract` in each, an `INSTANCE`
whose variables are functions of the detailed ones). `Shortening` and `DatabaseRepository`
both implement `LinkStore` (`ImplementsStore`): one with the maps, the other with the rows of
the table as the links. `Access` implements it, too, which is only proved (`Refinement` of
`AccessProofs`), since no run has to repeat it. `Process` composes the two
contracts with the servers, so that its state space holds every behaviour of the
pipeline and of the audit service without their inner steps; it extends
`Configuration`.

Operators named as mutants in a comment are changed forms of the definition that
follows them. No specification uses them: each is there to show that a property
can be violated by a plausible mistake in that code.

### DeletePipeline

A call is identified with the request it sends, so the channel is a sequence of
calls. `CheckShutdown`, `CheckContext` and the three alternatives of the last
select (`Send`, `SendStopped`, `SendCanceled`) are the steps of a handler. A
worker is at its select, holds a received request, flushes a popped batch, drains
the channel after the stop signal, or has left. `FlushOk` and `FlushError` are one
call of the repository for one user of a batch; `FlushError` puts the share back
into the queue, as `flushDeleteQueueOnce` does. `Shutdown` sets the flag, closes
`stopWorkers`, waits for the workers, and flushes until the queue is empty or
its deadline passes (`GiveUp`). The lists of the queue are a relation of users
and shorts: marking is idempotent, so order and repeats do not matter.
Calls may be late: nothing in the service waits for handlers, and those that
outlive the 30 seconds of `httpServer.Shutdown` still run.

### Shortening

`Begin`, `Lookup`, `Refuse`, `CreateModel`, `Save` are the steps of a handler with
one original; a batch repeats `Lookup` and `CreateModel` for each distinct original and
then takes the mutex (`BatchLock`) and stores one URL at a time, until it is done
or its context is (`BatchFail`). Handlers differ in when they validate: the gRPC server
before the lookup, the others after it, a batch never (it only refuses empty
originals). `Cancel` makes later lookups answer that there is none, as `GetShort`
does for a context that is done. `Delete` is a flush of the pipeline.

### LinkStore

The links are records, and `told` the pairs of short and original that were answered. A step
adds links with new shorts and answers what is stored (`Add`, `Tell`), or deletes links of one
user. So a short leads to one original for good, and what was answered stays, at most
deleted by its user: `LinksKept` says so of every step, and is proved of both
implementations. In `Shortening` the maps by short are the links and the answers of all
requests are told; in `DatabaseRepository` the rows are the links, of a batch as well, and a call
has been told what it asked for when it returned nil. The file does not
implement it: a line may be lost although `Save` returned nil (run `file_race`).

### DatabaseRepository

`SaveCache` and `Insert` are the two steps of `Save`. A batch is a transaction
whose rows become visible at `BatchCommit`, while its URLs are in the maps at once;
it inserts no `user_id`. A deletion updates the rows it sees, commits and then marks the
maps. Every statement may fail; a commit or an INSERT may also fail after it took
effect. `Crash` keeps the committed rows only, `Start` loads them in any order, and
`StartRefused` is the scan of a NULL `user_id`.

### FileRepository

A line, or a half of one, is one cell of the buffer and of the file. `Save` runs without
`r.mu`, so every step in which `bufio.Writer` reads or writes its fields is an action:
the check of the kept error (`EncodeCheck`, `FlushCheck`; `WriterFailed` if there is one), the
copy of a line behind those in the buffer (`EncodeCopy`), the new length
(`EncodeAdvance`, computed from the length now or from the one that was read), the slice that is
written (`FlushSlice`), the write (`FlushWrite`, or `FlushFail` with some lines and
perhaps half of one), and what `Flush` does after it (`FlushFailed`, `FlushReset`): a failed write, and one
that was shorter than the buffer has become (`io.ErrShortWrite`), moves the
rest to the front, takes what was written from the length, and keeps the error
(`FlushError`). The length may become negative; the call that then slices panics.
A start reads a line if it begins behind the end of another one (`Readable`): what was written
behind half a line is lost, unless it is the other half. `Close` is a call of its own kind, which ignores
errors and ends the process.

The maps are changed by `storage.Save` under their mutex (`CacheLock`, `SaveCache`) and by
`SaveBatchNoLock` without it (`BatchStore`): beside each other, either entry may be lost. Such
shorts are in `lost`. The histories `mixed` and `behind` name the calls that shared the writer with
another one and those that began to use it behind half a line.

### AuditService

`Notify` is a select between the queue and `done`; `run` hands an event to one
observer after the other, drains the queue after the stop signal and leaves; `Close`
closes `done` once, waits for `run` and closes the observers one after the other. A
closed file observer answers `os.ErrClosed`.

### Configuration and Process

A source is a function from the fields it sets to values, and a value is one of
"default", "flag", "env", "file", the empty string and one that is refused.
`Applied`, `Parsed` and `WithFile` follow `applyFileConfig` and `env.Parse`;
`Documented` is the precedence the repository's README states. `Process` runs
`main`: `Configure`, `OpenRepository`, `Launch`, `NotifyContext`, and after
`Signal` the stages "http", "grpc", "service", "workers", "audit", "flushing",
"deferred", "closed". A stage of a server ends when its requests have ended
(`HttpDrained`, `GrpcDrained`) or with its deadline (`HttpTimeout`, `GrpcTimeout`);
handlers then go on, and over connections that are still open new requests come
to an abandoned HTTP server. `LaunchError` (a `Fatal` on a server's goroutine) and `Kill` may come
at any time. Once `main` has read the configuration and chosen the repository,
the sources are forgotten (`Forgotten`), since nothing reads them again.

### Access

`AuthNew`, `AuthKnown`, `AuthMalformed` and `Intercept` decide whom a request runs
as; a handler follows (`Create`, `Existing`, `Follow`, `Delete`, `List`), then for
HTTP the audit middleware (`Log`). `Receive` and `Lose` are what becomes of the answer:
a client that keeps cookies takes the new one when its answer arrives, in any
order. `Mark` is the deletion pipeline, `Restart` a new process over the same
links with the same key or another one. Storing a link is one step here: its halves are the
subject of `Shortening` and `DatabaseRepository`.

The repository is that of the database. A batch (`Shortens`) stores rows without a
`user_id`: they are in `unowned`, a list (`Listed`, `GetUserURLs`) leaves them out, and the next process
cannot start over them. The handler of batches leaves no action for the audit middleware
(`Action`). `Stop` is the beginning of `Shutdown`: from then on deletions are refused
(`DeleteRefused`), and `Notify` may refuse an event, which `Log` then drops, or accept it.

### ResetGenerator

A type expression is a record with a kind, and a source file a record with its
package, its types, the marked ones and those with a Reset. The recursion of
`emitResetForType` is a set of jobs, each of which emits guarded statements
(`EmitZero`, `EmitSlice`, `EmitClear`, `EmitPointer`, `EmitStruct`, `EmitResetCallOrZero`); the guards are the nil
tests and the type assertions of the generated code. `writeFileIfChanged` is
`Compare`, `CreateTemp`, `Write`, `Rename`; `IOError` and `Kill` stop it between any two, and in the scan.
What the code does is computed in `ResetMethods`: `Locations` are the parts of a value,
`ResetPaths` is Go's rule for promoted methods (a type's own `Reset`, else the only one at the least
number of embeddings at which there is any), and `Executed` and `Target` are the statements that
run and what they reset. Parts and promoted methods are recursive functions over the
depth, up to `MaxDepth`; a separate module keeps this apart from the generator, which does
none of it.

## 3. Runs

Passing runs:

| run | instance | what it shows |
|---|---|---|
| `delete_safety` | 3 calls by 2 users on overlapping shorts, 2 workers, channel of 1, any flush may fail, any deadline | `Conserved` (nothing accepted is lost, nothing else is marked), `ShutdownFlushed`, `QuietAfterShutdown`, and that the pipeline implements its contract |
| `delete_liveness` | 3 calls (one without a user), 1 worker, channel of 1, under `FairSpec` | no call stays in the send while the repository answers, though with errors only (`CallsAnswered`); `Shutdown` returns even when a worker is caught in a call for ever (`ShutdownReturns`); what was accepted is marked if the repository recovers (`AcceptedIsMarked`) |
| `audit` | 3 events, queue of 1, a file and a remote observer, 2 closers, under `FairSpec` | order and completeness per observer, `Close` flushes and no closed file is called, nobody waits for ever, the service implements its contract |
| `shortening` | 3 requests from 6 inputs (all kinds, repeats in a batch, an invalid original), 2 originals, 2 users, 3 identifiers | `IndexesAgree`, `NoLateDuplicate`, and that the requests implement the store of links (`ImplementsStore`) |
| `database` | 2 saves of one original, a batch of 2, 2 deletions by different users, any statement may fail, any number of crashes | `SavedIsStored`, `CacheCoversTable`, `DeletedDurably` (with: no other user's row is touched), and that the table implements the store of links |
| `file` | a save, a batch of 2 and `Close` through one writer, failing and short writes, stopped batches, crashes and starts | `CacheCoversFile`, `AloneIsWritten` (each line can be read by every later start), `FailureIsFinal` (behind a failed write only a call that raced with it still appends) |
| `process` | 2 deletions, an audited request, a gRPC call; each field set in every way by flag, environment and file, the two fields of the repository set together, two files; under `FairSpec` | `SettingsAsDocumented`, `GracefulExit`, `ClosedUnused`, `ShutdownEnds` |
| `access` | 2 clients with no cookie or a broken one, 3 requests of any kind, batches included, 2 originals, one link, 2 keys, a shutdown | `LinksStayListed`, `OnlyCreatorDeletes`, `AuditTrail`, `IdentityKept` |
| `reset` | 2 runs over 9 source trees in 2 directories, errors and kills at every step | `FilesReset`, `EndlessIffSelfReferring`, and in `TypeOK` that no file is left half written, that every statement tests the pointers on the way to its place, and that none is for the same place as another |

Runs that show where the code does something else than its comments say (each is
a finding in `PROJECT.json`):

| run | promise | what happens |
|---|---|---|
| `shortening_twice` | a batch does not create duplicates (service.go:163) | two requests look the original up before either saves it |
| `database_start` | a start loads the URLs of the table (database_repository.go:23) | a batch stored rows with NULL `user_id`, which the scan refuses; such rows are also missing from the user's list |
| `file_race` | `Save` saves the URL to the file (file_storage_repository.go:63) | two saves race for the buffered writer and one line is lost although both calls return nil |

Other departures, which the models show and no run states:

* `Shutdown` is said to wait until accepted deletions are saved (service.go:427): a
  call that passed the check of the flag may win the send after the workers have left.
  `Conserved` then keeps its request in the channel for good. In `Process` only
  requests that outlived the deadline of the HTTP server can be hit (`GracefulExit`).
* `Notify` accepts an event after `done` is closed (audit/service.go:42), because the
  select takes any alternative that is ready; it is never offered. The same limit holds.
* A deletion that runs between the two steps of the database's `Save` finds no row;
  the row is then inserted live and a restart brings the link back. `DeletedDurably`
  speaks of links that had been answered.
* The comment of the database `SaveBatch` (69-70) calls the update of table and maps
  atomic, but a rolled back batch leaves its first URLs in the maps (`BatchRollback`).
* A variable of the environment that is set to nothing hides the file (`Shadowed`),
  and the default is used.
* The file's repository promises one record per line (file_storage_repository.go:28), but
  opens the file for appending behind whatever the last process left: behind half a line, the
  first line of the next call is lost to every later load, although the call returned nil.
  `AloneIsWritten` leaves out these lines and no others.
* `SaveBatch` of the file changes the maps without their mutex (101): beside a `Save`, an entry may be
  lost, or the runtime ends the process. `CacheCoversFile` leaves out what is in `lost`.
* `GetUserURLs` is to list all links of a user (database_repository.go:144), but `SaveBatch`
  (87) stores none with its user: what a batch made is in nobody's list. `LinksStayListed`
  leaves batches out.
* The audit trail knows nothing of batches: their handler (router.go:189-267) never calls
  `SetAuditData`. During a shutdown `Notify` may refuse the event of a request whose client is
  answered all the same. `AuditTrail` leaves both out.
* A promoted `Reset` is called whether or not the embedded pointers on the way to it are nil
  (cmd/reset/main.go:278), and a call that leads through one panics; a generated `Reset` that
  has the nil pointer itself as its receiver returns at once. `FilesReset` says nothing of values in which such a
  pointer is nil (`NilOnTheWay`).
* A marked type that refers to itself, as a list does, sends the generator into an
  endless recursion, although it has a Reset to call (`EndlessIffSelfReferring`).

### Bounds and why they are enough

* Three calls and two workers: a worker holding a popped batch, another one draining and a
  third party (handler or `Shutdown`) between them is the largest constellation
  the code distinguishes; the proofs of section 4 remove the bound.
* A channel (queue) of one place is full after one send, so blocking, release by room
  and release by the stop signal all happen; the code only tells full from not full.
* Liveness uses one worker: with one, a blocked send depends on that very worker.
* Three requests and three identifiers let two requests race for one original while a
  third one reads; `MaxIds` bounds `CreateModel`, after which requests only read.
* `Deletions` names a link of one's own, one of another user and identifiers that are
  issued only later.
* In `database` each call runs once, but crashes, starts and repeats of failed
  deletions are unbounded. The run ends in a process that cannot start once a
  batch has been committed and the process has crashed, so `CHECK_DEADLOCK` is off
  in the database runs. It is off in `reset`, too: the generator ends with its last run.
* `Cells` of `FileRepository` is more than the number of lines of all calls, so that no call is
  kept waiting by it; a step that would need one line more is not taken. A save, a batch and
  `Close` have every pair of kinds of calls in the writer but two saves and two batches: the former
  are in `file_race`, the latter exclude each other by `r.mu`. The proofs have no bound on calls.
* `MCSources` of `Process` has about a thousand configurations: the code treats each
  field on its own (each is set in every way by every source), except for the two that choose
  the repository and the two that name the file, which are set together.
* In `access` three requests are enough for two that race for an identity and a third one
  that meets the outcome, or for making, deleting and following a link. `MaxKey`
  is 2: a third key differs from the second as the second from the first.
  `MaxUsers` and `MaxIds` bound `AuthNew` and `Create`; requests with an identity go
  on when they are reached. Each property speaks of one link at a time, so that one link is enough; the proofs have any number.
  A process that has ended over the rows of a batch cannot start again, so that `CHECK_DEADLOCK` is off.
* `MaxDepth` of `ResetGenerator` stands for the stack. `DepthAssumption` asks that it is not less than the number
  of the struct and pointer types written in the sources, so that only an endless
  recursion passes it; a real stack is far deeper. Two runs show a file that is
  kept, replaced, or left by a run that failed.

### Fairness

* A goroutine that can take a step takes it (weak fairness per goroutine).
* A select takes an alternative that is ready again and again (strong fairness): Go
  picks at random among those that are ready, and a blocked sender waits in the queue of its
  channel.
* An observer call returns, with or without an error: the HTTP client of the remote
  observer has a timeout.
* A repository call runs under `context.Background()` in a flush and nothing cuts it off. That
  the calls of `Shutdown` itself return is an assumption (`Progress`); that those of
  the workers do is a premise (`Answers`) of `AcceptedIsMarked` and
  `CallsAnswered` only.
* The deadline of `Shutdown` passes.
* Nobody has to call anything: no fairness on the first step of a handler, on
  `BeginShutdown` or on `BeginClose`.
* `Recovery` (a repository asked again and again for one user succeeds in the end) is no part
  of the specification. It is the premise of `AcceptedIsMarked` alone.
* In `Process`, the main goroutine goes on and deadlines pass (`StageNext`), and the audit
  service offers what it took (`Offer`). Handlers may hang, the repository may never
  mark anything, and no signal has to come.

## 4. Proofs

Each theorem holds for every value of the constants that meets the assumptions.

**`DeletePipelineProofs`** assumes `ActorsAssumption` (there is a worker, and names are
distinct), `RequestAssumption` (each call has a user or none and names at least one
short) and `CapAssumption`:

| theorem | statement |
|---|---|
| `TypeSafe` | `Spec => []TypeOK` |
| `Conservation` | `Spec => []Conserved` |
| `ShutdownFlushedSafe` | `Spec => []ShutdownFlushed` |
| `Quiet` | `Spec => QuietAfterShutdown` |
| `Refinement` | `Spec => ImplementsContract` |

The argument:

1. `TypeInv` strengthens `TypeOK` by what the labels mean: the channel and the workers'
   hands hold accepted calls only, and a goroutine holds a batch only while it flushes.
2. `Conserved` says that what is marked or pending is exactly what was accepted. It is
   inductive given `TypeInv`: lemma `FlowNext` shows for every step that nothing leaves
   the pipeline but by being marked.
3. `StopInv` gives the order of the shutdown: workers leave only after the stop signal, and past
   the wait for them none is left. `OwedInv` says that once some worker has left, what was
   accepted before the stop signal has been taken out of the channel: it is marked, in the
   queue, in a batch or in another worker's hand. This is why `ShutdownFlushed` alone is not inductive: it
   speaks of the last state only, and the debt must be followed from the stop signal on.
4. The step lemma of the refinement takes each action to a step of `DeletionContract` or to a
   stutter, using the conjunction `IInv` of all of the above.

**`AuditServiceProofs`** assumes `EventAssumption` (the mark for "no event" is none),
`ObserverAssumption` (a number of observers, some of them files) and `QueueAssumption`
(the queue holds one event at least):

| theorem | statement |
|---|---|
| `TypeCorrect`, `TypeSafe` | `Spec => []TypeInv`, `Spec => []TypeOK` |
| `OrderSafe` | `Spec => []OfferedInOrder` |
| `CloseFlushesSafe` | `Spec => []CloseFlushes` |
| `Refinement` | `NumObservers # 0 => (Spec => ImplementsContract)` |

1. `TypeInv` adds to `TypeOK` that `run` holds an event exactly while it delivers one.
2. `OfferedInOrder` is inductive given `TypeInv`: an event moves from the queue into the
   hand of `run`, and from there to one observer after the other, and the concatenation stays
   what was accepted.
3. `StopInv` orders the stop: `run` drains only after the signal, and an observer is closed only
   after `run` has left. `OwedInv` says that what was accepted before the signal stays
   the head of what was accepted and, once `run` has left, of what each observer was
   offered. `run` leaves only when it finds the queue empty, so `OfferedInOrder` makes that step.
4. For the refinement `QueuedInv` ties `accepted` to what each call of `Notify` returned. A
   step of `run` is a step of the contract when the last observer is offered its event, and
   a stutter otherwise. With no observer every event would count as offered before it was
   accepted, which the contract forbids: the theorem leaves this case out.

**`ProcessProofs`** assumes `RequestAssumption` (deletions, audited requests and gRPC calls
are different things, and what each deletion asks for) and `SourceAssumption` (the flags,
the environment and the file set only fields that exist):

| theorem | statement |
|---|---|
| `TypeSafe` | `Spec => []TypeOK` |
| `SettingsSafe` | `Spec => []SettingsAsDocumented`, for any sources |
| `GracefulExitSafe` | `Spec => []GracefulExit` |
| `ClosedUnusedSafe` | `Spec => []ClosedUnused` |

1. `ServerInv`: a server that was drained has no request left, and gets none. That it gets
   none needs `Settled` (no step changes a server that was drained or given up), and this
   needs the stage at which each server is settled.
2. `StopInv`: the service and the audit service are stopped only behind an HTTP server that
   is settled. If it is drained, no handler can add to what was accepted when they
   stopped, so that what is owed stays all that was accepted. This is the strengthening `GracefulExit`
   needs: it speaks of the end, and the contracts speak only of what was accepted before the stop.
3. `EndInv`: a shutdown without error reaches the deferred calls only through `Close` of the audit service.
4. `SettingsSafe` rests on `ConfigByField`, which computes the value of every field from
   the three sources and compares it with the documented precedence.

`Process` uses the contracts that `DeletePipeline` and `AuditService` (with an
observer) are proved to implement, so what `GracefulExitSafe` says of the contracts
applies to the two components as well.

**`ShorteningProofs`** assumes `InputAssumption` (a request has originals, one unless it is
a batch) and `ValueAssumption` (names are distinct). The number of requests, originals,
deletions and identifiers is free:

| theorem | statement |
|---|---|
| `TypeSafe` | `Spec => []TypeOK` |
| `IndexesAgreeSafe`, `AnswersResolveSafe` | `Spec => []IndexesAgree`, `Spec => []AnswersResolve` |
| `NoSecondShort` | `Spec => NoLateDuplicate` |
| `Refinement` | `Spec => ImplementsStore` |
| `LinksKept` | `Spec => [][Contract!LinksKept]_vars`: each link stays the only one of its short, with its original and user, and deleted if it was |

1. Lemmas `Stored`, `Marked` and `Chosen` say once what the operators on the maps do. Lemma
   `Steps` names the few actions that change the maps or what a request holds.
2. `NameInv`: an identifier stands for one original, in the maps and in the hands of all
   requests, and none is ahead of the generator. `AnswersResolve` is not inductive because two requests
   may each have chosen a short for one original and store it later, one over the other in
   the index by original: only the index by short must never change, and that
   is what `NameInv` gives.
3. `IndexInv`: both indexes are filled together, so an original that was stored is found.
4. `HandInv` and `PlaceInv`: what a request has chosen is stored or still to be stored, and an
   answer leaves nothing to store.
5. `NoSecondShort` follows: an answered original is stored (4), hence found (2, 3), and the
   lookup creates a model only for what it does not find.
6. For the refinement `FreshInv` says that what requests still have to store is new: not in the
   maps, and in nobody else's hand. So a save adds a link and never changes one that is stored
   or deleted. A save is an `Add`, a flush a `Delete` of the contract, and every other step
   at most a `Tell` (lemmas `StoreAdds`, `DeleteMaps`, `ToldLeads`). The run checks
   `AnswersResolve` in this stronger form.
7. `LinksKept` follows from 6 and from shorts being keys of the maps (`OneLink`): an `Add` cannot
   bring a second link for a short, and a `Delete` changes nothing but the mark.

**`DatabaseRepositoryProofs`** assumes `WorkAssumption` (what a call asks has its type),
`DistinctAssumption` (the shorts of all calls are distinct, which is what `generateID` is
taken to give) and `NamesAssumption`. The number of calls, failures and crashes is free:

| theorem | statement |
|---|---|
| `TypeSafe` | `Spec => []TypeOK` |
| `SavedIsStoredSafe`, `CacheCoversTableSafe` | `Spec => []SavedIsStored`, `Spec => []CacheCoversTable` |
| `DeletedDurablySafe` | `Spec => []DeletedDurably` |
| `Refinement` | `Spec => ImplementsStore` |
| `RowsKept` | `Spec => [][Contract!LinksKept]_vars`: the same of the rows, through failures, crashes and starts |
| `AnsweredIsFoundSafe` | `Spec => []AnsweredIsFound`: a process that runs finds every short that was answered, at its original or as deleted |

1. `LeftInv` and `TxInv` follow a batch: what is left of it is the end of its URLs, and its
   transaction holds the part before.
2. `RowInv`: each row was inserted by one call, which has ended. With
   `DistinctAssumption` a row that is about to be inserted is new (lemma `NewRows`).
3. `CacheInv` strengthens `CacheCoversTable`: the maps know every row and also every URL whose
   row is on its way, so that it is covered when the statement succeeds.
4. `DebtInv` strengthens `DeletedDurably`: what a deletion owes has rows of its user when its
   `UPDATE` runs, they are in its transaction until the commit, marked in the table after it,
   and marked in the maps once it has returned or the process has started again.
5. For the refinement `SentInv` turns `TxInv` round: at its commit a batch has the rows of all its
   URLs. `ToldInv` follows answers from there through failures and crashes (`RowsStay`), and the
   steps of the table (`TableSteps`) are those of the contract.
6. `RowsKept` needs besides that a short has one row, before and after the step (`TypeOK`).
   `AnsweredIsFoundSafe` joins 3 and 5: what was told has its row, and the maps know every row,
   also after a start that read them in some order.

**`FileRepositoryProofs`** assumes `WorkAssumption` (a call saves URLs, one unless it is a
batch), `DistinctAssumption` (a short is given to one original, which is what `generateID` is taken to
give) and `BoundAssumption` (a number of lines, and names that are distinct). The number of
calls, races, failed writes and crashes is free:

| theorem | statement |
|---|---|
| `TypeSafe` | `Spec => []TypeOK` |
| `CacheCoversFileSafe`, `AloneIsWrittenSafe` | `Spec => []CacheCoversFile`, `Spec => []AloneIsWritten` |
| `FailureIsFinalSafe` | `Spec => FailureIsFinal` |

1. `ControlInv`, `WriterInv`, `MemInv` and `LeftInv`: where a call can be, that a batch under way holds
   `r.mu`, what the buffer and the maps can hold, and that what is left of a call is the end of its URLs.
2. `AloneInv` is what `AloneIsWritten` needs to be inductive. While a call has the writer to
   itself, its URLs so far can be read, or will be behind the write: each is a whole line in the buffer below `n`
   behind the end of another one (`Placed`), the line it is adding stands right behind them, and what
   `Flush` writes is all of the buffer. Only its first line may stand behind half a line, if the call is
   in `behind`. What can be read once stays so, since the file only grows (`StillRead`), and a write makes all that
   is placed readable (`Flushed`). As soon as another call uses the writer too, both
   are in `mixed` and nothing more is claimed of them.
3. `CacheInv` strengthens `CacheCoversFile`: the maps know, but for what is in `lost`, the lines of the file that can be read, every
   line and half line in the buffer, also those above `n` which a race may write, and what each writing
   call still has to write.
4. A start is the hard step of `CacheInv`, since it forgets the maps. `Loaded` gives each short the
   last line that has it (lemma `Greatest`: there is a last one), and by `DistinctAssumption` every
   other line with this short has the same original.
5. `FailedInv`, for `FailureIsFinalSafe`: when the writer has failed, every call that is past a check of it is in
   `mixed`, since it used the writer together with the one whose write failed. No call gets
   past the check with the error set, and only a write changes the file (`FileSteps`).

**`AccessProofs`** assumes `BoundAssumption` (numbers of identities, links and keys) and
`ValueAssumption` (names are distinct). The number of clients, requests and restarts is free:

| theorem | statement |
|---|---|
| `TypeSafe` | `Spec => []TypeOK` |
| `LinksStayListedSafe`, `OnlyCreatorDeletesSafe` | `Spec => []LinksStayListed`, `Spec => []OnlyCreatorDeletes` |
| `AuditTrailSafe` | `Spec => []AuditTrail` |
| `IdentityKeptSafe` | `Spec => IdentityKept` |
| `Refinement` | `Spec => Contract!Spec`, where `Contract` is `LinkStore` with what clients have learned as told |

1. `HolderInv`, for `OnlyCreatorDeletes`: a client holds an identity by its jar, by a request that runs
   under it, or by a link made under it, and no identity is held by two clients. A deletion
   waits under an identity that only the client which asked can hold; so the links it
   finds when it runs, long after the request and perhaps after a restart, are that client's.
2. `OneIdentity`, for `LinksStayListed`: a client that is not in `raced` has one identity at
   most, which is in its jar or in the cookie of one answer on its way, and all its other
   requests run under the one in its jar.
3. `AnsweredInv`: what a client was told under the present key belongs to the identity in
   its jar, and has a row with that user unless a batch made it (`StoreInv`). Its step for an answer that arrives uses 2. That
   the list shows nothing of others follows from 1: the maker of a link holds the identity it was made under.
4. `AnswerInv` says of answers on their way what `AnsweredInv` says of those that arrived; `EventInv`
   and the two together give `AuditTrail`. An answer that arrives during a shutdown is noted as such,
   and `stopping` only ends with a new process, before which all open requests are dropped.
5. For the refinement a `Create` is an `Add` (`CreateAdds`), `Mark` a `Delete` of the identity it runs
   under (`MarkDeletes`), and an answer that arrives a `Tell` (`LearnedLeads`, `LearnedStays`);
   everything else, starts and new keys included, is a stutter.

**`ResetGeneratorProofs`** assumes `ExprAssumption` (parts of type expressions are type expressions, and
fields of a struct have names of their own), `SourceAssumption` (trees and files are finite, and a
package declares each marked type once, as a struct), `DepthAssumption` (the stack is at least as deep as there are struct and
pointer types in the sources) and `BoundAssumption`. Trees, types and number of runs are free:

| theorem | statement |
|---|---|
| `TypeSafe` | `Spec => []TypeOK`: every file is whole, its statements test the pointers on the way to their places, and none is for the place of another |
| `FilesAreReset` | `Spec => []FilesReset`: after a successful run each file resets everything and follows no nil pointer, for every choice of nil pointers that leaves the way to promoted Resets open |
| `EndsUnlessSelfReferring` | `Spec => []EndlessIffSelfReferring` |
| `Ordered` | `Spec => []OrderInv`: packages come in order, and of a directory the last one keeps the file |

1. Lemma `ResolveType`: following names leads to a type expression. It is an induction on the number of
   names followed, and is made with the least counterexample (`Least`, from the library's
   `WFMin`), since its induction theorems cannot be used. `Climb`, `Agree` and `Chain` carry the same
   argument over to the other functions on a range of numbers: the parts of a value
   (`LocatedIn`) and the promoted methods (`Paths`: there is at most one way to a Reset, whatever the number of embeddings, and only through a struct).
2. `WorkInv` is the inductive part of `TypeOK`. The jobs still to be done are at places apart from one another;
   what has been emitted is apart from each of them, or is a call of a Reset that the job yields
   to; and of two statements emitted for one type the same holds.
3. Lemma `EmitStep` shows once that replacing a job by statements and jobs within its place keeps
   `WorkInv`; each kind of type is then an instance of it. That the fields of a struct are apart
   comes from their names (`Fields`), that a pointer's target is guarded from the nil test (`PointerStep`).
4. `DiskInv`: only `Rename` changes a file, and what it puts there is complete.
5. `Traced` is what `FilesReset` needs on top, since `WorkInv` allows that a place is forgotten: every job
   and statement is that of a place of the value (`Context`, `Statements`), and every place has its
   statements, has a job, or lies below one that has. A step that handles a place hands
   it on to the places inside (`TraceStep`); with no job left, the code is exactly the
   statements of all places.
6. `OrderInv`: a package that has been generated and is the last one of its directory so far is on disk with
   this code, while `pkg` comes before all that are left. At the end these are the files
   `FilesReset` speaks of.
7. `AllReset` reads off what the code does when it runs. A statement is executed where its
   pointers are not nil and no struct above has a Reset; so each place is reset by its own
   statement, by the call of a struct above it, or is passed over by a promoted one (`OwnReset`), and by one
   of them only (`OneStatement`). A nil pointer on the way to what a call resets is on the way to the
   place of the statement, where it is tested, or behind it, which `NilOnTheWay` excludes.
8. For the recursion, a type that refers to itself has parts at every depth (`Endless`), so that a job
   gets past `MaxDepth` before the package is done. A job that is past it has more
   struct and pointer types above it than there are, so two of them are the same (`Deep`, by the pigeonhole
   principle): the type refers to itself.

Only model-checked: the liveness properties (`AcceptedIsMarked`, `CallsAnswered`, `ShutdownReturns`,
`AcceptedIsOffered`, `CallsReturn`, `ShutdownEnds`), since fairness and `ENABLED` are outside the
prover. Every other property of the passing runs is a theorem. The three runs that expect a
violation state what the code does not do and have no theorem. `LinksKept`, `AnsweredIsFound`,
`OrderInv` and the refinement of `Access` are only proved.

## 5. Not modelled

* Reading of headers, bodies and JSON, log lines, status texts: no property is about them.
* `Ping`, `GetStats` and `ExpandURL` only read and no property needs them; the lists and
  `Resolve` appear in `Access` and as the operator `Find`.
* Collisions of identifiers: `generateID` draws 48 random bits, and nothing checks whether the
  result is taken; the models take it as fresh.
* HMAC: another key, or another identifier, gives another signature.
* Length of lines and originals (the scanner's limit of 64 KB, the column's 255
  characters, the buffer's 4096 bytes): a statement or a write simply may fail.
* Loss of power: a crash ends the process, and what it has written stays.
* Compression, request logging and the test of the client's subnet: sequential code with no
  state between requests.
* How a certificate is made, what makes an address or a subnet well formed: one bad value
  stands for all.
* Parsing and formatting in `cmd/reset`, and the text of what it writes.
* Generated code (protobuf), mocks, `cmd/staticlint`, `cmd/testsuite`, `cmd/client`,
  the logger's constructor, and `internal/pool`, a typed wrapper of `sync.Pool` that nothing uses.

## 6. Plan

Nothing of the plan is left. What would extend the project is outside its tools or its subject: proofs of
the liveness properties, for which the prover would have to handle fairness and `ENABLED`, and
identifiers that collide, for which the code would have to promise something first.
