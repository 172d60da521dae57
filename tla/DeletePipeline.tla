---------------------------- MODULE DeletePipeline ----------------------------
(***************************************************************************)
(* The asynchronous deletion of internal/service/service.go: the handlers  *)
(* that call DeleteUserURLs, the buffered channel deleteUserURLs, the      *)
(* goroutines running deleteWorker, the mutex-guarded deleteQueue with its *)
(* periodic flush into the repository, and Shutdown.                       *)
(*                                                                         *)
(* A call c is identified with the request it sends, so the channel holds  *)
(* calls. deleteQueue.Items (user -> list of shorts) is the relation of    *)
(* its pairs: marking is idempotent, so neither the order nor the repeats  *)
(* of a list matter to what is deleted.                                    *)
(***************************************************************************)
EXTENDS Naturals, Sequences, Functions

CONSTANTS Callers,    \* calls of DeleteUserURLs, each on its own goroutine
          Workers,    \* goroutines running deleteWorker
          Main,       \* the goroutine running Shutdown
          Users, Shorts,
          ReqUser,    \* the user in the context of each call, or NoUser
          ReqShorts,  \* the short identifiers each call wants deleted
          NoUser,
          Nobody,     \* a worker's hand that holds no request
          ChanCap     \* capacity of the channel deleteUserURLs

ASSUME ActorsAssumption ==
  /\ Workers # {} /\ Main \notin Workers
  /\ Nobody \notin Callers
ASSUME RequestAssumption ==
  /\ NoUser \notin Users
  /\ ReqUser \in [Callers -> Users \cup {NoUser}]
  \* the HTTP handler answers 400 to an empty list
  /\ ReqShorts \in [Callers -> (SUBSET Shorts) \ {{}}]
ASSUME CapAssumption == ChanCap \in Nat \ {0}

VARIABLES
  call,            \* where each call of DeleteUserURLs is, or its result
  deleteUserURLs,  \* the channel
  isShuttingDown, stopWorkers,
  work,            \* where each worker is
  hand,            \* the request a worker received and has not queued yet
  deleteQueue,     \* deleteQueue.Items as a set of pairs
  batch,           \* what a flusher popped and has not passed to the repository
  main,            \* where Shutdown is, or its result
  deadline,        \* TRUE once the context of Shutdown has expired
  marked,          \* pairs a call of repo.DeleteUserURLs has stored
  owed             \* history: pairs accepted when stopWorkers was closed

calls   == <<call>>
chan    == <<deleteUserURLs>>
flags   == <<isShuttingDown, stopWorkers>>
workers == <<work, hand>>
queue   == <<deleteQueue, batch>>
stop    == <<main, deadline, owed>>
vars    == <<call, deleteUserURLs, isShuttingDown, stopWorkers, work, hand,
             deleteQueue, batch, main, deadline, marked, owed>>

Flushers == Workers \cup {Main}
Pairs    == Users \X Shorts

\* What call c asks to delete.
Asked(c) == {ReqUser[c]} \X ReqShorts[c]

Results  == {"accepted", "shuttingDown", "canceled", "noUser"}
Accepted == {c \in Callers : call[c] = "accepted"}

AcceptedPairs == UNION {Asked(c) : c \in Accepted}

Init ==
  /\ call = [c \in Callers |-> "start"]
  /\ deleteUserURLs = <<>>
  /\ isShuttingDown = FALSE /\ stopWorkers = FALSE
  /\ work = [w \in Workers |-> "select"]
  /\ hand = [w \in Workers |-> Nobody]
  /\ deleteQueue = {}
  /\ batch = [f \in Flushers |-> {}]
  /\ main = "serving" /\ deadline = FALSE
  /\ marked = {} /\ owed = {}

-----------------------------------------------------------------------------
(* DeleteUserURLs, on the goroutine of call c *)

Goto(c, l) == call' = [call EXCEPT ![c] = l]

CheckShutdown(c) ==
  /\ call[c] = "start"
  /\ Goto(c, IF isShuttingDown THEN "shuttingDown" ELSE "checked")
  /\ UNCHANGED <<chan, flags, workers, queue, stop, marked>>

\* The context of the request may be done by now; it then stays done.
CheckContext(c) ==
  /\ call[c] = "checked"
  /\ \/ Goto(c, "canceled")
     \/ ReqUser[c] = NoUser /\ Goto(c, "noUser")
     \/ ReqUser[c] # NoUser /\ Goto(c, "sending")
  /\ UNCHANGED <<chan, flags, workers, queue, stop, marked>>

\* The last select: any alternative that is ready may be taken.
SendCanceled(c) ==
  /\ call[c] = "sending"
  /\ Goto(c, "canceled")
  /\ UNCHANGED <<chan, flags, workers, queue, stop, marked>>

\* Mutant: the select does not listen to stopWorkers.
SendWithoutStop(c) ==
  /\ call[c] = "sending" /\ FALSE
  /\ UNCHANGED vars

SendStopped(c) ==
  /\ call[c] = "sending"
  /\ stopWorkers
  /\ Goto(c, "shuttingDown")
  /\ UNCHANGED <<chan, flags, workers, queue, stop, marked>>

\* Mutant: the send does not wait for room.
SendUnbounded(c) ==
  /\ call[c] = "sending"
  /\ deleteUserURLs' = Append(deleteUserURLs, c)
  /\ Goto(c, "accepted")
  /\ UNCHANGED <<flags, workers, queue, stop, marked>>

Send(c) ==
  /\ call[c] = "sending"
  /\ Len(deleteUserURLs) < ChanCap
  /\ deleteUserURLs' = Append(deleteUserURLs, c)
  /\ Goto(c, "accepted")
  /\ UNCHANGED <<flags, workers, queue, stop, marked>>

-----------------------------------------------------------------------------
(* deleteWorker, on the goroutine of worker w *)

Receive(w, from, to) ==
  /\ work[w] = from
  /\ deleteUserURLs # <<>>
  /\ hand' = [hand EXCEPT ![w] = Head(deleteUserURLs)]
  /\ deleteUserURLs' = Tail(deleteUserURLs)
  /\ work' = [work EXCEPT ![w] = to]
  /\ UNCHANGED <<calls, flags, queue, stop, marked>>

\* enqueueDelete, under the lock of deleteQueue.
Enqueue(w, from, to) ==
  /\ work[w] = from
  /\ deleteQueue' = deleteQueue \cup Asked(hand[w])
  /\ hand' = [hand EXCEPT ![w] = Nobody]
  /\ work' = [work EXCEPT ![w] = to]
  /\ UNCHANGED <<calls, chan, flags, batch, stop, marked>>

\* popDeleteBatch, under the lock of deleteQueue.
PopDeleteBatch(f) ==
  /\ batch' = [batch EXCEPT ![f] = deleteQueue]
  /\ deleteQueue' = {}

WorkerReceive(w) == Receive(w, "select", "received")
WorkerEnqueue(w) == Enqueue(w, "received", "select")

\* The ticker of w fires.
WorkerTick(w) ==
  /\ work[w] = "select"
  /\ PopDeleteBatch(w)
  /\ work' = [work EXCEPT ![w] = "flush"]
  /\ UNCHANGED <<calls, chan, flags, hand, stop, marked>>

WorkerFlushed(w) ==
  /\ work[w] = "flush" /\ batch[w] = {}
  /\ work' = [work EXCEPT ![w] = "select"]
  /\ UNCHANGED <<calls, chan, flags, hand, queue, stop, marked>>

\* Mutant: the worker leaves without draining the channel.
WorkerStopUndrained(w) ==
  /\ work[w] = "select" /\ stopWorkers
  /\ work' = [work EXCEPT ![w] = "exited"]
  /\ UNCHANGED <<calls, chan, flags, hand, queue, stop, marked>>

WorkerStop(w) ==
  /\ work[w] = "select" /\ stopWorkers
  /\ work' = [work EXCEPT ![w] = "drain"]
  /\ UNCHANGED <<calls, chan, flags, hand, queue, stop, marked>>

\* drainDeleteRequests: receive until the channel is found empty.
DrainReceive(w) == Receive(w, "drain", "drained")
DrainEnqueue(w) == Enqueue(w, "drained", "drain")

DrainDone(w) ==
  /\ work[w] = "drain" /\ deleteUserURLs = <<>>
  /\ work' = [work EXCEPT ![w] = "exited"]
  /\ UNCHANGED <<calls, chan, flags, hand, queue, stop, marked>>

-----------------------------------------------------------------------------
(* flushDeleteQueueOnce after the pop, on flusher f: a worker or Shutdown.
   The users of the batch come in the arbitrary order of a Go map. *)

Flushing(f) == IF f = Main THEN main = "flush" ELSE work[f] = "flush"

Share(f, u) == {p \in batch[f] : p[1] = u}

\* Mutant: all the shorts of the batch are marked for user u.
FlushOkAllShorts(f, u) ==
  /\ Flushing(f) /\ Share(f, u) # {}
  /\ marked' = marked \cup {u} \X {p[2] : p \in batch[f]}
  /\ batch' = [batch EXCEPT ![f] = @ \ Share(f, u)]
  /\ UNCHANGED <<calls, chan, flags, workers, deleteQueue, stop>>

FlushOk(f, u) ==
  /\ Flushing(f) /\ Share(f, u) # {}
  /\ marked' = marked \cup Share(f, u)
  /\ batch' = [batch EXCEPT ![f] = @ \ Share(f, u)]
  /\ UNCHANGED <<calls, chan, flags, workers, deleteQueue, stop>>

\* Mutant: a failed call is not queued again.
FlushErrorDropped(f, u) ==
  /\ Flushing(f) /\ Share(f, u) # {}
  /\ marked' \in {marked, marked \cup Share(f, u)}
  /\ batch' = [batch EXCEPT ![f] = @ \ Share(f, u)]
  /\ UNCHANGED <<calls, chan, flags, workers, deleteQueue, stop>>

\* A failed call is queued again. When it was the commit that failed, the
\* repository may have stored the marks all the same.
FlushError(f, u) ==
  /\ Flushing(f) /\ Share(f, u) # {}
  /\ marked' \in {marked, marked \cup Share(f, u)}
  /\ batch' = [batch EXCEPT ![f] = @ \ Share(f, u)]
  /\ deleteQueue' = deleteQueue \cup Share(f, u)
  /\ UNCHANGED <<calls, chan, flags, workers, stop>>

-----------------------------------------------------------------------------
(* Shutdown *)

MainStep(from, to) == main = from /\ main' = to

BeginShutdown ==
  /\ MainStep("serving", "announced")
  /\ isShuttingDown' = TRUE
  /\ UNCHANGED <<calls, chan, stopWorkers, workers, queue, deadline, marked, owed>>

CloseStop ==
  /\ MainStep("announced", "waiting")
  /\ stopWorkers' = TRUE
  /\ owed' = AcceptedPairs
  /\ UNCHANGED <<calls, chan, isShuttingDown, workers, queue, deadline, marked>>

Deadline ==
  /\ main # "serving" /\ ~deadline
  /\ deadline' = TRUE
  /\ UNCHANGED <<calls, chan, flags, workers, queue, main, marked, owed>>

\* Mutant: Shutdown does not wait for the workers.
WorkersNotAwaited ==
  /\ MainStep("waiting", "loop")
  /\ UNCHANGED <<calls, chan, flags, workers, queue, deadline, marked, owed>>

\* workersWG.Wait
WorkersDone ==
  /\ \A w \in Workers : work[w] = "exited"
  /\ MainStep("waiting", "loop")
  /\ UNCHANGED <<calls, chan, flags, workers, queue, deadline, marked, owed>>

\* Mutant: flushDeleteQueueUntilEmpty does not listen to the context.
GiveUpOnWorkersOnly ==
  /\ deadline
  /\ MainStep("waiting", "failed")
  /\ UNCHANGED <<calls, chan, flags, workers, queue, deadline, marked, owed>>

\* ctx.Done() in each of the three selects of Shutdown.
GiveUp ==
  /\ deadline
  /\ main \in {"waiting", "loop", "sleep"}
  /\ main' = "failed"
  /\ UNCHANGED <<calls, chan, flags, workers, queue, deadline, marked, owed>>

FlushLoop ==
  /\ ~deadline
  /\ MainStep("loop", "flush")
  /\ PopDeleteBatch(Main)
  /\ UNCHANGED <<calls, chan, flags, workers, deadline, marked, owed>>

\* Mutant: Shutdown flushes once and does not look at what was queued again.
FlushedOnce ==
  /\ batch[Main] = {}
  /\ MainStep("flush", "ok")
  /\ UNCHANGED <<calls, chan, flags, workers, queue, deadline, marked, owed>>

\* pendingDeleteCount decides between the return and another round.
Flushed ==
  /\ batch[Main] = {}
  /\ MainStep("flush", IF deleteQueue = {} THEN "ok" ELSE "sleep")
  /\ UNCHANGED <<calls, chan, flags, workers, queue, deadline, marked, owed>>

TimerFires ==
  /\ MainStep("sleep", "loop")
  /\ UNCHANGED <<calls, chan, flags, workers, queue, deadline, marked, owed>>

\* Shutdown has returned and every goroutine has ended.
Terminated ==
  /\ main \in {"ok", "failed"}
  /\ \A w \in Workers : work[w] = "exited"
  /\ \A c \in Callers : call[c] \in Results
  /\ UNCHANGED vars

CallNext(c) ==
  \/ CheckShutdown(c) \/ CheckContext(c)
  \/ SendCanceled(c) \/ SendStopped(c) \/ Send(c)

WorkerNext(w) ==
  \/ WorkerReceive(w) \/ WorkerEnqueue(w) \/ WorkerTick(w) \/ WorkerFlushed(w)
  \/ WorkerStop(w) \/ DrainReceive(w) \/ DrainEnqueue(w) \/ DrainDone(w)

FlushNext(f) == \E u \in Users : FlushOk(f, u) \/ FlushError(f, u)

MainNext ==
  \/ BeginShutdown \/ CloseStop \/ Deadline \/ WorkersDone
  \/ GiveUp \/ FlushLoop \/ Flushed \/ TimerFires

Next ==
  \/ \E c \in Callers : CallNext(c)
  \/ \E w \in Workers : WorkerNext(w)
  \/ \E f \in Flushers : FlushNext(f)
  \/ MainNext
  \/ Terminated

Spec == Init /\ [][Next]_vars

\* Goroutines run. Go's select picks at random among the ready alternatives, so
\* one that is ready again and again is taken in the end (strong fairness), and so
\* is a blocked send. The deadline of Shutdown passes, and the calls of the
\* repository that Shutdown makes itself return, with or without an error.
Progress ==
  /\ \A c \in Callers :
       /\ WF_vars(CheckShutdown(c) \/ CheckContext(c))
       /\ SF_vars(Send(c) \/ SendStopped(c))
  /\ \A w \in Workers :
       /\ WF_vars(WorkerEnqueue(w) \/ WorkerFlushed(w))
       /\ WF_vars(DrainReceive(w) \/ DrainEnqueue(w) \/ DrainDone(w))
       /\ SF_vars(WorkerReceive(w)) /\ SF_vars(WorkerTick(w))
       /\ SF_vars(WorkerStop(w))
  /\ WF_vars(FlushNext(Main))
  /\ WF_vars(Deadline)
  /\ WF_vars(CloseStop \/ WorkersDone \/ GiveUp \/ FlushLoop \/ Flushed \/ TimerFires)

\* The repository answers the workers: their calls know no deadline.
Answers == \A w \in Workers : WF_vars(FlushNext(w))

\* A repository asked again and again for one user succeeds in the end.
Recovery == \A f \in Flushers, u \in Users : SF_vars(FlushOk(f, u))

FairSpec == Spec /\ Progress

-----------------------------------------------------------------------------
(* Properties *)

CallLabels   == {"start", "checked", "sending"} \cup Results
WorkerLabels == {"select", "received", "flush", "drain", "drained", "exited"}
MainLabels   == {"serving", "announced", "waiting", "loop", "flush", "sleep",
                 "ok", "failed"}

\* Every variable keeps its type; the channel never exceeds its capacity.
TypeOK ==
  /\ call \in [Callers -> CallLabels]
  /\ deleteUserURLs \in Seq(Callers) /\ Len(deleteUserURLs) <= ChanCap
  /\ isShuttingDown \in BOOLEAN /\ stopWorkers \in BOOLEAN
  /\ work \in [Workers -> WorkerLabels]
  /\ hand \in [Workers -> Callers \cup {Nobody}]
  /\ deleteQueue \subseteq Pairs
  /\ batch \in [Flushers -> SUBSET Pairs]
  /\ main \in MainLabels /\ deadline \in BOOLEAN
  /\ marked \subseteq Pairs /\ owed \subseteq Pairs

InChannel == UNION {Asked(c) : c \in Range(deleteUserURLs)}
InHands   == UNION {Asked(c) : c \in Range(hand) \ {Nobody}}
InBatches == UNION {batch[f] : f \in Flushers}

\* What has been accepted and waits, wherever it is, to be marked.
Pending == InChannel \cup InHands \cup deleteQueue \cup InBatches

\* What is marked or waits to be marked is exactly what the accepted calls asked for,
\* whatever the interleaving of workers, failed flushes and Shutdown. Nothing is lost: a
\* request that DeleteUserURLs answered nil is in the channel, in a worker's hand, in the
\* queue or in a popped batch until it is marked. And nothing is invented: flushes never
\* mix users nor keep refused requests.
Conserved == marked \cup Pending = AcceptedPairs

\* When Shutdown returns nil, every pair accepted before stopWorkers was closed
\* is marked, no worker runs, and the queue and all batches are empty.
ShutdownFlushed ==
  main = "ok" =>
    /\ owed \subseteq marked
    /\ \A w \in Workers : work[w] = "exited"
    /\ InHands \cup deleteQueue \cup InBatches = {}

\* Once Shutdown has returned nil (and main closes the repository) no goroutine
\* passes anything to the repository any more.
QuietAfterShutdown == [][main = "ok" => UNCHANGED <<marked, queue>>]_vars

\* When the repository recovers, a deletion accepted before the stop signal is
\* marked, unless Shutdown runs into its deadline: a failed flush queues it again.
AcceptedIsMarked ==
  Answers /\ Recovery => \A c \in Callers :
    (call[c] = "accepted" /\ ~stopWorkers)
      ~> (Asked(c) \subseteq marked \/ main = "failed")

\* No call of DeleteUserURLs stays blocked on a full channel: the workers make
\* room, also when every call of the repository fails, or the stop signal comes.
CallsAnswered ==
  Answers => \A c \in Callers : call[c] = "sending" ~> call[c] \in Results

\* Shutdown returns, also when every call of the repository fails and when a
\* worker is caught in a call for ever.
ShutdownReturns == main = "announced" ~> main \in {"ok", "failed"}

-----------------------------------------------------------------------------
(* The pipeline implements the contract. *)

AnswerOf(l) == IF l = "accepted" THEN "accepted"
               ELSE IF l \in Results THEN "refused" ELSE "none"

PhaseOf(m) == CASE m \in {"serving", "announced"} -> "open"
                [] m \in {"ok", "failed"} -> m
                [] OTHER -> "stopping"

Contract == INSTANCE DeletionContract
              WITH answer <- [c \in Callers |-> AnswerOf(call[c])],
                   phase <- PhaseOf(main)

\* Every step of the pipeline is a step of DeletionContract or invisible there.
ImplementsContract == Contract!Spec
===============================================================================
