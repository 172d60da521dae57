----------------------------- MODULE AuditService -----------------------------
(***************************************************************************)
(* The audit service of internal/audit: requests that call Notify, the     *)
(* bounded queue, the goroutine running run, the observers it calls one    *)
(* after the other (file_observer.go, remote_observer.go), and Close.      *)
(*                                                                         *)
(* An event is identified with the call of Notify that sends it.           *)
(***************************************************************************)
EXTENDS Naturals, Sequences, SequencesExt

CONSTANTS Events,         \* calls of Notify, each on its own goroutine
          NoEvent,
          Closers,        \* calls of Close
          NumObservers,   \* the observers are 1 .. NumObservers, in this order
          FileObservers,  \* those that write to a file; the others send by HTTP
          QueueSize       \* defaultAuditQueueSize

Observers == 1 .. NumObservers

ASSUME EventAssumption == NoEvent \notin Events
ASSUME ObserverAssumption ==
  NumObservers \in Nat /\ FileObservers \subseteq Observers
ASSUME QueueAssumption == QueueSize \in Nat \ {0}

VARIABLES
  notify,    \* where each call of Notify is, or what became of its event
  events,    \* the queue
  done,      \* TRUE once the channel done is closed
  runner,    \* where the goroutine of run is
  current,   \* the event run received and is handing to the observers
  turn,      \* the observer whose turn it is
  file,      \* state of each file observer
  closer,    \* where each call of Close is
  closing,   \* the next observer each call of Close closes
  accepted,  \* history: events in the order the queue took them
  offered,   \* history: for each observer the events passed to its Notify
  owed       \* history: what had been accepted when done was closed

producers == <<notify>>
run       == <<runner, current, turn>>
close     == <<closer, closing, owed>>
vars == <<notify, events, done, runner, current, turn, file, closer, closing,
          accepted, offered, owed>>

Init ==
  /\ notify = [e \in Events |-> "start"]
  /\ events = <<>> /\ done = FALSE
  /\ runner = "select" /\ current = NoEvent /\ turn = 1
  /\ file = [o \in FileObservers |-> "unopened"]
  /\ closer = [k \in Closers |-> "start"]
  /\ closing = [k \in Closers |-> 1]
  /\ accepted = <<>> /\ owed = <<>>
  /\ offered = [o \in Observers |-> <<>>]

-----------------------------------------------------------------------------
(* Notify, on the goroutine of the request *)

Call(e) ==
  /\ notify[e] = "start"
  /\ notify' = [notify EXCEPT ![e] = "select"]
  /\ UNCHANGED <<events, done, run, file, close, accepted, offered>>

\* Mutant: a full queue drops the event.
SendOrDrop(e) ==
  /\ notify[e] = "select"
  /\ notify' = [notify EXCEPT ![e] = "queued"]
  /\ accepted' = Append(accepted, e)
  /\ events' = IF Len(events) < QueueSize THEN Append(events, e) ELSE events
  /\ UNCHANGED <<done, run, file, close, offered>>

\* Mutant: the queue grows without bound.
SendUnbounded(e) ==
  /\ notify[e] = "select"
  /\ events' = Append(events, e)
  /\ accepted' = Append(accepted, e)
  /\ notify' = [notify EXCEPT ![e] = "queued"]
  /\ UNCHANGED <<done, run, file, close, offered>>

Send(e) ==
  /\ notify[e] = "select"
  /\ Len(events) < QueueSize
  /\ events' = Append(events, e)
  /\ accepted' = Append(accepted, e)
  /\ notify' = [notify EXCEPT ![e] = "queued"]
  /\ UNCHANGED <<done, run, file, close, offered>>

\* Mutant: a request that finds the queue full does not wait.
DropFull(e) ==
  /\ notify[e] = "select"
  /\ done \/ Len(events) = QueueSize
  /\ notify' = [notify EXCEPT ![e] = "dropped"]
  /\ UNCHANGED <<events, done, run, file, close, accepted, offered>>

Drop(e) ==
  /\ notify[e] = "select"
  /\ done
  /\ notify' = [notify EXCEPT ![e] = "dropped"]
  /\ UNCHANGED <<events, done, run, file, close, accepted, offered>>

-----------------------------------------------------------------------------
(* run *)

\* The outer loop works at "select" and "deliver", the one that empties the
\* queue after the stop signal at "drain" and "drainDeliver".
Receive ==
  /\ \/ runner = "select" /\ runner' = "deliver"
     \/ runner = "drain" /\ runner' = "drainDeliver"
  /\ events # <<>>
  /\ current' = Head(events) /\ turn' = 1
  /\ events' = Tail(events)
  /\ UNCHANGED <<producers, done, file, close, accepted, offered>>

Delivering == runner \in {"deliver", "drainDeliver"} /\ turn <= NumObservers

\* FileObserver.Notify, under its lock, opens the file on first use, which may
\* fail; once closed it only answers os.ErrClosed. Whether a write or a POST of
\* RemoteObserver.Notify succeeds makes no difference to the service.
CallObserver(o) ==
  IF o \in FileObservers /\ file[o] = "unopened"
    THEN file' \in {file, [file EXCEPT ![o] = "open"]}
    ELSE UNCHANGED file

\* Mutant: an observer that fails ends the loop over the observers.
OfferUntilError ==
  /\ Delivering
  /\ offered' = [offered EXCEPT ![turn] = Append(@, current)]
  /\ CallObserver(turn)
  /\ turn' \in {turn + 1, NumObservers + 1}
  /\ UNCHANGED <<producers, events, done, runner, current, close, accepted>>

\* An observer's error is logged and the loop over the observers goes on.
Offer ==
  /\ Delivering
  /\ offered' = [offered EXCEPT ![turn] = Append(@, current)]
  /\ CallObserver(turn)
  /\ turn' = turn + 1
  /\ UNCHANGED <<producers, events, done, runner, current, close, accepted>>

Delivered ==
  /\ turn > NumObservers
  /\ \/ runner = "deliver" /\ runner' = "select"
     \/ runner = "drainDeliver" /\ runner' = "drain"
  /\ current' = NoEvent
  /\ UNCHANGED <<producers, events, done, turn, file, close, accepted, offered>>

\* Mutant: run leaves the inner loop only, and finds done closed again.
StopAgain == runner = "select" /\ done /\ UNCHANGED vars

\* Mutant: the stop signal ends the goroutine at once.
StopAtOnce ==
  /\ runner = "select" /\ done
  /\ runner' = "exited"
  /\ UNCHANGED <<producers, events, done, current, turn, file, close, accepted, offered>>

Stop ==
  /\ runner = "select" /\ done
  /\ runner' = "drain"
  /\ UNCHANGED <<producers, events, done, current, turn, file, close, accepted, offered>>

Exit ==
  /\ runner = "drain" /\ events = <<>>
  /\ runner' = "exited"
  /\ UNCHANGED <<producers, events, done, current, turn, file, close, accepted, offered>>

-----------------------------------------------------------------------------
(* Close *)

\* closeOnce: only the first call closes done.
BeginClose(k) ==
  /\ closer[k] = "start"
  /\ closer' = [closer EXCEPT ![k] = "wait"]
  /\ done' = TRUE
  /\ owed' = IF done THEN owed ELSE accepted
  /\ UNCHANGED <<producers, events, run, file, closing, accepted, offered>>

Joined(k) ==
  /\ closer[k] = "wait"
  /\ runner = "exited"
  /\ closer' = [closer EXCEPT ![k] = "closing"]
  /\ UNCHANGED <<producers, events, done, run, file, closing, owed, accepted, offered>>

\* FileObserver.Close is idempotent; RemoteObserver has no Close.
CloseObserver(k) ==
  /\ closer[k] = "closing" /\ closing[k] <= NumObservers
  /\ closing' = [closing EXCEPT ![k] = @ + 1]
  /\ file' = [o \in FileObservers |-> IF o = closing[k] THEN "closed" ELSE file[o]]
  /\ UNCHANGED <<producers, events, done, run, closer, owed, accepted, offered>>

Closed(k) ==
  /\ closer[k] = "closing" /\ closing[k] > NumObservers
  /\ closer' = [closer EXCEPT ![k] = "returned"]
  /\ UNCHANGED <<producers, events, done, run, file, closing, owed, accepted, offered>>

Terminated ==
  /\ runner = "exited"
  /\ \A e \in Events : notify[e] \in {"queued", "dropped"}
  /\ \A k \in Closers : closer[k] = "returned"
  /\ UNCHANGED vars

NotifyNext(e) == Call(e) \/ Send(e) \/ Drop(e)
RunNext       == Receive \/ Offer \/ Delivered \/ Stop \/ Exit
CloseNext(k)  == BeginClose(k) \/ Joined(k) \/ CloseObserver(k) \/ Closed(k)

Next ==
  \/ \E e \in Events : NotifyNext(e)
  \/ RunNext
  \/ \E k \in Closers : CloseNext(k)
  \/ Terminated

Spec == Init /\ [][Next]_vars

\* Goroutines run: an observer answers (the HTTP client has a timeout), a select
\* takes an alternative that is ready again and again. Nobody has to call Close
\* or Notify.
Fairness ==
  /\ \A e \in Events : SF_vars(Send(e) \/ Drop(e))
  /\ WF_vars(Receive \/ Offer \/ Delivered \/ Exit) /\ SF_vars(Stop)
  /\ \A k \in Closers : WF_vars(Joined(k) \/ CloseObserver(k) \/ Closed(k))

FairSpec == Spec /\ Fairness

-----------------------------------------------------------------------------
(* Properties *)

\* Every variable keeps its type; the queue stays within its size.
TypeOK ==
  /\ notify \in [Events -> {"start", "select", "queued", "dropped"}]
  /\ events \in Seq(Events) /\ Len(events) <= QueueSize
  /\ done \in BOOLEAN
  /\ runner \in {"select", "deliver", "drain", "drainDeliver", "exited"}
  /\ current \in Events \cup {NoEvent}
  /\ turn \in 1 .. NumObservers + 1
  /\ file \in [FileObservers -> {"unopened", "open", "closed"}]
  /\ closer \in [Closers -> {"start", "wait", "closing", "returned"}]
  /\ closing \in [Closers -> 1 .. NumObservers + 1]
  /\ accepted \in Seq(Events) /\ owed \in Seq(Events)
  /\ offered \in [Observers -> Seq(Events)]

\* The event run holds for observer o, not offered to it yet.
Held(o) ==
  IF runner \in {"deliver", "drainDeliver"} /\ turn <= o THEN <<current>> ELSE <<>>

\* Each observer is offered every accepted event, once and in the order of the
\* queue, whatever the other observers answer: what it was offered, what run
\* holds for it and what is queued make up what was accepted.
OfferedInOrder ==
  \A o \in Observers : accepted = offered[o] \o Held(o) \o events

\* When a call of Close returns, every observer has been offered all that was
\* accepted before the first Close, and every file is closed. No file is closed
\* while run may still call its observer: os.ErrClosed, the answer of a closed
\* file observer, cannot occur, and no file is opened again.
CloseFlushes ==
  /\ \A k \in Closers : closer[k] = "returned" =>
       /\ \A o \in Observers : IsPrefix(owed, offered[o])
       /\ \A o \in FileObservers : file[o] = "closed"
  /\ (\E o \in FileObservers : file[o] = "closed") => runner = "exited"

\* An event accepted before the stop signal reaches every observer in the end.
AcceptedIsOffered ==
  \A e \in Events :
    (~done /\ e \in ToSet(accepted)) ~> (\A o \in Observers : e \in ToSet(offered[o]))

\* A request is never stuck in Notify behind a full queue, closed or not, and every
\* call of Close returns.
CallsReturn ==
  /\ \A e \in Events : notify[e] = "select" ~> notify[e] \in {"queued", "dropped"}
  /\ \A k \in Closers : closer[k] = "wait" ~> closer[k] = "returned"

\* The service as its callers see it.
Contract == INSTANCE AuditContract WITH
  answer  <- [e \in Events |-> CASE notify[e] = "queued"  -> "accepted"
                                 [] notify[e] = "dropped" -> "refused"
                                 [] OTHER                 -> "none"],
  offered <- {e \in Events : \A o \in Observers : e \in ToSet(offered[o])},
  phase   <- IF \E k \in Closers : closer[k] = "returned" THEN "closed"
             ELSE IF done THEN "closing" ELSE "open",
  owed    <- ToSet(owed)

\* The queue, the goroutine and the observers implement the contract: nothing
\* is refused before the stop signal, and the first Close to return leaves
\* nothing accepted before it to offer and nothing that still runs.
ImplementsContract == Contract!Spec
===============================================================================
