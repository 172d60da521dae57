------------------------- MODULE DeletePipelineProofs -------------------------
(***************************************************************************)
(* Proofs about DeletePipeline, for any number of calls, workers, users    *)
(* and shorts and any capacity of the channel.                             *)
(***************************************************************************)
EXTENDS DeletePipeline, SequenceTheorems, TLAPS

\* A call that may be accepted has a user.
UserInv ==
  \A c \in Callers : call[c] \in {"sending", "accepted"} => ReqUser[c] \in Users

\* The channel holds accepted calls only.
ChanInv ==
  \A i \in 1 .. Len(deleteUserURLs) : call[deleteUserURLs[i]] = "accepted"

\* A worker holds a request, an accepted one, just while it has to queue it.
HandInv ==
  \A w \in Workers :
    IF work[w] \in {"received", "drained"}
      THEN hand[w] \in Callers /\ call[hand[w]] = "accepted"
      ELSE hand[w] = Nobody

\* A goroutine holds a batch only while it flushes.
BatchInv == \A f \in Flushers : ~Flushing(f) => batch[f] = {}

TypeInv == TypeOK /\ UserInv /\ ChanInv /\ HandInv /\ BatchInv

-----------------------------------------------------------------------------
LEMMA AskedPairs ==
  ASSUME NEW c \in Callers, ReqUser[c] \in Users
  PROVE  Asked(c) \subseteq Pairs
BY RequestAssumption DEF Asked, Pairs

LEMMA TypeInit == Init => TypeInv
<1>. SUFFICES ASSUME Init
              PROVE  TypeInv
  OBVIOUS
<1>. USE DEF Init
<1>1. TypeOK
  <2>1. call \in [Callers -> CallLabels]
    BY DEF CallLabels
  <2>2. deleteUserURLs \in Seq(Callers) /\ Len(deleteUserURLs) <= ChanCap
    BY CapAssumption
  <2>3. work \in [Workers -> WorkerLabels] /\ main \in MainLabels
    BY DEF WorkerLabels, MainLabels
  <2>. QED BY <2>1, <2>2, <2>3 DEF TypeOK
<1>2. UserInv /\ ChanInv /\ HandInv /\ BatchInv
  BY DEF UserInv, ChanInv, HandInv, BatchInv
<1>. QED BY <1>1, <1>2 DEF TypeInv

LEMMA TypeNext == TypeInv /\ [Next]_vars => TypeInv'
<1>. SUFFICES ASSUME TypeInv, [Next]_vars
              PROVE  TypeInv'
  OBVIOUS
<1>. USE CapAssumption, ActorsAssumption
     DEF TypeInv, TypeOK, CallLabels, WorkerLabels, MainLabels, Results,
         calls, chan, flags, workers, queue, stop, Flushing
<1>1. ASSUME NEW c \in Callers, CallNext(c) PROVE TypeInv'
  <2>1. CASE CheckShutdown(c)
    BY <2>1 DEF CheckShutdown, Goto, UserInv, ChanInv, HandInv, BatchInv
  <2>2. CASE CheckContext(c)
    BY <2>2, RequestAssumption DEF CheckContext, Goto, UserInv, ChanInv, HandInv, BatchInv
  <2>3. CASE SendCanceled(c)
    BY <2>3 DEF SendCanceled, Goto, UserInv, ChanInv, HandInv, BatchInv
  <2>4. CASE SendStopped(c)
    BY <2>4 DEF SendStopped, Goto, UserInv, ChanInv, HandInv, BatchInv
  <2>5. CASE Send(c)
    BY <2>5 DEF Send, Goto, UserInv, ChanInv, HandInv, BatchInv
  <2>. QED BY <1>1, <2>1, <2>2, <2>3, <2>4, <2>5 DEF CallNext
<1>2. ASSUME NEW w \in Workers, WorkerNext(w) PROVE TypeInv'
  <2>. w \in Flushers
    BY DEF Flushers
  <2>1. ASSUME NEW from \in {"select", "drain"}, NEW to \in {"received", "drained"},
               Receive(w, from, to)
        PROVE  TypeInv'
    <3>1. /\ Head(deleteUserURLs) = deleteUserURLs[1]
          /\ deleteUserURLs' \in Seq(Callers)
          /\ Len(deleteUserURLs') = Len(deleteUserURLs) - 1
          /\ \A i \in 1 .. Len(deleteUserURLs') : deleteUserURLs'[i] = deleteUserURLs[i + 1]
          /\ Len(deleteUserURLs) \in Nat \ {0}
      BY <2>1, HeadTailProperties, EmptySeq DEF Receive
    <3>2. deleteUserURLs[1] \in Callers /\ call[deleteUserURLs[1]] = "accepted"
      BY <3>1 DEF ChanInv
    <3>. QED BY <2>1, <3>1, <3>2 DEF Receive, UserInv, ChanInv, HandInv, BatchInv
  <2>2. ASSUME NEW from \in {"received", "drained"}, NEW to \in {"select", "drain"},
               Enqueue(w, from, to)
        PROVE  TypeInv'
    <3>1. Asked(hand[w]) \subseteq Pairs
      BY <2>2, AskedPairs DEF Enqueue, HandInv, UserInv
    <3>. QED BY <2>2, <3>1 DEF Enqueue, UserInv, ChanInv, HandInv, BatchInv
  <2>3. CASE WorkerTick(w)
    BY <2>3 DEF WorkerTick, PopDeleteBatch, UserInv, ChanInv, HandInv, BatchInv
  <2>4. CASE WorkerFlushed(w)
    BY <2>4 DEF WorkerFlushed, UserInv, ChanInv, HandInv, BatchInv
  <2>5. CASE WorkerStop(w)
    BY <2>5 DEF WorkerStop, UserInv, ChanInv, HandInv, BatchInv
  <2>6. CASE DrainDone(w)
    BY <2>6 DEF DrainDone, UserInv, ChanInv, HandInv, BatchInv
  <2>. QED BY <1>2, <2>1, <2>2, <2>3, <2>4, <2>5, <2>6
           DEF WorkerNext, WorkerReceive, WorkerEnqueue, DrainReceive, DrainEnqueue
<1>3. ASSUME NEW f \in Flushers, FlushNext(f) PROVE TypeInv'
  <2>. PICK u \in Users : FlushOk(f, u) \/ FlushError(f, u)
    BY <1>3 DEF FlushNext
  <2>1. Share(f, u) \subseteq Pairs
    BY DEF Share
  <2>. QED BY <2>1 DEF FlushOk, FlushError, UserInv, ChanInv, HandInv, BatchInv
<1>4. CASE MainNext
  <2>. Main \in Flushers
    BY DEF Flushers
  <2>1. CASE CloseStop
    <3>1. AcceptedPairs \subseteq Pairs
      BY AskedPairs DEF AcceptedPairs, Accepted, UserInv
    <3>. QED BY <2>1, <3>1 DEF CloseStop, MainStep, UserInv, ChanInv, HandInv, BatchInv
  <2>2. CASE FlushLoop
    BY <2>2 DEF FlushLoop, MainStep, PopDeleteBatch, UserInv, ChanInv, HandInv, BatchInv
  <2>3. CASE Flushed
    BY <2>3 DEF Flushed, MainStep, UserInv, ChanInv, HandInv, BatchInv
  <2>. QED BY <1>4, <2>1, <2>2, <2>3
           DEF MainNext, BeginShutdown, Deadline, WorkersDone, GiveUp, TimerFires,
               MainStep, UserInv, ChanInv, HandInv, BatchInv
<1>5. CASE UNCHANGED vars
  BY <1>5 DEF vars, UserInv, ChanInv, HandInv, BatchInv
<1>. QED BY <1>1, <1>2, <1>3, <1>4, <1>5 DEF Next, Terminated

\* In every state each variable keeps its type, the channel stays within its
\* capacity, and what waits in it or in a worker's hand is an accepted request
\* of a call with a user; only a flushing goroutine holds a batch.
THEOREM TypeCorrect == Spec => []TypeInv
BY TypeInit, TypeNext, PTL DEF Spec

\* The type invariant the runs check.
THEOREM TypeSafe == Spec => []TypeOK
<1>1. TypeInv => TypeOK
  BY DEF TypeInv
<1>. QED BY <1>1, TypeCorrect, PTL

-----------------------------------------------------------------------------
(* Conservation: what has been accepted is exactly what waits or is marked. *)

\* What has left the channel.
Taken == marked \cup deleteQueue \cup InBatches \cup InHands

\* A step keeps Conserved and what has left the channel.
Flow == Taken \subseteq Taken' /\ (Conserved => Conserved')

LEMMA InChannelMember ==
  TypeOK => \A p : p \in InChannel
                     <=> \E i \in 1 .. Len(deleteUserURLs) : p \in Asked(deleteUserURLs[i])
<1>. SUFFICES ASSUME TypeOK, NEW p
              PROVE  p \in InChannel
                       <=> \E i \in 1 .. Len(deleteUserURLs) : p \in Asked(deleteUserURLs[i])
  OBVIOUS
<1>1. Range(deleteUserURLs) = {deleteUserURLs[i] : i \in 1 .. Len(deleteUserURLs)}
  BY RangeEquality DEF TypeOK
<1>. QED BY <1>1 DEF InChannel

LEMMA InHandsMember ==
  TypeOK => \A p : p \in InHands
                     <=> \E w \in Workers : hand[w] # Nobody /\ p \in Asked(hand[w])
BY DEF TypeOK, InHands, Range

LEMMA InBatchesMember ==
  \A p : p \in InBatches <=> \E f \in Flushers : p \in batch[f]
BY DEF InBatches

LEMMA FlowNext == TypeInv /\ TypeInv' /\ [Next]_vars => Flow
<1>. SUFFICES ASSUME TypeInv, TypeInv', [Next]_vars
              PROVE  Flow
  OBVIOUS
<1>. TypeOK /\ TypeOK' /\ HandInv /\ HandInv'
  BY DEF TypeInv
<1>. BatchInv
  BY DEF TypeInv
<1>1. \A p : /\ p \in InChannel
                  <=> \E i \in 1 .. Len(deleteUserURLs) : p \in Asked(deleteUserURLs[i])
             /\ p \in InHands
                  <=> \E w \in Workers : hand[w] # Nobody /\ p \in Asked(hand[w])
             /\ p \in InBatches <=> \E f \in Flushers : p \in batch[f]
  BY InChannelMember, InHandsMember, InBatchesMember
<1>2. \A p : /\ p \in InChannel'
                  <=> \E i \in 1 .. Len(deleteUserURLs') : p \in Asked(deleteUserURLs'[i])
             /\ p \in InHands'
                  <=> \E w \in Workers : hand'[w] # Nobody /\ p \in Asked(hand'[w])
             /\ p \in InBatches' <=> \E f \in Flushers : p \in batch'[f]
  <2>1. ASSUME NEW p
        PROVE  p \in InChannel'
                 <=> \E i \in 1 .. Len(deleteUserURLs') : p \in Asked(deleteUserURLs'[i])
    <3>1. Range(deleteUserURLs') = {deleteUserURLs'[i] : i \in 1 .. Len(deleteUserURLs')}
      BY RangeEquality DEF TypeOK
    <3>. QED BY <3>1 DEF InChannel, Asked
  <2>2. ASSUME NEW p
        PROVE  p \in InHands'
                 <=> \E w \in Workers : hand'[w] # Nobody /\ p \in Asked(hand'[w])
    BY DEF TypeOK, InHands, Range, Asked
  <2>3. ASSUME NEW p
        PROVE  p \in InBatches' <=> \E f \in Flushers : p \in batch'[f]
    BY DEF InBatches
  <2>. QED BY <2>1, <2>2, <2>3
<1>3. /\ calls' = calls => AcceptedPairs' = AcceptedPairs
      /\ chan' = chan => InChannel' = InChannel
      /\ hand' = hand => InHands' = InHands
      /\ batch' = batch => InBatches' = InBatches
  BY DEF calls, chan, AcceptedPairs, Accepted, Asked, InChannel, InHands, InBatches
<1>4. ASSUME NEW c \in Callers, CallNext(c) PROVE Flow
  <2>1. CASE Send(c)
    <3>1. AcceptedPairs' = AcceptedPairs \cup Asked(c)
      BY <2>1 DEF Send, Goto, TypeOK, AcceptedPairs, Accepted, Asked
    <3>2. /\ Len(deleteUserURLs') = Len(deleteUserURLs) + 1
          /\ \A i \in 1 .. Len(deleteUserURLs) : deleteUserURLs'[i] = deleteUserURLs[i]
          /\ deleteUserURLs'[Len(deleteUserURLs) + 1] = c
          /\ Len(deleteUserURLs) \in Nat
      BY <2>1, AppendProperties DEF Send, TypeOK
    <3>3. \A p : p \in InChannel' <=> p \in InChannel \/ p \in Asked(c)
      BY <1>1, <1>2, <3>2
    <3>. QED BY <2>1, <1>3, <3>1, <3>3
             DEF Send, Flow, Taken, Conserved, Pending, workers, queue
  <2>2. CASE CheckShutdown(c) \/ CheckContext(c) \/ SendCanceled(c) \/ SendStopped(c)
    <3>1. Accepted' = Accepted
      BY <2>2 DEF CheckShutdown, CheckContext, SendCanceled, SendStopped, Goto,
                  TypeOK, Accepted
    <3>2. AcceptedPairs' = AcceptedPairs
      BY <3>1 DEF AcceptedPairs, Asked
    <3>. QED BY <2>2, <1>3, <3>2
             DEF CheckShutdown, CheckContext, SendCanceled, SendStopped,
                 Flow, Taken, Conserved, Pending, workers, queue
  <2>. QED BY <1>4, <2>1, <2>2 DEF CallNext
<1>5. ASSUME NEW w \in Workers, WorkerNext(w) PROVE Flow
  <2>1. ASSUME NEW from \in {"select", "drain"}, NEW to \in {"received", "drained"},
               Receive(w, from, to)
        PROVE  Flow
    <3>1. /\ Head(deleteUserURLs) = deleteUserURLs[1]
          /\ Len(deleteUserURLs') = Len(deleteUserURLs) - 1
          /\ \A i \in 1 .. Len(deleteUserURLs') : deleteUserURLs'[i] = deleteUserURLs[i + 1]
          /\ Len(deleteUserURLs) \in Nat \ {0}
          /\ deleteUserURLs[1] \in Callers
      BY <2>1, HeadTailProperties, EmptySeq DEF Receive, TypeOK
    <3>2. \A p : p \in InChannel <=> p \in InChannel' \/ p \in Asked(deleteUserURLs[1])
      <4>. SUFFICES ASSUME NEW p
                    PROVE  p \in InChannel
                             <=> p \in InChannel' \/ p \in Asked(deleteUserURLs[1])
        OBVIOUS
      <4>1. \A i \in 1 .. Len(deleteUserURLs) :
              i = 1 \/ (i - 1 \in 1 .. Len(deleteUserURLs')
                          /\ deleteUserURLs'[i - 1] = deleteUserURLs[i])
        BY <3>1
      <4>2. \A i \in 1 .. Len(deleteUserURLs') : i + 1 \in 1 .. Len(deleteUserURLs)
        BY <3>1
      <4>. QED BY <1>1, <1>2, <3>1, <4>1, <4>2
    <3>3. hand[w] = Nobody /\ hand'[w] = deleteUserURLs[1]
          /\ \A v \in Workers \ {w} : hand'[v] = hand[v]
      BY <2>1, <3>1 DEF Receive, HandInv, TypeOK
    <3>4. \A p : p \in InHands' <=> p \in InHands \/ p \in Asked(deleteUserURLs[1])
      BY <1>1, <1>2, <3>1, <3>3, ActorsAssumption
    <3>. QED BY <2>1, <1>3, <3>2, <3>4 DEF Receive, Flow, Taken, Conserved, Pending, queue
  <2>2. ASSUME NEW from \in {"received", "drained"}, NEW to \in {"select", "drain"},
               Enqueue(w, from, to)
        PROVE  Flow
    <3>1. hand[w] # Nobody /\ hand'[w] = Nobody
          /\ \A v \in Workers \ {w} : hand'[v] = hand[v]
      BY <2>2, ActorsAssumption DEF Enqueue, HandInv, TypeOK
    <3>2. \A p : p \in InHands <=> p \in InHands' \/ p \in Asked(hand[w])
      BY <1>1, <1>2, <3>1
    <3>. QED BY <2>2, <1>3, <3>2 DEF Enqueue, Flow, Taken, Conserved, Pending
  <2>3. CASE WorkerTick(w)
    <3>1. PopDeleteBatch(w) /\ batch[w] = {} /\ w \in Flushers
      BY <2>3, ActorsAssumption DEF WorkerTick, BatchInv, Flushing, Flushers
    <3>2. \A p : p \in InBatches' <=> p \in InBatches \/ p \in deleteQueue
      BY <1>1, <1>2, <3>1 DEF PopDeleteBatch, TypeOK
    <3>. QED BY <2>3, <1>3, <3>1, <3>2 DEF WorkerTick, PopDeleteBatch, Flow, Taken, Conserved, Pending
  <2>4. CASE WorkerFlushed(w) \/ WorkerStop(w) \/ DrainDone(w)
    BY <2>4, <1>3 DEF WorkerFlushed, WorkerStop, DrainDone, Flow, Taken, Conserved, Pending, queue
  <2>. QED BY <1>5, <2>1, <2>2, <2>3, <2>4
           DEF WorkerNext, WorkerReceive, WorkerEnqueue, DrainReceive, DrainEnqueue
<1>6. ASSUME NEW f \in Flushers, FlushNext(f) PROVE Flow
  <2>. PICK u \in Users : FlushOk(f, u) \/ FlushError(f, u)
    BY <1>6 DEF FlushNext
  <2>1. /\ batch'[f] = batch[f] \ Share(f, u)
        /\ \A g \in Flushers \ {f} : batch'[g] = batch[g]
        /\ Share(f, u) \subseteq batch[f]
    BY DEF FlushOk, FlushError, TypeOK, Share
  <2>2. \A p : p \in InBatches' \/ p \in Share(f, u) <=> p \in InBatches
    BY <1>1, <1>2, <2>1
  <2>3. InHands' = InHands /\ InChannel' = InChannel /\ AcceptedPairs' = AcceptedPairs
    BY <1>3 DEF FlushOk, FlushError, workers
  <2>4. marked' \cup deleteQueue' = marked \cup deleteQueue \cup Share(f, u)
    BY DEF FlushOk, FlushError
  <2>. QED BY <2>2, <2>3, <2>4 DEF Flow, Taken, Conserved, Pending
<1>7. CASE MainNext
  <2>1. CASE FlushLoop
    <3>1. PopDeleteBatch(Main) /\ batch[Main] = {} /\ Main \in Flushers
      BY <2>1 DEF FlushLoop, MainStep, BatchInv, Flushing, Flushers
    <3>2. \A p : p \in InBatches' <=> p \in InBatches \/ p \in deleteQueue
      BY <1>1, <1>2, <3>1 DEF PopDeleteBatch, TypeOK
    <3>. QED BY <2>1, <1>3, <3>1, <3>2
             DEF FlushLoop, PopDeleteBatch, Flow, Taken, Conserved, Pending, workers
  <2>. QED BY <1>7, <2>1, <1>3
           DEF MainNext, BeginShutdown, CloseStop, Deadline, WorkersDone, GiveUp,
               Flushed, TimerFires, Flow, Taken, Conserved, Pending, workers, queue
<1>8. CASE UNCHANGED vars
  BY <1>8, <1>3 DEF vars, calls, chan, Flow, Taken, Conserved, Pending
<1>. QED BY <1>4, <1>5, <1>6, <1>7, <1>8 DEF Next, Terminated

LEMMA ConservedInit == Init => Conserved
BY DEF Init, Conserved, Pending, InChannel, InHands, InBatches, Range, AcceptedPairs, Accepted

\* In every state the pairs that are marked or wait to be marked are exactly the
\* pairs of the accepted calls.
THEOREM Conservation == Spec => []Conserved
<1>1. TypeInv /\ TypeInv' /\ Conserved /\ [Next]_vars => Conserved'
  BY FlowNext DEF Flow
<1>. QED BY <1>1, ConservedInit, TypeCorrect, PTL DEF Spec

-----------------------------------------------------------------------------
(* Shutdown *)

\* Workers leave after the stop signal only, and Shutdown flushes after all of
\* them have left.
StopInv ==
  /\ stopWorkers <=> main \notin {"serving", "announced"}
  /\ \A w \in Workers : work[w] \in {"drain", "drained", "exited"} => stopWorkers
  /\ main \in {"loop", "flush", "sleep", "ok"} => \A w \in Workers : work[w] = "exited"
  /\ main = "ok" => deleteQueue = {}

\* A worker leaves when it finds the channel empty: what was accepted before the
\* stop signal has left the channel by then, though it may be with another worker.
OwedInv ==
  /\ owed \subseteq AcceptedPairs
  /\ \A w \in Workers : work[w] = "exited" => owed \subseteq Taken

IInv == TypeInv /\ Conserved /\ StopInv /\ OwedInv

LEMMA StopInit == Init => StopInv /\ OwedInv
BY DEF Init, StopInv, OwedInv

LEMMA StopNext == TypeInv /\ StopInv /\ [Next]_vars => StopInv'
<1>. SUFFICES ASSUME TypeInv, StopInv, [Next]_vars
              PROVE  StopInv'
  OBVIOUS
<1>. USE DEF TypeInv, TypeOK, StopInv, calls, chan, flags, workers, queue, stop
<1>1. ASSUME NEW c \in Callers, CallNext(c) PROVE StopInv'
  BY <1>1 DEF CallNext, CheckShutdown, CheckContext, SendCanceled, SendStopped, Send
<1>2. ASSUME NEW w \in Workers, WorkerNext(w) PROVE StopInv'
  <2>1. work[w] # "exited" /\ main \notin {"loop", "flush", "sleep", "ok"}
    BY <1>2 DEF WorkerNext, WorkerReceive, WorkerEnqueue, WorkerTick, WorkerFlushed,
                WorkerStop, DrainReceive, DrainEnqueue, DrainDone, Receive, Enqueue
  <2>2. main' = main /\ stopWorkers' = stopWorkers
    BY <1>2 DEF WorkerNext, WorkerReceive, WorkerEnqueue, WorkerTick, WorkerFlushed,
                WorkerStop, DrainReceive, DrainEnqueue, DrainDone, Receive, Enqueue
  <2>3. \A v \in Workers : work'[v] \in {"drain", "drained", "exited"} => stopWorkers
    BY <1>2 DEF WorkerNext, WorkerReceive, WorkerEnqueue, WorkerTick, WorkerFlushed,
                WorkerStop, DrainReceive, DrainEnqueue, DrainDone, Receive, Enqueue
  <2>. QED BY <2>1, <2>2, <2>3
<1>3. ASSUME NEW f \in Flushers, FlushNext(f) PROVE StopInv'
  <2>1. main # "ok"
    BY <1>3, ActorsAssumption DEF FlushNext, FlushOk, FlushError, Flushing, Flushers
  <2>. QED BY <1>3, <2>1 DEF FlushNext, FlushOk, FlushError
<1>4. CASE MainNext
  BY <1>4 DEF MainNext, BeginShutdown, CloseStop, Deadline, WorkersDone, GiveUp,
              FlushLoop, Flushed, TimerFires, MainStep
<1>5. CASE UNCHANGED vars
  BY <1>5 DEF vars
<1>. QED BY <1>1, <1>2, <1>3, <1>4, <1>5 DEF Next, Terminated

LEMMA OwedNext == TypeInv /\ Conserved /\ StopInv /\ OwedInv /\ Flow /\ [Next]_vars => OwedInv'
<1>. SUFFICES ASSUME TypeInv, Conserved, StopInv, OwedInv, Flow, [Next]_vars
              PROVE  OwedInv'
  OBVIOUS
<1>1. Taken \subseteq Taken'
  BY DEF Flow
<1>2. CASE CloseStop
  <2>1. owed' = AcceptedPairs /\ AcceptedPairs' = AcceptedPairs
    BY <1>2 DEF CloseStop, calls, AcceptedPairs, Accepted, Asked
  <2>2. \A w \in Workers : work'[w] # "exited"
    BY <1>2 DEF CloseStop, MainStep, StopInv, workers
  <2>. QED BY <2>1, <2>2 DEF OwedInv
<1>3. CASE ~CloseStop
  <2>1. owed' = owed
    BY <1>3 DEF Next, Terminated, vars, CallNext, CheckShutdown, CheckContext,
       SendCanceled, SendStopped, Send, WorkerNext, WorkerReceive, WorkerEnqueue,
       WorkerTick, WorkerFlushed, WorkerStop, DrainReceive, DrainEnqueue, DrainDone,
       Receive, Enqueue, FlushNext, FlushOk, FlushError, MainNext, BeginShutdown,
       Deadline, WorkersDone, GiveUp, FlushLoop, Flushed, TimerFires, stop
  <2>2. AcceptedPairs \subseteq AcceptedPairs'
    <3>1. Accepted \subseteq Accepted'
      BY DEF TypeInv, TypeOK, Accepted, Next, Terminated, vars, CallNext,
         CheckShutdown, CheckContext, SendCanceled, SendStopped, Send, Goto, calls,
         WorkerNext, WorkerReceive, WorkerEnqueue, WorkerTick, WorkerFlushed,
         WorkerStop, DrainReceive, DrainEnqueue, DrainDone, Receive, Enqueue,
         FlushNext, FlushOk, FlushError, MainNext, BeginShutdown, CloseStop,
         Deadline, WorkersDone, GiveUp, FlushLoop, Flushed, TimerFires
    <3>. QED BY <3>1 DEF AcceptedPairs, Asked
  <2>3. ASSUME NEW w \in Workers, work'[w] = "exited"
        PROVE  owed \subseteq Taken
    <3>1. CASE DrainDone(w)
      <4>1. InChannel = {}
        BY <3>1, InChannelMember DEF DrainDone, TypeInv
      <4>. QED BY <4>1 DEF OwedInv, Conserved, Pending, Taken
    <3>2. CASE ~DrainDone(w)
      <4>1. work[w] = "exited"
        <5>. USE DEF workers
        <5>1. ASSUME NEW c \in Callers, CallNext(c) PROVE work' = work
          BY <5>1 DEF CallNext, CheckShutdown, CheckContext, SendCanceled,
                      SendStopped, Send
        <5>2. ASSUME NEW f \in Flushers, FlushNext(f) PROVE work' = work
          BY <5>2 DEF FlushNext, FlushOk, FlushError
        <5>3. CASE MainNext
          BY <2>3, <5>3
             DEF MainNext, BeginShutdown, CloseStop, Deadline, WorkersDone, GiveUp,
                 FlushLoop, Flushed, TimerFires
        <5>4. ASSUME NEW v \in Workers, WorkerNext(v) PROVE work[w] = "exited"
          <6>1. CASE DrainDone(v)
            BY <2>3, <3>2, <6>1 DEF DrainDone, TypeInv, TypeOK
          <6>2. CASE ~DrainDone(v)
            BY <2>3, <5>4, <6>2
               DEF TypeInv, TypeOK, WorkerNext, WorkerReceive, WorkerEnqueue,
                   WorkerTick, WorkerFlushed, WorkerStop, DrainReceive,
                   DrainEnqueue, Receive, Enqueue
          <6>. QED BY <6>1, <6>2
        <5>. QED BY <2>3, <5>1, <5>2, <5>3, <5>4 DEF Next, Terminated, vars
      <4>. QED BY <4>1 DEF OwedInv
    <3>. QED BY <3>1, <3>2
  <2>. QED BY <1>1, <2>1, <2>2, <2>3 DEF OwedInv
<1>. QED BY <1>2, <1>3

\* The inductive invariant: what waits is accounted for, and the order of
\* Shutdown leaves nothing that was accepted before the stop signal behind.
THEOREM Invariance == Spec => []IInv
<1>1. TypeInv /\ TypeInv' /\ Conserved /\ StopInv /\ OwedInv /\ [Next]_vars
        => Conserved' /\ StopInv' /\ OwedInv'
  BY FlowNext, StopNext, OwedNext DEF Flow
<1>2. Spec => [](StopInv /\ OwedInv /\ Conserved)
  BY <1>1, StopInit, ConservedInit, TypeCorrect, PTL DEF Spec
<1>. QED BY <1>2, TypeCorrect, PTL DEF IInv

LEMMA IdleShutdown ==
  IInv /\ main = "ok" => InHands \cup deleteQueue \cup InBatches = {}
<1>. SUFFICES ASSUME IInv, main = "ok"
              PROVE  InHands \cup deleteQueue \cup InBatches = {}
  OBVIOUS
<1>. USE DEF IInv
<1>1. deleteQueue = {} /\ \A w \in Workers : work[w] = "exited"
  BY DEF StopInv
<1>2. \A w \in Workers : hand[w] = Nobody
  BY <1>1 DEF TypeInv, HandInv
<1>3. \A f \in Flushers : batch[f] = {}
  BY <1>1, ActorsAssumption DEF TypeInv, BatchInv, Flushing, Flushers
<1>. QED BY <1>1, <1>2, <1>3, InHandsMember, InBatchesMember DEF TypeInv

LEMMA FlushedShutdown == IInv => ShutdownFlushed
<1>. SUFFICES ASSUME IInv, main = "ok"
              PROVE  /\ owed \subseteq marked
                     /\ \A w \in Workers : work[w] = "exited"
                     /\ InHands \cup deleteQueue \cup InBatches = {}
  BY DEF ShutdownFlushed
<1>1. \A w \in Workers : work[w] = "exited"
  BY DEF IInv, StopInv
<1>2. owed \subseteq Taken
  BY <1>1, ActorsAssumption DEF IInv, OwedInv
<1>. QED BY <1>1, <1>2, IdleShutdown DEF Taken

\* When Shutdown returns nil, every deletion accepted before the stop signal is
\* marked, all workers have left and nothing is queued or popped.
THEOREM ShutdownFlushedSafe == Spec => []ShutdownFlushed
BY Invariance, FlushedShutdown, PTL

\* Once Shutdown has returned nil nothing is passed to the repository any more.
THEOREM Quiet == Spec => QuietAfterShutdown
<1>1. IInv /\ [Next]_vars => [main = "ok" => UNCHANGED <<marked, queue>>]_vars
  <2>. SUFFICES ASSUME IInv, [Next]_vars, main = "ok"
                PROVE  UNCHANGED <<marked, queue>>
    OBVIOUS
  <2>1. \A w \in Workers : work[w] = "exited"
    BY DEF IInv, StopInv
  <2>2. ASSUME NEW w \in Workers, WorkerNext(w) PROVE FALSE
    BY <2>1, <2>2 DEF WorkerNext, WorkerReceive, WorkerEnqueue, WorkerTick,
       WorkerFlushed, WorkerStop, DrainReceive, DrainEnqueue, DrainDone, Receive, Enqueue
  <2>3. ASSUME NEW f \in Flushers, FlushNext(f) PROVE FALSE
    BY <2>1, <2>3 DEF FlushNext, FlushOk, FlushError, Flushing, Flushers
  <2>4. ASSUME NEW c \in Callers, CallNext(c) PROVE UNCHANGED <<marked, queue>>
    BY <2>4 DEF CallNext, CheckShutdown, CheckContext, SendCanceled, SendStopped, Send
  <2>5. CASE MainNext
    BY <2>5 DEF MainNext, BeginShutdown, CloseStop, Deadline, WorkersDone, GiveUp,
                FlushLoop, Flushed, TimerFires, MainStep
  <2>. QED BY <2>2, <2>3, <2>4, <2>5 DEF Next, Terminated, vars, queue
<1>. QED BY <1>1, Invariance, PTL DEF Spec, QuietAfterShutdown

-----------------------------------------------------------------------------
(* Refinement *)

LEMMA ContractPairs == Contract!AcceptedPairs = AcceptedPairs
<1>1. {d \in Callers : [c \in Callers |-> AnswerOf(call[c])][d] = "accepted"} = Accepted
  BY DEF Accepted, AnswerOf, Results
<1>. QED BY <1>1 DEF Contract!AcceptedPairs, Contract!Asked, AcceptedPairs, Asked

LEMMA ContractInit == Init => Contract!Init
BY DEF Init, Contract!Init, AnswerOf, Results, PhaseOf

LEMMA ContractNext ==
  IInv /\ ShutdownFlushed' /\ [Next]_vars => [Contract!Next]_(Contract!cvars)
<1>. SUFFICES ASSUME IInv, ShutdownFlushed', [Next]_vars
              PROVE  Contract!Next \/ UNCHANGED Contract!cvars
  BY DEF Contract!cvars
<1>. DEFINE answerOf(c) == AnswerOf(call[c])
<1>1. call \in [Callers -> CallLabels] /\ main \in MainLabels
  BY DEF IInv, TypeInv, TypeOK
<1>2. ASSUME NEW c \in Callers, CallNext(c)
      PROVE  Contract!Next \/ UNCHANGED Contract!cvars
  <2>1. main' = main /\ marked' = marked /\ owed' = owed
    BY <1>2 DEF CallNext, CheckShutdown, CheckContext, SendCanceled, SendStopped,
                Send, stop
  <2>2. PICK l \in {"checked", "sending"} \cup Results : Goto(c, l)
    BY <1>2 DEF CallNext, CheckShutdown, CheckContext, SendCanceled, SendStopped,
                Send, Results
  <2>3. answerOf(c) = "none"
    BY <1>2 DEF CallNext, CheckShutdown, CheckContext, SendCanceled, SendStopped,
                Send, AnswerOf, Results
  <2>4. [d \in Callers |-> AnswerOf(call'[d])]
          = [[d \in Callers |-> AnswerOf(call[d])] EXCEPT ![c] = AnswerOf(l)]
    BY <1>1, <2>2 DEF Goto
  <2>5. CASE l \in Results
    <3>1. AnswerOf(l) \in {"accepted", "refused"}
      BY <2>5 DEF AnswerOf
    <3>2. Contract!Answer(c)
      BY <2>1, <2>3, <2>4, <3>1 DEF Contract!Answer, PhaseOf
    <3>. QED BY <3>2 DEF Contract!Next
  <2>6. CASE l \notin Results
    <3>1. [d \in Callers |-> AnswerOf(call'[d])] = [d \in Callers |-> AnswerOf(call[d])]
      BY <2>2, <2>3, <2>4, <2>6 DEF AnswerOf, Results
    <3>. QED BY <2>1, <3>1 DEF Contract!cvars, PhaseOf
  <2>. QED BY <2>5, <2>6
<1>3. ASSUME call' = call, main' = main, owed' = owed, marked' = marked
      PROVE  UNCHANGED Contract!cvars
  BY <1>3 DEF Contract!cvars, AnswerOf, PhaseOf
<1>4. ASSUME NEW w \in Workers, WorkerNext(w)
      PROVE  UNCHANGED Contract!cvars
  BY <1>3, <1>4
     DEF WorkerNext, WorkerReceive, WorkerEnqueue, WorkerTick, WorkerFlushed,
         WorkerStop, DrainReceive, DrainEnqueue, DrainDone, Receive, Enqueue,
         calls, stop
<1>5. ASSUME NEW f \in Flushers, FlushNext(f)
      PROVE  Contract!Mark
  <2>. PICK u \in Users : FlushOk(f, u) \/ FlushError(f, u)
    BY <1>5 DEF FlushNext
  <2>1. PICK S \in {{}, Share(f, u)} : marked' = marked \cup S
    BY DEF FlushOk, FlushError
  <2>2. Share(f, u) \subseteq AcceptedPairs
    BY InBatchesMember DEF Share, IInv, Conserved, Pending
  <2>3. main # "ok"
    BY ActorsAssumption DEF FlushOk, FlushError, Flushing, Flushers, IInv, StopInv
  <2>4. call' = call /\ main' = main /\ owed' = owed
    BY DEF FlushOk, FlushError, calls, stop
  <2>5. PhaseOf(main) # "ok"
    BY <1>1, <2>3 DEF PhaseOf, MainLabels
  <2>. QED BY <2>1, <2>2, <2>4, <2>5, ContractPairs DEF Contract!Mark, AnswerOf, PhaseOf
<1>6. CASE MainNext
  <2>1. call' = call /\ marked' = marked
    BY <1>6 DEF MainNext, BeginShutdown, CloseStop, Deadline, WorkersDone, GiveUp,
                FlushLoop, Flushed, TimerFires, calls
  <2>2. CASE CloseStop
    <3>1. Contract!Stop
      BY <2>1, <2>2, ContractPairs
         DEF CloseStop, MainStep, Contract!Stop, PhaseOf, AnswerOf
    <3>. QED BY <3>1 DEF Contract!Next
  <2>3. CASE GiveUp \/ Flushed
    <3>1. owed' = owed /\ PhaseOf(main) = "stopping"
      BY <2>3 DEF GiveUp, Flushed, MainStep, PhaseOf, stop
    <3>2. main' = "ok" => owed \subseteq marked
      BY <2>1, <3>1 DEF ShutdownFlushed
    <3>3. CASE main' \in {"ok", "failed"}
      <4>1. PhaseOf(main') = main'
        BY <3>3 DEF PhaseOf
      <4>2. Contract!Finish
        BY <2>1, <3>1, <3>2, <3>3, <4>1 DEF Contract!Finish, AnswerOf
      <4>. QED BY <4>2 DEF Contract!Next
    <3>4. CASE main' = "sleep"
      <4>1. PhaseOf(main') = "stopping"
        BY <3>4 DEF PhaseOf
      <4>. QED BY <2>1, <3>1, <4>1 DEF Contract!cvars, AnswerOf
    <3>. QED BY <2>3, <3>3, <3>4 DEF GiveUp, Flushed, MainStep
  <2>4. CASE BeginShutdown \/ Deadline \/ WorkersDone \/ FlushLoop \/ TimerFires
    BY <2>1, <2>4
       DEF BeginShutdown, Deadline, WorkersDone, FlushLoop, TimerFires, MainStep,
           PhaseOf, AnswerOf, Contract!cvars
  <2>. QED BY <1>6, <2>2, <2>3, <2>4 DEF MainNext
<1>7. CASE UNCHANGED vars
  BY <1>3, <1>7 DEF vars
<1>. QED BY <1>2, <1>4, <1>5, <1>6, <1>7 DEF Next, Terminated, Contract!Next

\* The pipeline implements the contract: calls are answered once, only accepted
\* deletions are marked, and a successful Shutdown has marked what it owes.
THEOREM Refinement == Spec => ImplementsContract
BY ContractInit, ContractNext, Invariance, ShutdownFlushedSafe, PTL
   DEF Spec, ImplementsContract, Contract!Spec
=============================================================================
