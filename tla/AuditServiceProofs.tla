-------------------------- MODULE AuditServiceProofs --------------------------
(***************************************************************************)
(* Proofs about AuditService, for any number of events, calls of Close and *)
(* observers and any size of the queue.                                    *)
(***************************************************************************)
EXTENDS AuditService, SequenceTheorems, TLAPS

\* run holds an event only while it delivers one.
HoldInv == IF runner \in {"deliver", "drainDeliver"} THEN current \in Events
           ELSE current = NoEvent

TypeInv == TypeOK /\ HoldInv

-----------------------------------------------------------------------------
LEMMA TypeInit == Init => TypeInv
<1>. SUFFICES ASSUME Init
              PROVE  TypeInv
  OBVIOUS
<1>. USE DEF Init
<1>1. events \in Seq(Events) /\ Len(events) <= QueueSize
  BY QueueAssumption
<1>2. accepted \in Seq(Events) /\ owed \in Seq(Events) /\ offered \in [Observers -> Seq(Events)]
  OBVIOUS
<1>3. turn \in 1 .. NumObservers + 1 /\ closing \in [Closers -> 1 .. NumObservers + 1]
  BY ObserverAssumption
<1>. QED BY <1>1, <1>2, <1>3 DEF TypeInv, TypeOK, HoldInv

LEMMA TypeNext == TypeInv /\ [Next]_vars => TypeInv'
<1>. SUFFICES ASSUME TypeInv, [Next]_vars
              PROVE  TypeInv'
  OBVIOUS
<1>. USE ObserverAssumption, QueueAssumption, EventAssumption
     DEF TypeInv, TypeOK, HoldInv, producers, run, close, Observers
<1>1. ASSUME NEW e \in Events, NotifyNext(e) PROVE TypeInv'
  <2>1. CASE Call(e)
    BY <2>1 DEF Call
  <2>2. CASE Send(e)
    <3>1. /\ events' \in Seq(Events) /\ Len(events') = Len(events) + 1
          /\ accepted' \in Seq(Events) /\ Len(events) \in Nat
      BY <2>2, AppendProperties, LenProperties DEF Send
    <3>. QED BY <2>2, <3>1 DEF Send
  <2>3. CASE Drop(e)
    BY <2>3 DEF Drop
  <2>. QED BY <1>1, <2>1, <2>2, <2>3 DEF NotifyNext
<1>2. CASE RunNext
  <2>1. CASE Receive
    <3>1. /\ Head(events) \in Events /\ events' \in Seq(Events)
          /\ Len(events') = Len(events) - 1
      BY <2>1, HeadTailProperties DEF Receive
    <3>. QED BY <2>1, <3>1 DEF Receive
  <2>2. CASE Offer
    <3>1. turn \in Observers /\ current \in Events
      BY <2>2 DEF Offer, Delivering
    <3>2. Append(offered[turn], current) \in Seq(Events)
      BY <3>1, AppendProperties
    <3>3. file' \in [FileObservers -> {"unopened", "open", "closed"}]
      BY <2>2 DEF Offer, CallObserver
    <3>. QED BY <2>2, <3>1, <3>2, <3>3 DEF Offer
  <2>3. CASE Delivered
    BY <2>3 DEF Delivered
  <2>4. CASE Stop
    BY <2>4 DEF Stop
  <2>5. CASE Exit
    BY <2>5 DEF Exit
  <2>. QED BY <1>2, <2>1, <2>2, <2>3, <2>4, <2>5 DEF RunNext
<1>3. ASSUME NEW k \in Closers, CloseNext(k) PROVE TypeInv'
  <2>1. CASE BeginClose(k)
    BY <2>1 DEF BeginClose
  <2>2. CASE Joined(k)
    BY <2>2 DEF Joined
  <2>3. CASE CloseObserver(k)
    <3>1. closing' \in [Closers -> 1 .. NumObservers + 1]
      BY <2>3 DEF CloseObserver
    <3>2. file' \in [FileObservers -> {"unopened", "open", "closed"}]
      BY <2>3 DEF CloseObserver
    <3>. QED BY <2>3, <3>1, <3>2 DEF CloseObserver
  <2>4. CASE Closed(k)
    BY <2>4 DEF Closed
  <2>. QED BY <1>3, <2>1, <2>2, <2>3, <2>4 DEF CloseNext
<1>4. CASE UNCHANGED vars
  BY <1>4 DEF vars
<1>. QED BY <1>1, <1>2, <1>3, <1>4 DEF Next, Terminated

\* Every variable keeps its type, and run holds an event just while it delivers.
THEOREM TypeCorrect == Spec => []TypeInv
BY TypeInit, TypeNext, PTL DEF Spec

\* The type invariant the run checks: the queue stays within its size.
THEOREM TypeSafe == Spec => []TypeOK
<1>1. TypeInv => TypeOK
  BY DEF TypeInv
<1>. QED BY <1>1, TypeCorrect, PTL

-----------------------------------------------------------------------------
(* Order *)

LEMMA ConcatAppend ==
  ASSUME NEW S, NEW s \in Seq(S), NEW t \in Seq(S), NEW x \in S
  PROVE  Append(s \o t, x) = s \o Append(t, x)
<1>. DEFINE u == <<x>>
<1>1. u \in Seq(S) /\ s \o t \in Seq(S)
  BY ConcatProperties
<1>2. Append(s \o t, x) = (s \o t) \o u /\ Append(t, x) = t \o u
  BY <1>1, AppendIsConcat
<1>. HIDE DEF u
<1>3. (s \o t) \o u = s \o (t \o u)
  BY <1>1, ConcatAssociative
<1>. QED BY <1>2, <1>3

\* The same for the sequences of events.
LEMMA AppendToQueue ==
  \A s, t \in Seq(Events), x \in Events : s \o Append(t, x) = Append(s \o t, x)
BY ConcatAppend

LEMMA HeadConcatTail ==
  ASSUME NEW S, NEW s \in Seq(S), s # <<>>
  PROVE  <<Head(s)>> \o Tail(s) = s
<1>. DEFINE h == <<Head(s)>>
            r == Tail(s)
<1>1. /\ h \in Seq(S) /\ Len(h) = 1 /\ h[1] = s[1]
      /\ r \in Seq(S) /\ Len(s) \in Nat \ {0} /\ Len(r) = Len(s) - 1
      /\ \A i \in 1 .. Len(r) : r[i] = s[i + 1]
  BY HeadTailProperties, EmptySeq, LenProperties
<1>. HIDE DEF h, r
<1>2. h \in Seq(S) /\ r \in Seq(S)
  BY <1>1
<1>3. /\ h \o r \in Seq(S) /\ Len(h \o r) = Len(h) + Len(r)
      /\ \A i \in 1 .. Len(h) + Len(r) :
           (h \o r)[i] = IF i <= Len(h) THEN h[i] ELSE r[i - Len(h)]
  BY <1>2, ConcatProperties
<1>4. Len(h \o r) = Len(s)
  BY <1>1, <1>3
<1>5. ASSUME NEW i \in 1 .. Len(h \o r) PROVE (h \o r)[i] = s[i]
  BY <1>1, <1>3
<1>6. h \o r = s
  BY <1>3, <1>4, <1>5, SeqEqual
<1>. QED BY <1>6 DEF h, r

LEMMA MoveHead ==
  ASSUME NEW S, NEW s \in Seq(S), NEW t \in Seq(S), t # <<>>
  PROVE  (s \o <<Head(t)>>) \o Tail(t) = s \o t
<1>. DEFINE h == <<Head(t)>>
            r == Tail(t)
<1>1. h \in Seq(S) /\ r \in Seq(S)
  BY HeadTailProperties
<1>2. h \o r = t
  BY HeadConcatTail
<1>. HIDE DEF h, r
<1>3. (s \o h) \o r = s \o (h \o r)
  BY <1>1, ConcatAssociative
<1>4. (s \o h) \o r = s \o t
  BY <1>2, <1>3
<1>. QED BY <1>4 DEF h, r

LEMMA HeldType ==
  ASSUME TypeInv, NEW o \in Observers
  PROVE  Held(o) \in Seq(Events)
BY DEF TypeInv, TypeOK, HoldInv, Held

LEMMA OrderInit == Init => OfferedInOrder
BY ConcatEmptySeq DEF Init, OfferedInOrder, Held

LEMMA OrderNext == TypeInv /\ OfferedInOrder /\ [Next]_vars => OfferedInOrder'
<1>. SUFFICES ASSUME TypeInv, OfferedInOrder, [Next]_vars, NEW o \in Observers
              PROVE  (accepted = offered[o] \o Held(o) \o events)'
  BY DEF OfferedInOrder, Observers
<1>. TypeOK /\ HoldInv
  BY DEF TypeInv
<1>0. offered[o] \in Seq(Events) /\ Held(o) \in Seq(Events) /\ events \in Seq(Events)
  BY HeldType DEF TypeOK
<1>00. accepted = offered[o] \o Held(o) \o events
  BY DEF OfferedInOrder
<1>. USE DEF producers, run, close
<1>1. CASE UNCHANGED <<accepted, offered, runner, turn, current, events>>
  BY <1>1, <1>00 DEF Held
<1>2. ASSUME NEW e \in Events, Send(e)
      PROVE  (accepted = offered[o] \o Held(o) \o events)'
  <2>. DEFINE taken == offered[o] \o Held(o)
  <2>1. taken \in Seq(Events)
    BY <1>0, ConcatProperties
  <2>2. taken' = taken
    BY <1>2 DEF Send, Held
  <2>0. accepted = taken \o events
    BY <1>00
  <2>. HIDE DEF taken
  <2>3. Append(taken \o events, e) = taken \o Append(events, e)
    BY <2>1, <1>0, AppendToQueue
  <2>4. accepted' = taken' \o events'
    BY <1>2, <2>0, <2>2, <2>3 DEF Send
  <2>. QED BY <2>4 DEF taken
<1>3. CASE Receive
  <2>1. Held(o) = <<>> /\ Held(o)' = <<Head(events)>>
    BY <1>3, ObserverAssumption DEF Receive, Held, Observers
  <2>2. <<Head(events)>> \in Seq(Events) /\ Tail(events) \in Seq(Events)
    BY <1>0, <1>3, HeadTailProperties DEF Receive
  <2>3. (offered[o] \o <<Head(events)>>) \o Tail(events) = offered[o] \o events
    BY <1>0, <1>3, MoveHead DEF Receive
  <2>4. offered[o] \o Held(o) = offered[o]
    BY <1>0, <2>1, ConcatEmptySeq
  <2>. QED BY <1>00, <1>3, <2>1, <2>3, <2>4 DEF Receive
<1>4. CASE Offer
  <2>0. turn \in Nat /\ o \in Nat /\ current \in Events
    BY <1>4, ObserverAssumption DEF TypeOK, HoldInv, Offer, Delivering, Observers
  <2>1. CASE o = turn
    <3>1. Held(o) = <<current>> /\ Held(o)' = <<>>
      BY <1>4, <2>0, <2>1 DEF Offer, Delivering, Held
    <3>2. offered'[o] = offered[o] \o <<current>>
      BY <1>0, <1>4, <2>0, <2>1, AppendIsConcat DEF Offer, TypeOK
    <3>3. offered'[o] \in Seq(Events)
      BY <1>0, <2>0, <3>1, <3>2, ConcatProperties
    <3>4. offered'[o] \o <<>> = offered'[o]
      BY <3>3, ConcatEmptySeq
    <3>. QED BY <1>00, <1>4, <3>1, <3>2, <3>4 DEF Offer
  <2>2. CASE o # turn
    <3>1. Held(o)' = Held(o) /\ offered'[o] = offered[o]
      BY <1>4, <2>0, <2>2 DEF Offer, Delivering, Held, TypeOK
    <3>. QED BY <1>00, <1>4, <3>1 DEF Offer
  <2>. QED BY <2>1, <2>2
<1>5. CASE Delivered
  <2>1. Held(o) = <<>> /\ Held(o)' = <<>>
    BY <1>5, ObserverAssumption DEF Delivered, Held, Observers, TypeOK
  <2>. QED BY <1>00, <1>5, <2>1 DEF Delivered
<1>6. CASE Stop \/ Exit
  <2>1. Held(o) = <<>> /\ Held(o)' = <<>>
    BY <1>6 DEF Stop, Exit, Held
  <2>. QED BY <1>00, <1>6, <2>1 DEF Stop, Exit
<1>. QED
  BY <1>1, <1>2, <1>3, <1>4, <1>5, <1>6
     DEF Next, NotifyNext, RunNext, CloseNext, Call, Drop, BeginClose, Joined,
         CloseObserver, Closed, Terminated, vars

\* For each observer, what it was offered, what run holds for it and what is
\* queued are what was accepted, in this order, however many observers there are.
THEOREM OrderSafe == Spec => []OfferedInOrder
BY OrderInit, OrderNext, TypeCorrect, PTL DEF Spec

-----------------------------------------------------------------------------
(* Prefixes and elements *)

LEMMA PrefixByElements ==
  \A s, t \in Seq(Events) :
    IsPrefix(s, t) <=> Len(s) <= Len(t) /\ \A i \in 1 .. Len(s) : s[i] = t[i]
<1>. SUFFICES ASSUME NEW s \in Seq(Events), NEW t \in Seq(Events), Len(s) <= Len(t)
              PROVE  SubSeq(s, 1, Len(s)) = SubSeq(t, 1, Len(s))
                       <=> \A i \in 1 .. Len(s) : s[i] = t[i]
  BY DEF IsPrefix
<1>1. /\ Len(s) \in Nat /\ Len(t) \in Nat
      /\ \A i \in 1 .. Len(s) : s[i] \in Events /\ t[i] \in Events
  BY ElementOfSeq
<1>. DEFINE u == SubSeq(s, 1, Len(s))
            v == SubSeq(t, 1, Len(s))
<1>2. /\ u \in Seq(Events) /\ Len(u) = Len(s)
      /\ \A i \in 1 .. Len(s) : u[i] = s[i]
  BY <1>1, SubSeqProperties
<1>3. /\ v \in Seq(Events) /\ Len(v) = Len(s)
      /\ \A i \in 1 .. Len(s) : v[i] = t[i]
  BY <1>1, SubSeqProperties
<1>. HIDE DEF u, v
<1>4. u = v <=> \A i \in 1 .. Len(s) : u[i] = v[i]
  BY <1>2, <1>3, SeqEqual
<1>5. u = v <=> \A i \in 1 .. Len(s) : s[i] = t[i]
  BY <1>2, <1>3, <1>4
<1>. QED BY <1>5 DEF u, v

LEMMA PrefixOfAppend ==
  \A s, t \in Seq(Events), e \in Events : IsPrefix(s, t) => IsPrefix(s, Append(t, e))
<1>. SUFFICES ASSUME NEW s \in Seq(Events), NEW t \in Seq(Events), NEW e \in Events,
                     IsPrefix(s, t)
              PROVE  IsPrefix(s, Append(t, e))
  OBVIOUS
<1>1. Len(s) <= Len(t) /\ \A i \in 1 .. Len(s) : s[i] = t[i]
  BY PrefixByElements
<1>. DEFINE u == Append(t, e)
<1>2. /\ u \in Seq(Events) /\ Len(u) = Len(t) + 1
      /\ \A i \in 1 .. Len(t) : u[i] = t[i]
      /\ Len(s) \in Nat /\ Len(t) \in Nat
  BY AppendProperties, LenProperties
<1>. HIDE DEF u
<1>3. IsPrefix(s, u)
  BY <1>1, <1>2, PrefixByElements
<1>. QED BY <1>3 DEF u

LEMMA PrefixOfSelf == \A s \in Seq(Events) : IsPrefix(s, s)
BY PrefixByElements, LenProperties

LEMMA ElementsOfPrefix ==
  \A s, t \in Seq(Events) : IsPrefix(s, t) => ToSet(s) \subseteq ToSet(t)
<1>. SUFFICES ASSUME NEW s \in Seq(Events), NEW t \in Seq(Events), IsPrefix(s, t)
              PROVE  ToSet(s) \subseteq ToSet(t)
  OBVIOUS
<1>1. Len(s) <= Len(t) /\ \A i \in 1 .. Len(s) : s[i] = t[i]
  BY PrefixByElements
<1>2. DOMAIN s = 1 .. Len(s) /\ DOMAIN t = 1 .. Len(t) /\ Len(s) \in Nat /\ Len(t) \in Nat
  BY LenProperties
<1>. QED BY <1>1, <1>2 DEF ToSet

LEMMA ElementsOfAppend ==
  \A s \in Seq(Events), e \in Events : ToSet(Append(s, e)) = ToSet(s) \cup {e}
<1>. SUFFICES ASSUME NEW s \in Seq(Events), NEW e \in Events
              PROVE  ToSet(Append(s, e)) = ToSet(s) \cup {e}
  OBVIOUS
<1>1. /\ Append(s, e) \in Seq(Events) /\ Len(Append(s, e)) = Len(s) + 1
      /\ \A i \in 1 .. Len(s) : Append(s, e)[i] = s[i]
      /\ Append(s, e)[Len(s) + 1] = e
      /\ Len(s) \in Nat /\ DOMAIN s = 1 .. Len(s)
      /\ DOMAIN Append(s, e) = 1 .. Len(s) + 1
  BY AppendProperties, LenProperties
<1>. QED BY <1>1 DEF ToSet

-----------------------------------------------------------------------------
(* The stop *)

\* What run has and what waits for it was accepted, and so was the history.
QueuedInv ==
  /\ ToSet(accepted) = {e \in Events : notify[e] = "queued"}
  /\ \A i \in 1 .. Len(events) : notify[events[i]] = "queued"
  /\ current # NoEvent => notify[current] = "queued"

\* The order of the stop: the signal, the end of run, the observers' closing.
StopInv ==
  /\ runner \in {"drain", "drainDeliver", "exited"} => done
  /\ \A k \in Closers :
       /\ closer[k] # "start" => done
       /\ closer[k] \in {"closing", "returned"} => runner = "exited"
       /\ closer[k] = "returned" => closing[k] > NumObservers
       /\ \A o \in FileObservers : o < closing[k] => file[o] = "closed"
  /\ (\E o \in FileObservers : file[o] = "closed") => runner = "exited"

\* What was accepted before the signal stays at the head of what was accepted, and
\* once run has left every observer has been offered it.
OwedInv ==
  /\ IsPrefix(owed, accepted)
  /\ runner = "exited" => \A o \in Observers : IsPrefix(owed, offered[o])

IInv == TypeInv /\ OfferedInOrder /\ QueuedInv /\ StopInv /\ OwedInv

LEMMA QueuedInit == Init => QueuedInv
BY DEF Init, QueuedInv, ToSet

LEMMA QueuedNext == TypeInv /\ QueuedInv /\ [Next]_vars => QueuedInv'
<1>. SUFFICES ASSUME TypeInv, QueuedInv, [Next]_vars
              PROVE  QueuedInv'
  OBVIOUS
<1>. TypeOK /\ HoldInv
  BY DEF TypeInv
<1>. USE EventAssumption DEF producers, run, close
<1>1. CASE UNCHANGED <<accepted, notify, current, events>>
  BY <1>1 DEF QueuedInv
<1>2. ASSUME NEW e \in Events, Call(e) \/ Drop(e) PROVE QueuedInv'
  <2>1. \A f \in Events : notify'[f] = "queued" <=> notify[f] = "queued"
    BY <1>2 DEF Call, Drop, TypeOK
  <2>2. \A i \in 1 .. Len(events) : events[i] \in Events
    BY ElementOfSeq DEF TypeOK
  <2>3. UNCHANGED <<accepted, events, current>>
    BY <1>2 DEF Call, Drop
  <2>. QED BY <2>1, <2>2, <2>3 DEF QueuedInv, TypeOK
<1>3. ASSUME NEW e \in Events, Send(e) PROVE QueuedInv'
  <2>1. /\ \A f \in Events : notify'[f] = IF f = e THEN "queued" ELSE notify[f]
        /\ current' = current
    BY <1>3 DEF Send, TypeOK
  <2>2. ToSet(accepted') = ToSet(accepted) \cup {e}
    BY <1>3, ElementsOfAppend DEF Send, TypeOK
  <2>3. /\ \A i \in 1 .. Len(events) : events[i] \in Events /\ events'[i] = events[i]
        /\ Len(events') = Len(events) + 1 /\ events'[Len(events) + 1] = e
        /\ Len(events) \in Nat
    BY <1>3, ElementOfSeq, AppendProperties, LenProperties DEF Send, TypeOK
  <2>4. \A i \in 1 .. Len(events') : notify'[events'[i]] = "queued"
    BY <2>1, <2>3 DEF QueuedInv
  <2>. QED BY <2>1, <2>2, <2>4 DEF QueuedInv, TypeOK
<1>4. CASE Receive
  <2>1. /\ Len(events') = Len(events) - 1 /\ Len(events) \in Nat \ {0}
        /\ \A i \in 1 .. Len(events') : events'[i] = events[i + 1]
        /\ current' = events[1]
    BY <1>4, HeadTailProperties, EmptySeq, LenProperties DEF Receive, TypeOK
  <2>. QED BY <1>4, <2>1 DEF Receive, QueuedInv
<1>5. CASE Delivered
  BY <1>5 DEF Delivered, QueuedInv
<1>. QED
  BY <1>1, <1>2, <1>3, <1>4, <1>5
     DEF Next, NotifyNext, RunNext, CloseNext, Offer, Stop, Exit, BeginClose,
         Joined, CloseObserver, Closed, Terminated, vars

LEMMA StopInit == Init => StopInv
BY ObserverAssumption DEF Init, StopInv, Observers

LEMMA StopNext == TypeInv /\ StopInv /\ [Next]_vars => StopInv'
<1>. SUFFICES ASSUME TypeInv, StopInv, [Next]_vars
              PROVE  StopInv'
  OBVIOUS
<1>. TypeOK
  BY DEF TypeInv
<1>. USE ObserverAssumption DEF producers, run, close, Observers
<1>1. CASE UNCHANGED <<runner, done, closer, closing, file>>
  BY <1>1 DEF StopInv
<1>2. CASE Receive
  BY <1>2 DEF Receive, StopInv
<1>3. CASE Offer
  <2>1. \A o \in FileObservers : file'[o] = "closed" <=> file[o] = "closed"
    BY <1>3 DEF Offer, CallObserver, TypeOK
  <2>. QED BY <1>3, <2>1 DEF Offer, StopInv
<1>4. CASE Delivered \/ Stop \/ Exit
  BY <1>4 DEF Delivered, Stop, Exit, StopInv
<1>5. ASSUME NEW k \in Closers, BeginClose(k) PROVE StopInv'
  BY <1>5 DEF BeginClose, StopInv, TypeOK
<1>6. ASSUME NEW k \in Closers, Joined(k) PROVE StopInv'
  BY <1>6 DEF Joined, StopInv, TypeOK
<1>7. ASSUME NEW k \in Closers, CloseObserver(k) PROVE StopInv'
  <2>1. /\ closing[k] \in Nat
        /\ \A l \in Closers : closing'[l] = IF l = k THEN closing[k] + 1 ELSE closing[l]
        /\ \A o \in FileObservers :
             o \in Nat /\ file'[o] = IF o = closing[k] THEN "closed" ELSE file[o]
    BY <1>7 DEF CloseObserver, TypeOK
  <2>2. \A l \in Closers : \A o \in FileObservers : o < closing'[l] => file'[o] = "closed"
    <3>. SUFFICES ASSUME NEW l \in Closers, NEW o \in FileObservers, o < closing'[l]
                  PROVE  file'[o] = "closed"
      OBVIOUS
    <3>1. CASE l = k
      <4>1. o < closing[k] \/ o = closing[k]
        BY <2>1, <3>1
      <4>. QED BY <2>1, <4>1 DEF StopInv
    <3>2. CASE l # k
      BY <2>1, <3>2 DEF StopInv
    <3>. QED BY <3>1, <3>2
  <2>3. runner = "exited"
    BY <1>7 DEF CloseObserver, StopInv
  <2>4. \A l \in Closers : closer'[l] = "returned" => closing'[l] > NumObservers
    BY <1>7, <2>1 DEF CloseObserver, StopInv
  <2>. QED BY <1>7, <2>2, <2>3, <2>4 DEF CloseObserver, StopInv
<1>8. ASSUME NEW k \in Closers, Closed(k) PROVE StopInv'
  BY <1>8 DEF Closed, StopInv, TypeOK
<1>. QED
  BY <1>1, <1>2, <1>3, <1>4, <1>5, <1>6, <1>7, <1>8
     DEF Next, NotifyNext, RunNext, CloseNext, Call, Send, Drop, Terminated, vars

LEMMA OwedInit == Init => OwedInv
<1>. SUFFICES ASSUME Init
              PROVE  OwedInv
  OBVIOUS
<1>1. owed \in Seq(Events) /\ accepted = owed
  BY DEF Init
<1>2. IsPrefix(owed, accepted)
  BY <1>1, PrefixOfSelf
<1>. QED BY <1>2 DEF Init, OwedInv

LEMMA OwedNext ==
  TypeInv /\ OfferedInOrder /\ StopInv /\ OwedInv /\ [Next]_vars => OwedInv'
<1>. SUFFICES ASSUME TypeInv, OfferedInOrder, StopInv, OwedInv, [Next]_vars
              PROVE  OwedInv'
  OBVIOUS
<1>. TypeOK
  BY DEF TypeInv
<1>. USE DEF producers, run, close
<1>1. CASE UNCHANGED <<runner, owed, accepted, offered>>
  BY <1>1 DEF OwedInv
<1>2. ASSUME NEW e \in Events, Send(e) PROVE OwedInv'
  <2>1. IsPrefix(owed, Append(accepted, e))
    BY PrefixOfAppend DEF OwedInv, TypeOK
  <2>. QED BY <1>2, <2>1 DEF Send, OwedInv
<1>3. CASE Receive \/ Offer \/ Delivered \/ Stop
  BY <1>3 DEF Receive, Offer, Delivering, Delivered, Stop, OwedInv
<1>4. CASE Exit
  <2>1. ASSUME NEW o \in Observers PROVE IsPrefix(owed, offered[o])
    <3>1. accepted = offered[o] \o <<>> \o <<>> /\ offered[o] \in Seq(Events)
      BY <1>4 DEF Exit, OfferedInOrder, Held, TypeOK
    <3>2. offered[o] \o <<>> = offered[o]
      BY <3>1, ConcatEmptySeq
    <3>. QED BY <3>1, <3>2 DEF OwedInv
  <2>. QED BY <1>4, <2>1 DEF Exit, OwedInv
<1>5. ASSUME NEW k \in Closers, BeginClose(k) PROVE OwedInv'
  <2>1. CASE done
    BY <1>5, <2>1 DEF BeginClose, OwedInv
  <2>2. CASE ~done
    <3>1. runner # "exited" /\ IsPrefix(accepted, accepted)
      BY <2>2, PrefixOfSelf DEF StopInv, TypeOK
    <3>. QED BY <1>5, <2>2, <3>1 DEF BeginClose, OwedInv
  <2>. QED BY <2>1, <2>2
<1>. QED
  BY <1>1, <1>2, <1>3, <1>4, <1>5
     DEF Next, NotifyNext, RunNext, CloseNext, Call, Drop, Joined, CloseObserver,
         Closed, Terminated, vars

\* The inductive invariant behind CloseFlushes and the refinement: the order of the
\* queue, the order of the stop, and the debt of the stop signal.
THEOREM Invariance == Spec => []IInv
<1>1. Init => IInv
  BY TypeInit, OrderInit, QueuedInit, StopInit, OwedInit DEF IInv
<1>2. IInv /\ [Next]_vars => IInv'
  BY TypeNext, OrderNext, QueuedNext, StopNext, OwedNext DEF IInv
<1>. QED BY <1>1, <1>2, PTL DEF Spec

\* When a Close returns, every observer has been offered all that was accepted
\* before the first Close and every file is closed, and run never calls an observer
\* whose file is closed.
THEOREM CloseFlushesSafe == Spec => []CloseFlushes
<1>1. IInv => CloseFlushes
  <2>. SUFFICES ASSUME IInv
                PROVE  CloseFlushes
    OBVIOUS
  <2>. USE ObserverAssumption DEF IInv, TypeInv, TypeOK, StopInv, OwedInv, Observers
  <2>1. ASSUME NEW k \in Closers, closer[k] = "returned", NEW o \in FileObservers
        PROVE  file[o] = "closed"
    <3>1. o \in 1 .. NumObservers /\ closing[k] \in Nat /\ closing[k] > NumObservers
      BY <2>1
    <3>. QED BY <2>1, <3>1
  <2>. QED BY <2>1 DEF CloseFlushes
<1>. QED BY <1>1, Invariance, PTL

-----------------------------------------------------------------------------
(* Refinement *)

LEMMA ContractInit == NumObservers # 0 /\ Init => Contract!Init
<1>. SUFFICES ASSUME NumObservers # 0, Init
              PROVE  Contract!Init
  OBVIOUS
<1>1. 1 \in Observers
  BY ObserverAssumption DEF Observers
<1>2. ToSet(offered[1]) = {} /\ ToSet(owed) = {}
  BY <1>1 DEF Init, ToSet
<1>. QED BY <1>1, <1>2 DEF Init, Contract!Init

LEMMA ContractNext ==
  NumObservers # 0 /\ IInv /\ IInv' /\ [Next]_vars => [Contract!Next]_(Contract!avars)
<1>. SUFFICES ASSUME NumObservers # 0, IInv, IInv', [Next]_vars
              PROVE  Contract!Next \/ UNCHANGED Contract!avars
  BY DEF Contract!avars
<1>. TypeOK /\ TypeOK' /\ HoldInv /\ OfferedInOrder /\ QueuedInv /\ QueuedInv'
     /\ StopInv /\ StopInv' /\ OwedInv /\ OwedInv'
  BY DEF IInv, TypeInv
<1>0. 1 \in Observers
  BY ObserverAssumption DEF Observers
<1>. USE DEF producers, run, close, Contract!avars, Contract!Accepted
<1>. DEFINE Answers(n) == [e \in Events |-> CASE n[e] = "queued"  -> "accepted"
                                              [] n[e] = "dropped" -> "refused"
                                              [] OTHER            -> "none"]
            OfferedTo(f) == {e \in Events : \A o \in Observers : e \in ToSet(f[o])}
            Phase(c, d) == IF \E k \in Closers : c[k] = "returned" THEN "closed"
                           ELSE IF d THEN "closing" ELSE "open"
<1>1. CASE UNCHANGED <<notify, closer, done, offered, owed>>
  BY <1>1
<1>2. ASSUME NEW e \in Events, Call(e)
      PROVE  UNCHANGED Contract!avars
  <2>1. Answers(notify') = Answers(notify)
    BY <1>2 DEF Call, TypeOK
  <2>. QED BY <1>2, <2>1 DEF Call
<1>3. ASSUME NEW e \in Events, Send(e)
      PROVE  Contract!Answer(e)
  <2>1. Answers(notify)[e] = "none"
        /\ Answers(notify') = [Answers(notify) EXCEPT ![e] = "accepted"]
    BY <1>3 DEF Send, TypeOK
  <2>. QED BY <1>3, <2>1 DEF Send, Contract!Answer
<1>4. ASSUME NEW e \in Events, Drop(e)
      PROVE  Contract!Answer(e)
  <2>1. Answers(notify)[e] = "none"
        /\ Answers(notify') = [Answers(notify) EXCEPT ![e] = "refused"]
    BY <1>4 DEF Drop, TypeOK
  <2>2. Phase(closer, done) # "open"
    BY <1>4 DEF Drop
  <2>. QED BY <1>4, <2>1, <2>2 DEF Drop, Contract!Answer
<1>5. CASE Offer
  <2>1. turn \in Observers /\ current \in Events /\ notify[current] = "queued"
    BY <1>5, ObserverAssumption, EventAssumption
       DEF Offer, Delivering, TypeOK, HoldInv, QueuedInv, Observers
  <2>2. \A o \in Observers : ToSet(offered'[o]) =
          IF o = turn THEN ToSet(offered[o]) \cup {current} ELSE ToSet(offered[o])
    BY <1>5, <2>1, ElementsOfAppend DEF Offer, TypeOK
  <2>3. OfferedTo(offered') = OfferedTo(offered)
        \/ OfferedTo(offered') = OfferedTo(offered) \cup {current}
    <3>1. CASE \A o \in Observers \ {turn} : current \in ToSet(offered[o])
      BY <2>1, <2>2, <3>1
    <3>2. CASE \E o \in Observers \ {turn} : current \notin ToSet(offered[o])
      BY <2>1, <2>2, <3>2
    <3>. QED BY <3>1, <3>2
  <2>4. Phase(closer, done) # "closed"
    BY <1>5 DEF Offer, Delivering, StopInv
  <2>5. Answers(notify)[current] = "accepted"
    BY <2>1
  <2>. QED BY <1>5, <2>1, <2>3, <2>4, <2>5 DEF Offer, Contract!Offer, Contract!Next
<1>6. ASSUME NEW k \in Closers, BeginClose(k)
      PROVE  Contract!Next \/ UNCHANGED Contract!avars
  <2>1. \A l \in Closers : closer'[l] = "returned" <=> closer[l] = "returned"
    BY <1>6 DEF BeginClose, TypeOK
  <2>2. CASE done
    BY <1>6, <2>1, <2>2 DEF BeginClose
  <2>3. CASE ~done
    <3>1. Phase(closer, done) = "open" /\ Phase(closer', done') = "closing"
      BY <1>6, <2>1, <2>3 DEF BeginClose, StopInv
    <3>2. ToSet(owed') = {e \in Events : Answers(notify)[e] = "accepted"}
      BY <1>6, <2>3 DEF BeginClose, QueuedInv
    <3>3. Contract!Stop
      BY <1>6, <3>1, <3>2 DEF BeginClose, Contract!Stop
    <3>. QED BY <3>3 DEF Contract!Next
  <2>. QED BY <2>2, <2>3
<1>7. ASSUME NEW k \in Closers, Joined(k) \/ CloseObserver(k)
      PROVE  UNCHANGED Contract!avars
  <2>1. \A l \in Closers : closer'[l] = "returned" <=> closer[l] = "returned"
    BY <1>7 DEF Joined, CloseObserver, TypeOK
  <2>. QED BY <1>7, <2>1 DEF Joined, CloseObserver
<1>8. ASSUME NEW k \in Closers, Closed(k)
      PROVE  Contract!Next \/ UNCHANGED Contract!avars
  <2>1. Phase(closer', done') = "closed" /\ closer'[k] = "returned"
    BY <1>8 DEF Closed, TypeOK
  <2>2. CASE \E l \in Closers : closer[l] = "returned"
    BY <1>8, <2>1, <2>2 DEF Closed
  <2>3. CASE ~ \E l \in Closers : closer[l] = "returned"
    <3>1. Phase(closer, done) = "closing"
      BY <1>8, <2>3 DEF Closed, StopInv
    <3>2. ToSet(owed) \subseteq OfferedTo(offered)
      <4>1. runner = "exited"
        BY <1>8 DEF Closed, StopInv
      <4>2. \A o \in Observers : ToSet(owed) \subseteq ToSet(offered[o])
        BY <4>1, ElementsOfPrefix DEF OwedInv, TypeOK
      <4>3. ToSet(owed) \subseteq Events
        BY ElementsOfPrefix DEF OwedInv, QueuedInv, TypeOK
      <4>. QED BY <4>2, <4>3
    <3>3. Contract!Closed
      BY <1>8, <2>1, <3>1, <3>2 DEF Closed, Contract!Closed
    <3>. QED BY <3>3 DEF Contract!Next
  <2>. QED BY <2>2, <2>3
<1>. QED
  BY <1>1, <1>2, <1>3, <1>4, <1>5, <1>6, <1>7, <1>8
     DEF Next, NotifyNext, RunNext, CloseNext, Receive, Delivered, Stop, Exit,
         Terminated, vars, Contract!Next

\* With an observer at least, the service implements its contract: only a stopped
\* service refuses, only what was accepted is offered, and the first Close to return
\* leaves nothing accepted before the stop to offer and nothing that runs. (Without
\* an observer every event counts as offered from the start.)
THEOREM Refinement == NumObservers # 0 => (Spec => ImplementsContract)
<1>. SUFFICES ASSUME NumObservers # 0
              PROVE  Spec => ImplementsContract
  OBVIOUS
<1>1. Init => Contract!Init
  BY ContractInit
<1>2. IInv /\ IInv' /\ [Next]_vars => [Contract!Next]_(Contract!avars)
  BY ContractNext
<1>. QED BY <1>1, <1>2, Invariance, PTL DEF Spec, ImplementsContract, Contract!Spec
===============================================================================
