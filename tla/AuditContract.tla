---------------------------- MODULE AuditContract -----------------------------
(***************************************************************************)
(* What the audit service promises (internal/audit/service.go), with no    *)
(* queue, goroutine or observer: an event is refused only once the service *)
(* stops; only accepted events are offered; and when Close returns, all    *)
(* that was accepted before it has been offered to every observer, and     *)
(* nothing is offered any more.                                            *)
(***************************************************************************)

CONSTANT Events

VARIABLES answer,   \* what became of each event passed to Notify
          offered,  \* events that every observer has been offered
          phase,    \* of the service
          owed      \* events accepted when the stop signal was given

avars == <<answer, offered, phase, owed>>

Accepted == {e \in Events : answer[e] = "accepted"}

Init ==
  /\ answer = [e \in Events |-> "none"]
  /\ offered = {} /\ phase = "open" /\ owed = {}

Answer(e) ==
  /\ answer[e] = "none"
  /\ \/ answer' = [answer EXCEPT ![e] = "accepted"]
     \/ phase # "open" /\ answer' = [answer EXCEPT ![e] = "refused"]
  /\ UNCHANGED <<offered, phase, owed>>

Offer ==
  /\ phase # "closed"
  /\ \E e \in Accepted : offered' = offered \cup {e}
  /\ UNCHANGED <<answer, phase, owed>>

Stop ==
  /\ phase = "open"
  /\ phase' = "closing" /\ owed' = Accepted
  /\ UNCHANGED <<answer, offered>>

Closed ==
  /\ phase = "closing" /\ owed \subseteq offered
  /\ phase' = "closed"
  /\ UNCHANGED <<answer, offered, owed>>

Next == (\E e \in Events : Answer(e)) \/ Offer \/ Stop \/ Closed

Spec == Init /\ [][Next]_avars
===============================================================================
