--------------------------- MODULE DeletionContract ---------------------------
(***************************************************************************)
(* What ShortenerService promises about asynchronous deletion              *)
(* (internal/service/service.go), with no channel, queue or worker: a call *)
(* of DeleteUserURLs is answered once; only what an accepted call asked    *)
(* for is ever marked deleted; and Shutdown reports success only when      *)
(* everything accepted before the stop signal is marked, after which       *)
(* nothing is marked any more.                                             *)
(***************************************************************************)

CONSTANTS Callers,   \* calls of DeleteUserURLs
          Users,     \* user identifiers
          Shorts,    \* short identifiers
          ReqUser,   \* the user of each call
          ReqShorts  \* the short identifiers each call wants deleted

VARIABLES answer,    \* what each call returned
          marked,    \* pairs <<user, short>> marked deleted in the repository
          phase,     \* of the service
          owed       \* pairs accepted when the stop signal was given

cvars == <<answer, marked, phase, owed>>

Asked(c) == {ReqUser[c]} \X ReqShorts[c]

AcceptedPairs == UNION {Asked(c) : c \in {d \in Callers : answer[d] = "accepted"}}

Init ==
  /\ answer = [c \in Callers |-> "none"]
  /\ marked = {}
  /\ phase = "open"
  /\ owed = {}

Answer(c) ==
  /\ answer[c] = "none"
  /\ \E a \in {"accepted", "refused"} : answer' = [answer EXCEPT ![c] = a]
  /\ UNCHANGED <<marked, phase, owed>>

\* A failed Shutdown does not stop the marking; a successful one does.
Mark ==
  /\ phase # "ok"
  /\ \E S \in SUBSET AcceptedPairs : marked' = marked \cup S
  /\ UNCHANGED <<answer, phase, owed>>

Stop ==
  /\ phase = "open"
  /\ phase' = "stopping"
  /\ owed' = AcceptedPairs
  /\ UNCHANGED <<answer, marked>>

Finish ==
  /\ phase = "stopping"
  /\ \/ owed \subseteq marked /\ phase' = "ok"
     \/ phase' = "failed"
  /\ UNCHANGED <<answer, marked, owed>>

Next == (\E c \in Callers : Answer(c)) \/ Mark \/ Stop \/ Finish

Spec == Init /\ [][Next]_cvars
===============================================================================
