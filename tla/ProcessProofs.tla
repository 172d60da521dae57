----------------------------- MODULE ProcessProofs -----------------------------
(***************************************************************************)
(* Proofs about Process, for any requests, sources and configurations.     *)
(***************************************************************************)
EXTENDS Process, TLAPS

\* Stages after both servers, and stages after the service's Stop and the audit's.
AfterServers == {"service", "workers", "audit", "flushing", "deferred", "closed", "exited"}

AnswerInv ==
  /\ answer \in [Callers -> {"none", "accepted", "refused"}]
  /\ said \in [Events -> {"none", "accepted", "refused"}]

\* A server that has been drained has no request left, and never gets one. The
\* HTTP server is settled only in the shutdown.
ServerInv ==
  /\ \A s \in {"http", "grpc"} : srv[s] = "drained" => Running(s) = {}
  /\ stage = "grpc" => srv["http"] \in {"drained", "abandoned"}
  /\ srv["http"] \in {"drained", "abandoned"} => stage \in AfterServers \cup {"grpc"} \cup Ends
  /\ srv["grpc"] \in {"drained", "abandoned"} => stage \in AfterServers \cup Ends

\* The service and the audit service are stopped only when the HTTP server is
\* settled: unless it was given up, what they accepted by then is all there is.
StopInv ==
  /\ phase # "open" =>
       /\ srv["http"] \in {"drained", "abandoned"}
       /\ srv["http"] = "drained" => Deletion!AcceptedPairs \subseteq owed
  /\ phase = "ok" => owed \subseteq marked
  /\ auditPhase # "open" =>
       /\ srv["http"] \in {"drained", "abandoned"}
       /\ srv["http"] = "drained" => Audit!Accepted \subseteq due
  /\ auditPhase = "closed" => due \subseteq offered

\* The way to the deferred calls of main leads through Close, or past a Shutdown
\* that failed.
EndInv ==
  phase = "ok" /\ stage \in {"deferred", "closed", "exited"} => auditPhase = "closed"

RefusedInv == \A e \in Events : said[e] = "refused" => srv["http"] = "abandoned"

IInv == TypeOK /\ AnswerInv /\ ServerInv /\ StopInv /\ EndInv /\ RefusedInv

-----------------------------------------------------------------------------
LEMMA InitInv == Init => IInv
<1>. SUFFICES ASSUME Init
              PROVE  IInv
  OBVIOUS
<1>. USE DEF Init, Deletion!Init, Audit!Init
<1>1. TypeOK
  BY DEF TypeOK, Ends
<1>2. AnswerInv /\ EndInv /\ RefusedInv
  BY DEF AnswerInv, EndInv, RefusedInv
<1>3. ServerInv /\ StopInv
  BY DEF ServerInv, StopInv, Running
<1>. QED BY <1>1, <1>2, <1>3 DEF IInv

LEMMA TypeNext == IInv /\ [Next]_vars => TypeOK'
<1>. SUFFICES ASSUME TypeOK, ServerInv, [Next]_vars
              PROVE  TypeOK'
  BY DEF IInv
<1>1. CASE StartNext
  BY <1>1 DEF StartNext, Configure, OpenRepository, Launch, NotifyContext, Storage, TypeOK, Ends, start
<1>2. CASE RequestNext \/ Mark \/ Offer
  BY <1>2 DEF RequestNext, Arrive, Return, Delete, Log, Leave, Mark, Offer, TypeOK, Ends, start
<1>3. CASE \E s \in DOMAIN srv : Listen(s) \/ LaunchError(s)
  BY <1>3 DEF Listen, LaunchError, TypeOK, Ends, start
<1>4. CASE Signal \/ Kill
  BY <1>4 DEF Signal, Kill, Alive, TypeOK, Ends, start
<1>5. CASE HttpDrained \/ HttpTimeout \/ GrpcDrained \/ GrpcTimeout
  BY <1>5 DEF HttpDrained, HttpTimeout, GrpcDrained, GrpcTimeout, EndHttp, EndGrpc,
              TypeOK, ServerInv, Ends, start
<1>6. CASE StopService \/ ShutdownService
  BY <1>6 DEF StopService, ShutdownService, TypeOK, Ends, start
<1>7. CASE CloseAudit \/ AuditClosed \/ CloseRepository \/ Exit
  BY <1>7 DEF CloseAudit, AuditClosed, CloseRepository, Exit, TypeOK, Ends, start
<1>8. CASE UNCHANGED vars
  BY <1>8 DEF vars, start, TypeOK, Ends
<1>. QED BY <1>1, <1>2, <1>3, <1>4, <1>5, <1>6, <1>7, <1>8 DEF Next, StageNext, Ended

\* What becomes of a server that was drained or given up: nothing any more.
LEMMA Settled ==
  IInv /\ [Next]_vars =>
    \A s \in {"http", "grpc"} : srv[s] \in {"drained", "abandoned"} => srv'[s] = srv[s]
<1>. SUFFICES ASSUME TypeOK, ServerInv, [Next]_vars, NEW s \in {"http", "grpc"},
                     srv[s] \in {"drained", "abandoned"}
              PROVE  srv'[s] = srv[s]
  BY DEF IInv
<1>. USE DEF TypeOK, ServerInv, AfterServers, Ends
<1>1. CASE StartNext
  BY <1>1 DEF StartNext, Configure, OpenRepository, Launch, NotifyContext
<1>2. CASE RequestNext \/ Mark \/ Offer
  BY <1>2 DEF RequestNext, Arrive, Return, Delete, Log, Mark, Offer
<1>3. CASE \E t \in DOMAIN srv : Listen(t) \/ LaunchError(t)
  BY <1>3 DEF Listen, LaunchError
<1>4. CASE Signal \/ Kill
  BY <1>4 DEF Signal, Kill
<1>5. CASE StageNext
  BY <1>5 DEF StageNext, HttpDrained, HttpTimeout, GrpcDrained, GrpcTimeout, EndHttp, EndGrpc,
              StopService, ShutdownService, CloseAudit, AuditClosed, CloseRepository, Exit
<1>6. CASE UNCHANGED vars
  BY <1>6 DEF vars
<1>. HIDE DEF TypeOK, ServerInv, AfterServers, Ends
<1>. QED BY <1>1, <1>2, <1>3, <1>4, <1>5, <1>6 DEF Next, Ended

\* A drained server keeps having no request.
LEMMA ServerNext == IInv /\ [Next]_vars => ServerInv'
<1>. SUFFICES ASSUME IInv, [Next]_vars
              PROVE  ServerInv'
  OBVIOUS
<1>t. TypeOK /\ TypeOK' /\ ServerInv
  BY TypeNext DEF IInv
<1>1. ASSUME NEW s \in {"http", "grpc"}, srv[s] = "drained"
      PROVE  Running(s)' = {}
  <2>. USE <1>t, <1>1 DEF TypeOK, ServerInv, Running
  <2>1. CASE \E r \in Requests : Arrive(r)
    <3>. PICK r \in Requests : Arrive(r)
      BY <2>1
    <3>1. Server(r) # s
      BY DEF Arrive, Admits
    <3>. QED BY <3>1 DEF Arrive
  <2>2. CASE \E r \in Requests : Leave(r)
    BY <2>2 DEF Leave
  <2>3. CASE UNCHANGED run
    BY <2>3
  <2>. HIDE DEF TypeOK, ServerInv, Running
  <2>4. CASE StartNext
    BY <2>4, <2>3 DEF StartNext, Configure, OpenRepository, Launch, NotifyContext
  <2>5. CASE RequestNext
    <3>1. (\E r \in Requests : Arrive(r)) \/ (\E r \in Requests : Leave(r))
      BY <2>5 DEF RequestNext, Return, Delete, Log, Requests
    <3>. QED BY <3>1, <2>1, <2>2
  <2>6. CASE Mark \/ Offer
    BY <2>6, <2>3 DEF Mark, Offer
  <2>7. CASE \E t \in DOMAIN srv : Listen(t) \/ LaunchError(t)
    BY <2>7, <2>3 DEF Listen, LaunchError
  <2>8. CASE Signal \/ Kill
    BY <2>8, <2>3 DEF Signal, Kill
  <2>9. CASE StageNext
    BY <2>9, <2>3 DEF StageNext, HttpDrained, HttpTimeout, GrpcDrained, GrpcTimeout, EndHttp, EndGrpc,
              StopService, ShutdownService, CloseAudit, AuditClosed, CloseRepository, Exit
  <2>10. CASE UNCHANGED vars
    BY <2>10, <2>3 DEF vars
  <2>. QED BY <2>4, <2>5, <2>6, <2>7, <2>8, <2>9, <2>10 DEF Next, Ended
<1>2. ASSUME NEW s \in {"http", "grpc"}, srv'[s] = "drained", srv[s] # "drained"
      PROVE  Running(s)' = {}
  <2>. USE <1>t, <1>2 DEF TypeOK
  <2>1. (HttpDrained \/ GrpcDrained) /\ Running(s) = {}
    <3>1. ~StartNext
      BY DEF StartNext, Configure, OpenRepository, Launch, NotifyContext
    <3>2. ~(RequestNext \/ Mark \/ Offer)
      BY DEF RequestNext, Arrive, Return, Delete, Log, Mark, Offer
    <3>3. ~(\E t \in DOMAIN srv : Listen(t) \/ LaunchError(t))
      BY DEF Listen, LaunchError
    <3>4. ~(Signal \/ Kill)
      BY DEF Signal, Kill
    <3>5. ~(HttpTimeout \/ GrpcTimeout)
      BY DEF HttpTimeout, GrpcTimeout, EndHttp, EndGrpc
    <3>6. ~(StopService \/ ShutdownService \/ CloseAudit \/ AuditClosed \/ CloseRepository \/ Exit)
      BY DEF StopService, ShutdownService, CloseAudit, AuditClosed, CloseRepository, Exit
    <3>7. ~UNCHANGED vars
      BY DEF vars
    <3>8. HttpDrained \/ GrpcDrained
      BY <3>1, <3>2, <3>3, <3>4, <3>5, <3>6, <3>7 DEF Next, StageNext, Ended
    <3>9. Running(s) = {}
      BY <3>8 DEF HttpDrained, GrpcDrained, EndHttp, EndGrpc
    <3>. QED BY <3>8, <3>9
  <2>. QED BY <2>1 DEF HttpDrained, GrpcDrained, EndHttp, EndGrpc, Running
<1>. DEFINE StageInv ==
       /\ stage = "grpc" => srv["http"] \in {"drained", "abandoned"}
       /\ srv["http"] \in {"drained", "abandoned"} => stage \in AfterServers \cup {"grpc"} \cup Ends
       /\ srv["grpc"] \in {"drained", "abandoned"} => stage \in AfterServers \cup Ends
<1>3. StageInv'
  <2>. USE <1>t DEF TypeOK, ServerInv, AfterServers, Ends
  <2>1. CASE StartNext
    BY <2>1 DEF StartNext, Configure, OpenRepository, Launch, NotifyContext
  <2>2. CASE RequestNext \/ Mark \/ Offer
    BY <2>2 DEF RequestNext, Arrive, Return, Delete, Log, Mark, Offer
  <2>3. CASE \E t \in DOMAIN srv : Listen(t) \/ LaunchError(t)
    BY <2>3 DEF Listen, LaunchError
  <2>4. CASE Signal \/ Kill
    BY <2>4 DEF Signal, Kill
  <2>5. CASE HttpDrained \/ HttpTimeout \/ GrpcDrained \/ GrpcTimeout
    BY <2>5 DEF HttpDrained, HttpTimeout, GrpcDrained, GrpcTimeout, EndHttp, EndGrpc
  <2>6. CASE StopService \/ ShutdownService \/ CloseAudit \/ AuditClosed \/ CloseRepository \/ Exit
    BY <2>6 DEF StopService, ShutdownService, CloseAudit, AuditClosed, CloseRepository, Exit
  <2>7. CASE UNCHANGED vars
    BY <2>7 DEF vars
  <2>. HIDE DEF TypeOK, ServerInv, AfterServers, Ends, StageInv
  <2>. QED BY <2>1, <2>2, <2>3, <2>4, <2>5, <2>6, <2>7 DEF Next, StageNext, Ended
<1>. QED BY <1>1, <1>2, <1>3, <1>t DEF ServerInv, TypeOK, AfterServers, Ends

\* Only eight actions touch the service or the audit service.
LEMMA Frame ==
  [Next]_vars =>
    \/ \E c \in Callers : Delete(c)
    \/ \E e \in Events : Log(e)
    \/ Mark \/ Offer \/ StopService \/ ShutdownService \/ CloseAudit \/ AuditClosed
    \/ UNCHANGED <<deletion, audit>>
<1>. SUFFICES ASSUME [Next]_vars, ~UNCHANGED <<deletion, audit>>
              PROVE  \/ \E c \in Callers : Delete(c)
                     \/ \E e \in Events : Log(e)
                     \/ Mark \/ Offer \/ StopService \/ ShutdownService \/ CloseAudit \/ AuditClosed
  OBVIOUS
<1>1. ~(StartNext \/ Signal \/ Kill)
  BY DEF StartNext, Configure, OpenRepository, Launch, NotifyContext, Signal, Kill
<1>2. ~(\E r \in Requests : Arrive(r) \/ Return(r))
  BY DEF Arrive, Return
<1>3. ~(\E s \in DOMAIN srv : Listen(s) \/ LaunchError(s))
  BY DEF Listen, LaunchError
<1>4. ~(HttpDrained \/ HttpTimeout \/ GrpcDrained \/ GrpcTimeout \/ CloseRepository \/ Exit)
  BY DEF HttpDrained, HttpTimeout, GrpcDrained, GrpcTimeout, EndHttp, EndGrpc, CloseRepository, Exit
<1>5. ~UNCHANGED vars
  BY DEF vars
<1>. QED BY <1>1, <1>2, <1>3, <1>4, <1>5 DEF Next, RequestNext, StageNext, Ended

\* A deletion or an audited request that comes to an end finds the HTTP server not drained.
LEMMA NotDrained ==
  ASSUME ServerInv, NEW r \in Callers \cup Events, Leave(r)
  PROVE  srv["http"] # "drained"
BY RequestAssumption DEF ServerInv, Leave, Running, Server, Requests

LEMMA AnswerNext == IInv /\ [Next]_vars => AnswerInv'
<1>. SUFFICES ASSUME AnswerInv, [Next]_vars
              PROVE  AnswerInv'
  BY DEF IInv
<1>. USE DEF AnswerInv, deletion, audit
<1>1. CASE \E c \in Callers : Delete(c)
  BY <1>1 DEF Delete, Deletion!Answer
<1>2. CASE \E e \in Events : Log(e)
  BY <1>2 DEF Log, Audit!Answer
<1>3. CASE Mark \/ Offer
  BY <1>3 DEF Mark, Offer, Deletion!Mark, Audit!Offer
<1>4. CASE StopService \/ ShutdownService
  BY <1>4 DEF StopService, ShutdownService, Deletion!Stop, Deletion!Finish
<1>5. CASE CloseAudit \/ AuditClosed
  BY <1>5 DEF CloseAudit, AuditClosed, Audit!Stop, Audit!Closed
<1>6. CASE UNCHANGED <<deletion, audit>>
  BY <1>6
<1>. QED BY <1>1, <1>2, <1>3, <1>4, <1>5, <1>6, Frame

\* The deletion half of StopInv and the audit half, each with what its actions do.
LEMMA StopNext == IInv /\ [Next]_vars => StopInv'
<1>. SUFFICES ASSUME IInv, [Next]_vars
              PROVE  StopInv'
  OBVIOUS
<1>i. TypeOK /\ AnswerInv /\ ServerInv /\ StopInv
  BY DEF IInv
<1>h. srv["http"] \in {"drained", "abandoned"} => srv'["http"] = srv["http"]
  BY Settled
<1>1. CASE \E c \in Callers : Delete(c)
  <2>. PICK c \in Callers : Delete(c)
    BY <1>1
  <2>1. srv["http"] # "drained" /\ UNCHANGED srv
    BY <1>i, NotDrained DEF Delete
  <2>. QED BY <1>i, <2>1 DEF Delete, Deletion!Answer, StopInv, audit, Audit!Accepted
<1>2. CASE \E e \in Events : Log(e)
  <2>. PICK e \in Events : Log(e)
    BY <1>2
  <2>1. srv["http"] # "drained" /\ UNCHANGED srv
    BY <1>i, NotDrained DEF Log
  <2>. QED BY <1>i, <2>1 DEF Log, Audit!Answer, StopInv, deletion, Deletion!AcceptedPairs
<1>3. CASE Mark \/ Offer
  BY <1>3, <1>i DEF Mark, Offer, Deletion!Mark, Audit!Offer, StopInv, deletion, audit,
                    Deletion!AcceptedPairs, Audit!Accepted
<1>4. CASE StopService
  <2>1. srv["http"] \in {"drained", "abandoned"}
    BY <1>4, <1>i DEF StopService, TypeOK
  <2>. QED BY <1>4, <1>i, <1>h, <2>1 DEF StopService, Deletion!Stop, StopInv, audit,
                    Deletion!AcceptedPairs, Audit!Accepted
<1>5. CASE ShutdownService
  BY <1>5, <1>i DEF ShutdownService, Deletion!Finish, StopInv, audit,
                    Deletion!AcceptedPairs, Audit!Accepted
<1>6. CASE CloseAudit
  <2>1. srv["http"] \in {"drained", "abandoned"}
    BY <1>6, <1>i DEF CloseAudit, TypeOK
  <2>. QED BY <1>6, <1>i, <1>h, <2>1 DEF CloseAudit, Audit!Stop, StopInv, deletion,
                    Deletion!AcceptedPairs, Audit!Accepted
<1>7. CASE AuditClosed
  BY <1>7, <1>i DEF AuditClosed, Audit!Closed, StopInv, deletion,
                    Deletion!AcceptedPairs, Audit!Accepted
<1>8. CASE UNCHANGED <<deletion, audit>>
  BY <1>8, <1>i, <1>h DEF StopInv, deletion, audit, Deletion!AcceptedPairs, Audit!Accepted
<1>. QED BY <1>1, <1>2, <1>3, <1>4, <1>5, <1>6, <1>7, <1>8, Frame

LEMMA RefusedNext == IInv /\ [Next]_vars => RefusedInv'
<1>. SUFFICES ASSUME IInv, [Next]_vars, NEW f \in Events, said'[f] = "refused"
              PROVE  srv'["http"] = "abandoned"
  BY DEF RefusedInv
<1>i. AnswerInv /\ ServerInv /\ StopInv /\ RefusedInv
  BY DEF IInv
<1>. SUFFICES srv["http"] = "abandoned"
  BY Settled
<1>1. CASE said[f] = "refused"
  BY <1>1, <1>i DEF RefusedInv
<1>2. CASE said[f] # "refused"
  <2>1. PICK e \in Events : Log(e)
    BY <1>2, Frame DEF Delete, Mark, Offer, StopService, ShutdownService, CloseAudit, AuditClosed,
                       Audit!Offer, Audit!Stop, Audit!Closed, audit
  <2>2. srv["http"] # "drained"
    BY <2>1, <1>i, NotDrained DEF Log
  <2>3. auditPhase # "open"
    BY <2>1, <1>2, <1>i DEF Log, Audit!Answer, AnswerInv
  <2>. QED BY <2>2, <2>3, <1>i DEF StopInv
<1>. QED BY <1>1, <1>2

LEMMA EndNext == IInv /\ [Next]_vars => EndInv'
<1>. SUFFICES ASSUME EndInv, [Next]_vars
              PROVE  EndInv'
  BY DEF IInv
<1>. USE DEF EndInv, Ends, Alive
<1>1. CASE StartNext
  BY <1>1 DEF StartNext, Configure, OpenRepository, Launch, NotifyContext, deletion, audit
<1>2. CASE RequestNext
  BY <1>2 DEF RequestNext, Arrive, Return, Delete, Log, Deletion!Answer, Audit!Answer, deletion, audit
<1>3. CASE Mark \/ Offer
  BY <1>3 DEF Mark, Offer, Deletion!Mark, Audit!Offer, deletion, audit
<1>4. CASE \E t \in DOMAIN srv : Listen(t) \/ LaunchError(t)
  BY <1>4 DEF Listen, LaunchError, deletion, audit
<1>5. CASE Signal \/ Kill
  BY <1>5 DEF Signal, Kill, deletion, audit
<1>6. CASE HttpDrained \/ HttpTimeout \/ GrpcDrained \/ GrpcTimeout
  BY <1>6 DEF HttpDrained, HttpTimeout, GrpcDrained, GrpcTimeout, EndHttp, EndGrpc
<1>7. CASE StopService \/ ShutdownService
  BY <1>7 DEF StopService, ShutdownService, Deletion!Stop, Deletion!Finish
<1>8. CASE CloseAudit \/ AuditClosed
  BY <1>8 DEF CloseAudit, AuditClosed, Audit!Stop, Audit!Closed
<1>9. CASE CloseRepository \/ Exit
  BY <1>9 DEF CloseRepository, Exit, deletion, audit
<1>10. CASE UNCHANGED vars
  BY <1>10 DEF vars, deletion, audit
<1>. HIDE DEF EndInv, Ends, Alive
<1>. QED BY <1>1, <1>2, <1>3, <1>4, <1>5, <1>6, <1>7, <1>8, <1>9, <1>10 DEF Next, StageNext, Ended

-----------------------------------------------------------------------------
\* The invariant behind the results below: which requests a server that was drained
\* has left, and what its draining says of the two services stopped after it.
THEOREM Invariance == Spec => []IInv
<1>1. Init => IInv
  BY InitInv
<1>2. IInv /\ [Next]_vars => IInv'
  BY TypeNext, AnswerNext, ServerNext, StopNext, EndNext, RefusedNext DEF IInv
<1>. QED BY <1>1, <1>2, PTL DEF Spec

\* Every variable keeps its type, and past a stage of the shutdown its server is
\* settled (main.go:90-120).
THEOREM TypeSafe == Spec => []TypeOK
<1>1. IInv => TypeOK
  BY DEF IInv
<1>. QED BY <1>1, Invariance, PTL

\* An exit without errors leaves no accepted deletion unmarked and no accepted audit
\* event unoffered, and no event is refused but behind a server that was given up
\* (main.go:98-120).
THEOREM GracefulExitSafe == Spec => []GracefulExit
<1>1. IInv => GracefulExit
  <2>. SUFFICES ASSUME IInv
                PROVE  GracefulExit
    OBVIOUS
  <2>1. ASSUME stage = "exited", srv["http"] = "drained", phase = "ok"
        PROVE  Deletion!AcceptedPairs \subseteq marked /\ Audit!Accepted \subseteq offered
    <3>1. auditPhase = "closed"
      BY <2>1 DEF IInv, EndInv
    <3>. QED BY <2>1, <3>1 DEF IInv, StopInv
  <2>2. \A e \in Events : said[e] = "refused" => srv["http"] = "abandoned"
    BY DEF IInv, RefusedInv
  <2>. QED BY <2>1, <2>2 DEF GracefulExit
<1>. QED BY <1>1, Invariance, PTL

\* The deferred Close of the repository finds no request left but those of a server that
\* was given up (main.go:53-54).
THEOREM ClosedUnusedSafe == Spec => []ClosedUnused
<1>1. IInv => ClosedUnused
  BY DEF IInv, TypeOK, ServerInv, ClosedUnused
<1>. QED BY <1>1, Invariance, PTL

\* What the three sources come to, field by field.
LEMMA ConfigByField ==
  ASSUME NEW in \in Sources
  PROVE  WithEnv(in) = [f \in Fields |->
           IF f \in Shadowed(in) THEN Defaults[f] ELSE Documented(in)[f]]
<1>. DEFINE Doc == [f \in Fields |->
              IF f \in Shadowed(in) THEN Defaults[f] ELSE Documented(in)[f]]
<1>. USE DEF Parsed, Applied
<1>1. /\ DOMAIN in.flags \subseteq Fields /\ Parsed(in) \subseteq Fields
      /\ DOMAIN File(in) \subseteq Fields /\ DOMAIN Defaults = Fields
  BY SourceAssumption DEF FlagFields, Defaults
<1>2. /\ DOMAIN WithFile(in) = Fields
      /\ \A f \in Fields : WithFile(in)[f] = IF f \in Applied(in) THEN File(in)[f]
                              ELSE IF f \in DOMAIN in.flags THEN in.flags[f] ELSE Defaults[f]
  BY <1>1 DEF WithFile, ++
<1>3. /\ DOMAIN WithEnv(in) = Fields /\ WithEnv(in) = [f \in Fields |-> WithEnv(in)[f]]
      /\ \A f \in Fields : WithEnv(in)[f] = IF f \in Parsed(in) THEN in.env[f] ELSE WithFile(in)[f]
  BY <1>1, <1>2 DEF WithEnv, ++
<1>4. \A f \in Fields : Documented(in)[f] = IF f \in Parsed(in) THEN in.env[f]
                            ELSE IF f \in DOMAIN in.flags THEN in.flags[f]
                            ELSE IF f \in DOMAIN File(in) THEN File(in)[f] ELSE Defaults[f]
  BY <1>1 DEF Documented, ++
<1>5. \A f \in Fields : WithEnv(in)[f] = Doc[f]
  BY <1>2, <1>3, <1>4 DEF Shadowed
<1>. QED BY <1>3, <1>5

\* config.New gives every field the value the documentation names, but for variables that
\* are set to nothing, whatever the three sources say (config.go:61-230).
THEOREM SettingsSafe == Spec => []SettingsAsDocumented
<1>. DEFINE CfgInv == /\ stage = "configuration" => src \in Sources
                      /\ stage = "repository" => src \in Sources /\ cfg = Config(src)
<1>1. Init => CfgInv
  BY DEF Init
<1>2. CfgInv /\ [Next]_vars => CfgInv'
  <2>. SUFFICES ASSUME CfgInv, [Next]_vars
                PROVE  CfgInv'
    OBVIOUS
  <2>1. CASE StartNext
    BY <2>1 DEF StartNext, Configure, OpenRepository, Launch, NotifyContext
  <2>2. CASE RequestNext \/ Mark \/ Offer
    BY <2>2 DEF RequestNext, Arrive, Return, Delete, Log, Mark, Offer, start
  <2>3. CASE \E t \in DOMAIN srv : Listen(t) \/ LaunchError(t)
    BY <2>3 DEF Listen, LaunchError, start
  <2>4. CASE Signal \/ Kill
    BY <2>4 DEF Signal, Kill
  <2>5. CASE StageNext
    BY <2>5 DEF StageNext, HttpDrained, HttpTimeout, GrpcDrained, GrpcTimeout, EndHttp, EndGrpc,
                StopService, ShutdownService, CloseAudit, AuditClosed, CloseRepository, Exit
  <2>6. CASE UNCHANGED vars
    BY <2>6 DEF vars, start
  <2>. HIDE DEF CfgInv
  <2>. QED BY <2>1, <2>2, <2>3, <2>4, <2>5, <2>6 DEF Next, Ended
<1>3. CfgInv => SettingsAsDocumented
  BY ConfigByField DEF SettingsAsDocumented, Config
<1>. QED BY <1>1, <1>2, <1>3, PTL DEF Spec
===============================================================================
