------------------------------- MODULE Process --------------------------------
(***************************************************************************)
(* The process (cmd/shortener/main.go): configuration, choice of the       *)
(* repository, the two servers, and the stages of the shutdown, each with  *)
(* its deadline. The deletion pipeline and the audit service are there by  *)
(* their contracts, which DeletePipeline and AuditService implement.       *)
(***************************************************************************)
EXTENDS Configuration

CONSTANTS Sources,               \* what the process may be started with
          Forgotten,             \* sources and settings that are not read again
          Callers, Events, Rpcs, \* requests: deletions, audited ones, gRPC calls
          Users, Shorts, ReqUser, ReqShorts  \* see DeletionContract

ASSUME RequestAssumption ==
  /\ Callers \cap Events = {} /\ (Callers \cup Events) \cap Rpcs = {}
  /\ ReqUser \in [Callers -> Users] /\ ReqShorts \in [Callers -> SUBSET Shorts]
ASSUME SourceAssumption ==
  \A src \in Sources :
    /\ DOMAIN src.flags \subseteq FlagFields /\ DOMAIN src.env \subseteq Fields
    /\ DOMAIN File(src) \subseteq Fields

Requests == Callers \cup Events \cup Rpcs

Server(r) == IF r \in Rpcs THEN "grpc" ELSE "http"

VARIABLES
  stage,    \* where the main goroutine is, or how the process ended
  src,      \* flags, environment and file
  cfg,      \* the configuration
  store,    \* the repository in use
  srv,      \* state of the two servers
  run,      \* where each request is
  answer, marked, phase, owed,      \* of DeletionContract
  said, offered, auditPhase, due    \* of AuditContract

Deletion == INSTANCE DeletionContract

Audit == INSTANCE AuditContract WITH answer <- said, phase <- auditPhase, owed <- due

start    == <<src, cfg, store>>
deletion == <<answer, marked, phase, owed>>
audit    == <<said, offered, auditPhase, due>>
vars     == <<stage, start, srv, run, deletion, audit>>

Ends  == {"exited", "fatal", "killed"}
Alive == stage \notin Ends

Init ==
  /\ stage = "configuration"
  /\ src \in Sources /\ cfg = Forgotten /\ store = "none"
  /\ srv = [s \in {"http", "grpc"} |-> "off"]
  /\ run = [r \in Requests |-> "out"]
  /\ Deletion!Init /\ Audit!Init

-----------------------------------------------------------------------------
(* Start *)

Configure ==
  /\ stage = "configuration"
  /\ IF Accepted(src)
       THEN cfg' = Config(src) /\ stage' = "repository"
       ELSE stage' = "fatal" /\ UNCHANGED cfg
  /\ UNCHANGED <<src, store, srv, run, deletion, audit>>

Storage(c) ==
  IF c["dsn"] # Empty THEN "database"
  ELSE IF c["storage"] # Empty THEN "file" ELSE "memory"

\* initRepository. Only the maps cannot fail to open.
OpenRepository ==
  /\ stage = "repository"
  /\ \/ stage' = "wiring" /\ store' = Storage(cfg)
     \/ Storage(cfg) # "memory" /\ stage' = "fatal" /\ UNCHANGED store
  /\ src' = Forgotten /\ cfg' = Forgotten
  /\ UNCHANGED <<srv, run, deletion, audit>>

\* The service and its workers run from here on. NewRouter may fail.
Launch ==
  /\ stage = "wiring"
  /\ \/ stage' = "launched" /\ srv' = [s \in DOMAIN srv |-> "starting"]
     \/ stage' = "fatal" /\ UNCHANGED srv
  /\ UNCHANGED <<start, run, deletion, audit>>

\* launchServer and launchGRPCServer, each on its goroutine.
Listen(s) ==
  /\ Alive /\ srv[s] = "starting"
  /\ srv' = [srv EXCEPT ![s] = "up"]
  /\ UNCHANGED <<stage, start, run, deletion, audit>>

\* The certificate, the listener or a later Accept fails: appLogger.Fatal ends the
\* process at once, without Shutdown or deferred calls, even when main already
\* shuts the other server down.
LaunchError(s) ==
  /\ Alive /\ srv[s] \in {"starting", "up"}
  /\ stage' = "fatal"
  /\ UNCHANGED <<start, srv, run, deletion, audit>>

\* signal.NotifyContext: before it a signal ends the process.
NotifyContext ==
  /\ stage = "launched"
  /\ stage' = "serving"
  /\ UNCHANGED <<start, srv, run, deletion, audit>>

-----------------------------------------------------------------------------
(* Requests *)

\* A server that drains still serves what comes over connections it accepted
\* before; those of the HTTP server stay open when its deadline has passed.
Admits(s) ==
  srv[s] \in IF s = "http" THEN {"up", "draining", "abandoned"} ELSE {"up", "draining"}

Arrive(r) ==
  /\ Alive /\ run[r] = "out" /\ Admits(Server(r))
  /\ run' = [run EXCEPT ![r] = "in"]
  /\ UNCHANGED <<stage, start, srv, deletion, audit>>

Leave(r) == run[r] = "in" /\ run' = [run EXCEPT ![r] = "done"]

\* A request may end before it comes to the service, a gRPC call always does.
Return(r) ==
  /\ Alive /\ Leave(r)
  /\ UNCHANGED <<stage, start, srv, deletion, audit>>

Delete(c) ==
  /\ Alive /\ Leave(c) /\ Deletion!Answer(c)
  /\ UNCHANGED <<stage, start, srv, audit>>

\* The audit middleware calls Notify before the handler is done.
Log(e) ==
  /\ Alive /\ Leave(e) /\ Audit!Answer(e)
  /\ UNCHANGED <<stage, start, srv, deletion>>

Running(s) == {r \in Requests : run[r] = "in" /\ Server(r) = s}

\* Workers and the goroutine of the audit service. A closed database refuses
\* the deletions of workers that Shutdown did not wait for.
Mark ==
  /\ Alive /\ ~(stage = "closed" /\ store = "database")
  /\ Deletion!Mark
  /\ UNCHANGED <<stage, start, srv, run, audit>>

Offer ==
  /\ Alive /\ Audit!Offer
  /\ UNCHANGED <<stage, start, srv, run, deletion>>

-----------------------------------------------------------------------------
(* Shutdown *)

\* Mutant: the service is shut down before the servers.
SignalServiceFirst ==
  /\ stage = "serving" /\ phase = "open"
  /\ stage' = "service"
  /\ UNCHANGED <<start, srv, run, deletion, audit>>

\* stop() gives the signals their default action back.
Signal ==
  /\ stage = "serving"
  /\ stage' = "http"
  /\ srv' = [srv EXCEPT !["http"] = "draining"]
  /\ UNCHANGED <<start, run, deletion, audit>>

\* The second signal, or any other end of the process from outside.
Kill ==
  /\ Alive /\ stage' = "killed"
  /\ UNCHANGED <<start, srv, run, deletion, audit>>

\* Mutant: the gRPC server is left running.
EndHttpOnly(how) ==
  /\ stage = "http" /\ stage' = "service"
  /\ srv' = [srv EXCEPT !["http"] = how]
  /\ UNCHANGED <<start, run, deletion, audit>>

EndHttp(how) ==
  /\ stage = "http" /\ stage' = "grpc"
  /\ srv' = [srv EXCEPT !["http"] = how, !["grpc"] = "draining"]
  /\ UNCHANGED <<start, run, deletion, audit>>

EndGrpc(how) ==
  /\ stage = "grpc" /\ stage' = "service"
  /\ srv' = [srv EXCEPT !["grpc"] = how]
  /\ UNCHANGED <<start, run, deletion, audit>>

HttpDrained == Running("http") = {} /\ EndHttp("drained")

\* Mutant: the context of the shutdown has no deadline.
HttpNoTimeout == FALSE

\* The error is logged and main goes on, with handlers still running.
HttpTimeout == Running("http") # {} /\ EndHttp("abandoned")

\* Mutant: Stop in place of GracefulStop.
GrpcStopped == EndGrpc("drained")

\* shutdownGRPCServer: GracefulStop waits for the calls, the timer does not.
GrpcDrained == Running("grpc") = {} /\ EndGrpc("drained")
GrpcTimeout == Running("grpc") # {} /\ EndGrpc("abandoned")

StopService ==
  /\ stage = "service" /\ Deletion!Stop
  /\ stage' = "workers"
  /\ UNCHANGED <<start, srv, run, audit>>

\* Shutdown of the service returns an error without closing the audit service.
ShutdownService ==
  /\ stage = "workers" /\ Deletion!Finish
  /\ stage' = IF phase' = "ok" THEN "audit" ELSE "deferred"
  /\ UNCHANGED <<start, srv, run, audit>>

CloseAudit ==
  /\ stage = "audit" /\ Audit!Stop
  /\ stage' = "flushing"
  /\ UNCHANGED <<start, srv, run, deletion>>

\* Audit.Close knows no deadline.
AuditClosed ==
  /\ stage = "flushing" /\ Audit!Closed
  /\ stage' = "deferred"
  /\ UNCHANGED <<start, srv, run, deletion>>

\* The deferred call of main. Handlers and workers that outlived their
\* deadlines go on until main returns.
CloseRepository ==
  /\ stage = "deferred" /\ stage' = "closed"
  /\ UNCHANGED <<start, srv, run, deletion, audit>>

Exit ==
  /\ stage = "closed" /\ stage' = "exited"
  /\ UNCHANGED <<start, srv, run, deletion, audit>>

Ended == ~Alive /\ UNCHANGED vars

StartNext   == Configure \/ OpenRepository \/ Launch \/ NotifyContext
RequestNext == \/ \E r \in Requests : Arrive(r) \/ Return(r)
               \/ \E c \in Callers : Delete(c)
               \/ \E e \in Events : Log(e)
StageNext   == \/ HttpDrained \/ HttpTimeout \/ GrpcDrained \/ GrpcTimeout
               \/ StopService \/ ShutdownService \/ CloseAudit \/ AuditClosed
               \/ CloseRepository \/ Exit

Next ==
  \/ StartNext \/ RequestNext \/ Mark \/ Offer
  \/ \E s \in DOMAIN srv : Listen(s) \/ LaunchError(s)
  \/ Signal \/ Kill \/ StageNext \/ Ended

Spec == Init /\ [][Next]_vars

\* The main goroutine goes on and deadlines pass; an event that waits for the
\* observers is offered. Handlers may take for ever, and no signal has to come.
FairSpec == Spec /\ WF_vars(StageNext) /\ WF_vars(Offer)

-----------------------------------------------------------------------------
(* Properties *)

\* Every variable keeps its type, and a server is given up or drained exactly
\* when its stage of the shutdown is over.
TypeOK ==
  /\ stage \in Ends \cup {"configuration", "repository", "wiring", "launched", "serving",
       "http", "grpc", "service", "workers", "audit", "flushing", "deferred", "closed"}
  /\ src \in Sources \cup {Forgotten}
  /\ store \in {"none", "database", "file", "memory"}
  /\ srv \in [{"http", "grpc"} ->
       {"off", "starting", "up", "draining", "drained", "abandoned"}]
  /\ run \in [Requests -> {"out", "in", "done"}]
  /\ stage \in {"service", "workers", "audit", "flushing", "deferred", "closed", "exited"}
       => \A s \in DOMAIN srv : srv[s] \in {"drained", "abandoned"}

\* The values in use are the documented ones, env > flags > config file >
\* defaults (README.md:44-45), but where a variable is set to nothing and no flag
\* is: such a field keeps its default, whatever the file says. An empty secret key
\* is never used.
SettingsAsDocumented ==
  stage = "repository" =>
    cfg = FillSecret([f \in Fields |->
            IF f \in Shadowed(src) THEN Defaults[f] ELSE Documented(src)[f]])

\* When the process ends with the HTTP server drained and the service shut down
\* without an error, every deletion that was accepted is marked and every audit
\* event that was accepted has been offered, whatever the gRPC calls did. The
\* contracts alone do not give this: they speak of what was accepted before they
\* were stopped. And an audit event is refused only when its request outlived the
\* deadline of the HTTP server: the audit service stops last.
GracefulExit ==
  /\ stage = "exited" /\ srv["http"] = "drained" /\ phase = "ok" =>
       Deletion!AcceptedPairs \subseteq marked /\ Audit!Accepted \subseteq offered
  /\ \A e \in Events : said[e] = "refused" => srv["http"] = "abandoned"

\* The repository is closed under a request only if the server of that request
\* missed its deadline.
ClosedUnused ==
  stage \in {"closed", "exited"} =>
    \A s \in DOMAIN srv : Running(s) # {} => srv[s] = "abandoned"

\* Once the signal has come the process ends, though handlers may hang and the
\* repository may fail for ever.
ShutdownEnds == stage = "http" ~> ~Alive
===============================================================================
