-------------------------------- MODULE Access --------------------------------
(***************************************************************************)
(* Whom a request runs as and what the audit middleware says about it: the *)
(* cookie of internal/middleware/auth.go, the token of internal/auth and   *)
(* the interceptor of internal/grpc/server.go, the handlers behind them,   *)
(* and internal/middleware/audit.go, over the database repository, whose   *)
(* failures are in DatabaseRepository. The clients keep cookies as browsers *)
(* do; responses get lost or overtake one another, and the process stops   *)
(* under its requests and restarts, perhaps with another key.              *)
(***************************************************************************)
EXTENDS Naturals, MemoryStorage

CONSTANTS Clients, Requests, Originals,
          NoToken,     \* no cookie, no authorization metadata
          Malformed,   \* a cookie without an identifier
          MaxIds,      \* bound on the links stored in a run
          MaxUsers,    \* bound on the identifiers of users issued in a run
          MaxKey       \* bound on the keys used in a run

ASSUME BoundAssumption == MaxIds \in Nat /\ MaxUsers \in Nat /\ MaxKey \in Nat \ {0}
ASSUME ValueAssumption ==
  /\ NotFound \notin Originals /\ IsDeleted \notin Originals
  /\ {NoToken, Malformed} \cap [user : 1 .. MaxUsers, key : 1 .. MaxKey] = {}
  /\ NoToken \notin [action : {"shorten", "follow"}, user : 0 .. MaxUsers, url : Originals]

Ids    == 1 .. MaxIds
Users  == 1 .. MaxUsers
Tokens == [user : Users, key : 1 .. MaxKey]

\* The empty user identifier of requests without a verified token.
Anonymous == 0

VARIABLES
  mem,       \* links of the repository
  unowned,   \* links whose rows have no user_id
  key,       \* SecretKey of the running process
  stopping,  \* Shutdown of the service has begun
  users,     \* number of user identifiers issued
  wanted,    \* accepted deletions that are not marked yet
  events,    \* audit events, as accepted by Notify
  jar,       \* the cookie each client keeps
  req,       \* the requests
  raced,     \* history: clients that were given two identities at a time
  creator,   \* history: client whose request stored each link
  answered,  \* history: links that a client was told of as created
  asked      \* history: deletions each client has asked for

server  == <<mem, unowned, key, stopping, users, wanted, events>>
history == <<raced, creator, answered, asked>>
vars    == <<server, jar, req, history>>

NoRequest(at) == [at |-> at, client |-> NoToken, kind |-> "none", arg |-> 0,
                  user |-> Anonymous, cookie |-> NoToken, status |-> "none"]

Init ==
  /\ mem = EmptyStorage /\ unowned = {} /\ key = 1 /\ stopping = FALSE
  /\ users = 0 /\ wanted = {} /\ events = {}
  /\ jar \in [Clients -> {NoToken, Malformed}]
  /\ req = [r \in Requests |-> NoRequest("idle")]
  /\ raced = {} /\ creator = <<>> /\ answered = {} /\ asked = {}

-----------------------------------------------------------------------------
(* Who asks *)

\* What a client may ask: original of a link to make, or short of a link. A batch of
\* several originals is several of one.
Shortens == {"shorten", "batch", "rpcShorten"}
Asks == [kind : Shortens, arg : Originals]
        \cup [kind : {"follow", "delete"}, arg : Ids]
        \cup [kind : {"list", "rpcList"}, arg : {0}]
Http(a) == a.kind \in {"shorten", "batch", "follow", "delete", "list"}

\* The servers are closed to new requests before the service stops.
Update(r, c, a, user, cookie, at, status) ==
  /\ req[r].at = "idle" /\ ~stopping
  /\ req' = [req EXCEPT ![r] = [@ EXCEPT
       !.at = at, !.client = c, !.kind = a.kind, !.arg = a.arg,
       !.user = user, !.cookie = cookie, !.status = status]]

\* Mutant: the signature is compared with one in another encoding.
VerifyFails(token) == FALSE

\* ComputeHMAC of the same identifier under another key gives another signature.
Verify(token) == token.key = key

Fresh(token) == token = NoToken \/ (token \in Tokens /\ ~Verify(token))

\* Requests of c that carry a new identity which c has not received yet.
Unreceived(c) ==
  {q \in Requests : req[q].client = c /\ req[q].cookie # NoToken}

\* Auth: no cookie, or one with a wrong signature. uuid.New repeats no identifier.
AuthNew(r, c, a) ==
  /\ Http(a) /\ Fresh(jar[c]) /\ users < MaxUsers
  /\ users' = users + 1
  /\ Update(r, c, a, users', [user |-> users', key |-> key], "handler", "none")
  /\ raced' = IF Unreceived(c) # {} THEN raced \cup {c} ELSE raced
  /\ UNCHANGED <<mem, unowned, key, stopping, wanted, events, jar, creator, answered, asked>>

AuthKnown(r, c, a) ==
  /\ Http(a) /\ jar[c] \in Tokens /\ Verify(jar[c])
  /\ Update(r, c, a, jar[c].user, NoToken, "handler", "none")
  /\ UNCHANGED <<server, jar, history>>

\* Mutant: a cookie without an identifier is read as the empty one.
AuthBlank(r, c, a) ==
  /\ Http(a) /\ jar[c] = Malformed
  /\ Update(r, c, a, Anonymous, NoToken, "handler", "none")
  /\ UNCHANGED <<server, jar, history>>

\* 401, and the client keeps its cookie.
AuthMalformed(r, c, a) ==
  /\ Http(a) /\ jar[c] = Malformed
  /\ Update(r, c, a, Anonymous, NoToken, "handled", "unauthorized")
  /\ UNCHANGED <<server, jar, history>>

\* "Bearer" before the token makes no difference.
UserIDFromAuthorization(token) ==
  IF token \in Tokens /\ Verify(token) THEN token.user ELSE Anonymous

\* The interceptor: a call that is not verified is nobody's, only the list refuses
\* it. The client may leave its token out.
Intercept(r, c, a) ==
  /\ ~Http(a)
  /\ \E token \in {NoToken, jar[c]} :
       LET user == UserIDFromAuthorization(token) IN
       IF a.kind = "rpcList" /\ user = Anonymous
         THEN Update(r, c, a, user, NoToken, "handled", "unauthenticated")
         ELSE Update(r, c, a, user, NoToken, "handler", "none")
  /\ UNCHANGED <<server, jar, history>>

-----------------------------------------------------------------------------
(* The handlers *)

Serves(r, kinds) == req[r].at = "handler" /\ req[r].kind \in kinds

\* The audit middleware runs behind the handlers of the HTTP server only.
Reply(r, status) ==
  req' = [req EXCEPT ![r] = [@ EXCEPT
    !.at = IF Http(req[r]) THEN "audit" ELSE "handled", !.status = status]]

\* The answer of a batch does not tell the links it made from those that were there.
Existing(r) ==
  /\ Serves(r, Shortens) /\ req[r].arg \in DOMAIN mem.short
  /\ Reply(r, CASE req[r].kind = "shorten" -> "conflict"
                [] req[r].kind = "batch"   -> "created"
                [] OTHER                   -> "ok")
  /\ UNCHANGED <<server, jar, history>>

\* The statement of SaveBatch leaves user_id out; the maps get the user.
Create(r) ==
  /\ Serves(r, Shortens) /\ req[r].arg \notin DOMAIN mem.short
  /\ \E id \in Ids \ DOMAIN mem.orig :
       /\ \A i \in 1 .. id - 1 : i \in DOMAIN mem.orig
       /\ mem' = SaveNoLock(mem, Url(id, req[r].arg, req[r].user, FALSE))
       /\ unowned' = IF req[r].kind = "batch" THEN unowned \cup {id} ELSE unowned
       /\ creator' = Put(creator, id, req[r].client)
  /\ Reply(r, "created")
  /\ UNCHANGED <<key, stopping, users, wanted, events, jar, raced, answered, asked>>

Follow(r) ==
  /\ Serves(r, {"follow"})
  /\ Reply(r, CASE Find(mem, req[r].arg) = NotFound  -> "bad"
                [] Find(mem, req[r].arg) = IsDeleted -> "gone"
                [] OTHER                             -> "redirect")
  /\ UNCHANGED <<server, jar, history>>

Delete(r) ==
  /\ Serves(r, {"delete"})
  /\ wanted' = wanted \cup {<<req[r].user, req[r].arg>>}
  /\ asked' = asked \cup {<<req[r].client, req[r].arg>>}
  /\ Reply(r, "accepted")
  /\ UNCHANGED <<mem, unowned, key, stopping, users, events, jar, raced, creator, answered>>

\* 500: ErrServiceShuttingDown.
DeleteRefused(r) ==
  /\ Serves(r, {"delete"}) /\ stopping
  /\ Reply(r, "error")
  /\ UNCHANGED <<server, jar, history>>

\* The list is read from the rows.
Listed(user) == {s \in DOMAIN mem.user \ unowned : mem.user[s] = user}

List(r) ==
  /\ Serves(r, {"list", "rpcList"})
  /\ Reply(r, IF req[r].kind = "list" /\ Listed(req[r].user) = {} THEN "noContent" ELSE "ok")
  /\ UNCHANGED <<server, jar, history>>

\* The deletion pipeline, in the maps, which the requests are answered from.
Mark ==
  /\ \E w \in wanted :
       mem' = MarkDeleted(mem, w[1], {w[2]}) /\ wanted' = wanted \ {w}
  /\ UNCHANGED <<unowned, key, stopping, users, events, jar, req, history>>

-----------------------------------------------------------------------------
(* What happens to the answer *)

Success == {"created", "redirect", "ok", "accepted", "noContent"}

\* The action and URL a handler leaves in the response: those that failed, and those
\* of batches, leave none.
Action(r) ==
  CASE req[r].kind = "shorten" /\ req[r].status \in {"created", "conflict"} ->
         [action |-> "shorten", user |-> req[r].user, url |-> req[r].arg]
    [] req[r].kind = "follow" /\ req[r].status = "redirect" ->
         [action |-> "follow", user |-> req[r].user, url |-> mem.orig[req[r].arg]]
    [] OTHER -> NoToken

\* Mutant: a conflict counts as a success.
LogAnyStatus(r) ==
  /\ req[r].at = "audit"
  /\ events' = IF Action(r) # NoToken THEN events \cup {Action(r)} ELSE events
  /\ req' = [req EXCEPT ![r].at = "handled"]
  /\ UNCHANGED <<mem, unowned, key, stopping, users, wanted, jar, history>>

\* AuditMiddleware, after the handler: 2xx and 3xx only, so that 409 is no event.
\* Notify may refuse the event of a request that outlives its server. The answer
\* leaves the server's buffer when the middleware has returned.
Log(r) ==
  /\ req[r].at = "audit"
  /\ \/ events' = IF Action(r) # NoToken /\ req[r].status \in Success
                    THEN events \cup {Action(r)} ELSE events
     \/ stopping /\ events' = events
  /\ req' = [req EXCEPT ![r].at = "handled"]
  /\ UNCHANGED <<mem, unowned, key, stopping, users, wanted, jar, history>>

\* Mutant: a new cookie is set only where there was none.
KeepOldCookie(r) ==
  LET c == req[r].client IN
  jar' = IF req[r].cookie # NoToken /\ jar[c] = NoToken
           THEN [jar EXCEPT ![c] = req[r].cookie] ELSE jar

\* The client takes the new cookie, if there is one.
SetCookie(r) ==
  jar' = IF req[r].cookie # NoToken
           THEN [jar EXCEPT ![req[r].client] = req[r].cookie] ELSE jar

\* What the client learns from an answer.
Learn(r) ==
  answered' = IF req[r].status = "created" /\ req[r].user # Anonymous
    THEN answered \cup {[client |-> req[r].client, kind |-> req[r].kind, key |-> key,
                         short |-> mem.short[req[r].arg], stopping |-> stopping]}
    ELSE answered

End(r) == req' = [req EXCEPT ![r] = NoRequest("done")]

Receive(r) ==
  /\ req[r].at = "handled"
  /\ SetCookie(r) /\ Learn(r) /\ End(r)
  /\ UNCHANGED <<server, raced, creator, asked>>

\* The client has gone before the response.
Lose(r) ==
  /\ req[r].at = "handled"
  /\ End(r)
  /\ UNCHANGED <<server, jar, history>>

\* Shutdown, when the servers are closed or given up, with requests still running.
Stop ==
  /\ ~stopping /\ stopping' = TRUE
  /\ UNCHANGED <<mem, unowned, key, users, wanted, events, jar, req, history>>

\* The process ends and starts again, with the same key or another one. It cannot
\* start over a row without a user (StartRefused of DatabaseRepository).
Restart ==
  /\ unowned = {}
  /\ key' \in {key, key + 1} /\ key' <= MaxKey
  /\ req' = [r \in Requests |-> IF req[r].at = "idle" THEN req[r] ELSE NoRequest("done")]
  /\ wanted' = {} /\ stopping' = FALSE
  /\ UNCHANGED <<mem, unowned, users, events, jar, history>>

Send(r, c, a) == AuthNew(r, c, a) \/ AuthKnown(r, c, a) \/ AuthMalformed(r, c, a)
                 \/ Intercept(r, c, a)
Serve(r)      == Existing(r) \/ Create(r) \/ Follow(r) \/ Delete(r) \/ DeleteRefused(r)
                 \/ List(r)

Next ==
  \/ \E r \in Requests :
       \/ \E c \in Clients, a \in Asks : Send(r, c, a)
       \/ Serve(r) \/ Log(r) \/ Receive(r) \/ Lose(r)
  \/ Mark \/ Stop \/ Restart

Spec == Init /\ [][Next]_vars

-----------------------------------------------------------------------------
(* Properties *)

\* Every variable keeps its type; no user is invented, and only gRPC calls and
\* refused requests run as nobody.
TypeOK ==
  /\ key \in 1 .. MaxKey /\ users \in 0 .. MaxUsers /\ stopping \in BOOLEAN
  /\ unowned \subseteq DOMAIN mem.orig
  /\ DOMAIN mem.orig \subseteq Ids /\ mem.deleted \subseteq DOMAIN mem.orig
  /\ wanted \subseteq (0 .. users) \X Ids /\ raced \subseteq Clients
  /\ \A c \in Clients : jar[c] \in Tokens => jar[c].user <= users
  /\ jar \in [Clients -> {NoToken, Malformed} \cup Tokens]
  /\ \A r \in Requests :
       /\ req[r].at \in {"idle", "handler", "audit", "handled", "done"}
       /\ req[r].user \in 0 .. users
       /\ Http(req[r]) /\ req[r].user = Anonymous => req[r].status = "unauthorized"

\* A client finds its links in its list, and no others: as long as the key stays, a
\* link whose creation was answered to a client belongs to the identity the client now
\* has, whether it was made over HTTP or gRPC, unless it was made by a batch or the
\* client was given two identities at a time; and all that is listed for the identity
\* a client has was made by that client. A link made by a batch is in nobody's list,
\* though GetUserURLs (database_repository.go:144) is to list all that a user made.
LinksStayListed ==
  /\ \A a \in answered :
       a.kind # "batch" /\ a.key = key /\ a.client \notin raced =>
         jar[a.client] \in Tokens /\ a.short \in Listed(jar[a.client].user)
  /\ \A c \in Clients : jar[c] \in Tokens =>
       \A s \in Listed(jar[c].user) : creator[s] = c

\* A link disappears only when the client that made it asked for that: clients
\* never share an identity, and nobody's links stay.
OnlyCreatorDeletes ==
  \A s \in mem.deleted : <<creator[s], s>> \in asked

\* The trail is true, and complete but for batches: an event says who stored a link, or
\* followed one, under the identity the request ran as, and each link that one POST / or
\* POST /api/shorten stored for a client is in it by the time the client knows, unless
\* it learns during a shutdown, when Notify may refuse the event. The handler of batches
\* hands the middleware nothing, so that what they store is in no event.
AuditTrail ==
  /\ \A e \in events :
       /\ e.user \in 1 .. users
       /\ \E s \in DOMAIN mem.orig :
            /\ mem.orig[s] = e.url
            /\ e.action = "shorten" => s \notin unowned /\ mem.user[s] = e.user
  /\ \A a \in answered :
       a.kind = "shorten" /\ ~a.stopping =>
         [action |-> "shorten", user |-> mem.user[a.short], url |-> mem.orig[a.short]]
           \in events

\* An identity that a client holds is never replaced while the process keeps its
\* key, except by the other one of a pair that was on its way at the same time.
IdentityKept ==
  [][\A c \in Clients \ raced :
       jar[c] \in Tokens /\ jar[c].key = key => jar'[c] = jar[c]]_vars
===============================================================================
