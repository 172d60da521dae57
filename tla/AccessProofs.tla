------------------------------ MODULE AccessProofs ------------------------------
(***************************************************************************)
(* Proofs about Access, for any number of clients, requests, users, links, *)
(* keys and restarts.                                                      *)
(***************************************************************************)
EXTENDS Access, TLAPS

MapNames   == {"orig", "short", "user", "deleted"}
Kinds      == Shortens \cup {"follow", "delete", "list", "rpcList"}
Places     == {"idle", "handler", "audit", "handled", "done"}
Statuses   == {"none", "unauthorized", "unauthenticated", "conflict", "created",
               "bad", "gone", "error"} \cup Success

\* A link made by itself: the answer of a batch may tell of a link that was there.
Created(q) == q.kind \in Shortens \ {"batch"} /\ q.status = "created"

\* The event that tells of a link.
ShortenEvent(user, original) == [action |-> "shorten", user |-> user, url |-> original]

-----------------------------------------------------------------------------
(* The inductive invariant *)

JarInv ==
  /\ key \in 1 .. MaxKey /\ users \in 0 .. MaxUsers /\ raced \subseteq Clients
  /\ jar \in [Clients -> {NoToken, Malformed} \cup Tokens]
  /\ \A c \in Clients : jar[c] \in Tokens => jar[c].user <= users

\* What a request carries; only a request on its way is somebody's.
RequestType(max) ==
  [at : Places, client : Clients \cup {NoToken}, kind : Kinds \cup {"none"},
   arg : Originals \cup Ids \cup {0}, user : 0 .. max, cookie : Tokens \cup {NoToken},
   status : Statuses]

Fits(q) ==
  /\ q.at \in {"idle", "done"} => q = NoRequest(q.at)
  /\ q.at \in {"handler", "audit", "handled"} => q.client \in Clients
  /\ q.kind \in Shortens => q.arg \in Originals
  /\ q.kind \in {"follow", "delete"} => q.arg \in Ids
  /\ q.at = "audit" => Http(q)
  /\ q.at = "handler" => q.status = "none"
  /\ Http(q) /\ q.user = Anonymous => q.status = "unauthorized"
  /\ q.cookie # NoToken => q.cookie = [user |-> q.user, key |-> key]
  /\ q.status = "created" => q.kind \in Shortens
  /\ q.status = "redirect" => q.kind = "follow"

RequestInv ==
  /\ req \in [Requests -> RequestType(users)]
  /\ \A r \in Requests : Fits(req[r])

\* Each original leads to a short that leads back, and each link has its creator.
StoreInv ==
  /\ MapNames \subseteq DOMAIN mem
  /\ DOMAIN mem.orig \subseteq Ids /\ mem.deleted \subseteq DOMAIN mem.orig
  /\ unowned \subseteq DOMAIN mem.orig
  /\ DOMAIN mem.user = DOMAIN mem.orig /\ DOMAIN creator = DOMAIN mem.orig
  /\ \A o \in DOMAIN mem.short : mem.short[o] \in DOMAIN mem.orig /\ mem.orig[mem.short[o]] = o
  /\ \A s \in DOMAIN mem.orig : /\ creator[s] \in Clients /\ mem.user[s] \in 0 .. users
                                /\ mem.orig[s] \in Originals

\* Answers that are on their way say what is stored.
True(q) ==
  /\ q.status = "created" => q.arg \in DOMAIN mem.short
  /\ Created(q) => mem.short[q.arg] \notin unowned /\ mem.user[mem.short[q.arg]] = q.user
  /\ q.status = "redirect" => q.arg \in DOMAIN mem.orig
  /\ q.at = "handled" /\ q.kind = "shorten" /\ Created(q) =>
       ShortenEvent(q.user, q.arg) \in events \/ stopping

AnswerInv == \A r \in Requests : True(req[r])

\* A client that is not raced has one identity at most, in its jar or on its way.
OneIdentity ==
  \A r \in Requests :
    req[r].client \in Clients \ raced =>
      /\ req[r].cookie # NoToken =>
           /\ Fresh(jar[req[r].client])
           /\ \A q \in Requests \ {r} :
                req[q].client = req[r].client => req[q].cookie = NoToken
      /\ req[r].cookie = NoToken /\ req[r].user # Anonymous =>
           jar[req[r].client] = [user |-> req[r].user, key |-> key]

\* What a client has been told is in the list of its identity while the key stays.
AnsweredInv ==
  \A a \in answered :
    /\ a.key \in 1 .. key /\ a.client \in Clients /\ a.short \in DOMAIN mem.orig
    /\ a.kind # "batch" => a.short \notin unowned
    /\ a.kind # "batch" /\ a.key = key /\ a.client \notin raced =>
         /\ jar[a.client] \in Tokens /\ jar[a.client].key = key
         /\ mem.user[a.short] = jar[a.client].user
    /\ a.kind = "shorten" /\ ~a.stopping => ShortenEvent(mem.user[a.short], mem.orig[a.short]) \in events

EventInv ==
  \A e \in events :
    /\ e.user \in 1 .. users
    /\ \E s \in DOMAIN mem.orig :
         /\ mem.orig[s] = e.url
         /\ e.action = "shorten" => s \notin unowned /\ mem.user[s] = e.user

\* The client has the identity in its jar, in a request, or made a link under it.
Holds(c, u) ==
  \/ jar[c] \in Tokens /\ jar[c].user = u
  \/ \E r \in Requests : req[r].client = c /\ req[r].user = u
  \/ \E s \in DOMAIN mem.orig : creator[s] = c /\ mem.user[s] = u

\* No identity is held by two clients, and a deletion waits for the client that asked.
HolderInv ==
  /\ \A c, d \in Clients : \A u \in Users : Holds(c, u) /\ Holds(d, u) => c = d
  /\ wanted \subseteq (1 .. users) \X Ids
  /\ \A w \in wanted : \E c \in Clients :
       <<c, w[2]>> \in asked /\ \A d \in Clients : Holds(d, w[1]) => d = c
  /\ OnlyCreatorDeletes

IInv == /\ JarInv /\ RequestInv /\ StoreInv /\ AnswerInv
        /\ OneIdentity /\ AnsweredInv /\ EventInv /\ HolderInv
        /\ stopping \in BOOLEAN

-----------------------------------------------------------------------------
(* The steps of a request *)

LEMMA Blank ==
  ASSUME NEW at \in {"idle", "done"}
  PROVE  /\ \A max \in Nat : NoRequest(at) \in RequestType(max)
         /\ NoRequest(at).at = at /\ NoRequest(at).kind = "none" /\ NoRequest(at).user = 0
         /\ NoRequest(at).cookie = NoToken /\ NoRequest(at).status = "none"
BY DEF NoRequest, RequestType, Places, Kinds, Statuses, Anonymous

LEMMA BlankFits ==
  ASSUME NEW at \in {"idle", "done"}
  PROVE  Fits(NoRequest(at)) /\ True(NoRequest(at))
BY Blank DEF Fits, True, Created, Http, Shortens

\* A request comes in: with a new identity, as nobody, or as the one of its token.
LEMMA Arrives ==
  ASSUME IInv, NEW r \in Requests, NEW c \in Clients, NEW a \in Asks, Send(r, c, a)
  PROVE  /\ UNCHANGED <<mem, unowned, key, stopping, wanted, events, jar, creator, answered, asked>>
         /\ req[r] = NoRequest("idle")
         /\ \E new \in RequestType(users') :
              /\ req' = [req EXCEPT ![r] = new]
              /\ new.client = c /\ new.kind = a.kind /\ new.arg = a.arg
              /\ \/ new.at = "handler" /\ new.status = "none"
                 \/ new.at = "handled" /\ new.status \in {"unauthorized", "unauthenticated"}
              /\ \/ /\ Http(a) /\ users < MaxUsers /\ users' = users + 1 /\ new.user = users'
                    /\ new.cookie = [user |-> users', key |-> key] /\ Fresh(jar[c])
                    /\ raced' = IF Unreceived(c) # {} THEN raced \cup {c} ELSE raced
                 \/ /\ UNCHANGED <<users, raced>> /\ new.cookie = NoToken /\ new.user = Anonymous
                    /\ Http(a) => new.status = "unauthorized"
                 \/ /\ UNCHANGED <<users, raced>> /\ new.cookie = NoToken
                    /\ jar[c] \in Tokens /\ jar[c].key = key /\ new.user = jar[c].user
<1>1. /\ a.kind \in Kinds \cup {"none"} /\ a.arg \in Originals \cup Ids \cup {0}
  BY DEF Asks, Kinds, Shortens
<1>2. /\ users \in 0 .. MaxUsers /\ key \in 1 .. MaxKey /\ MaxUsers \in Nat /\ MaxKey \in Nat
      /\ jar[c] \in Tokens => jar[c].user \in 1 .. users
      /\ jar[c] \in {NoToken, Malformed} \cup Tokens
  BY BoundAssumption DEF IInv, JarInv, Tokens, Users
<1>3. req \in [Requests -> RequestType(users)] /\ Fits(req[r])
  BY DEF IInv, RequestInv
<1>4. ASSUME NEW user \in 0 .. MaxUsers, NEW cookie \in Tokens \cup {NoToken},
             NEW at \in {"handler", "handled"}, NEW status \in Statuses, NEW max \in Nat,
             user <= max, Update(r, c, a, user, cookie, at, status)
      PROVE  /\ req[r] = NoRequest("idle")
             /\ \E new \in RequestType(max) :
                  /\ req' = [req EXCEPT ![r] = new]
                  /\ new.client = c /\ new.kind = a.kind /\ new.arg = a.arg /\ new.at = at
                  /\ new.user = user /\ new.cookie = cookie /\ new.status = status
  <2>. DEFINE new == [req[r] EXCEPT !.at = at, !.client = c, !.kind = a.kind, !.arg = a.arg,
                                    !.user = user, !.cookie = cookie, !.status = status]
  <2>1. req[r] = NoRequest("idle")
    BY <1>3, <1>4 DEF Update, Fits
  <2>3. req' = [req EXCEPT ![r] = new]
    BY <1>3, <1>4 DEF Update
  <2>4. user \in 0 .. max
    BY <1>2, <1>4
  <2>5. req[r] \in RequestType(users)
    BY <1>3
  <2>6. new \in RequestType(max)
    BY <1>1, <2>4, <2>5 DEF RequestType, Places
  <2>7. /\ new.client = c /\ new.kind = a.kind /\ new.arg = a.arg /\ new.at = at
        /\ new.user = user /\ new.cookie = cookie /\ new.status = status
    BY <2>5 DEF RequestType
  <2>. HIDE DEF new
  <2>. QED BY <2>1, <2>3, <2>6, <2>7
<1>5. CASE AuthNew(r, c, a)
  <2>1. users + 1 \in 0 .. MaxUsers /\ users' = users + 1 /\ users' \in Nat
    BY <1>2, <1>5 DEF AuthNew
  <2>2. [user |-> users + 1, key |-> key] \in Tokens
    BY <1>2, <2>1 DEF Tokens, Users
  <2>3. Update(r, c, a, users + 1, [user |-> users + 1, key |-> key], "handler", "none")
    BY <1>5, <2>1 DEF AuthNew
  <2>4. "none" \in Statuses
    BY DEF Statuses
  <2>. QED BY <1>4, <1>5, <2>1, <2>2, <2>3, <2>4 DEF AuthNew
<1>6. CASE AuthKnown(r, c, a)
  <2>1. /\ Update(r, c, a, jar[c].user, NoToken, "handler", "none")
        /\ jar[c] \in Tokens /\ jar[c].key = key /\ UNCHANGED <<server, jar, history>>
    BY <1>6 DEF AuthKnown, Verify
  <2>2. jar[c].user \in 0 .. MaxUsers /\ jar[c].user <= users /\ users \in Nat
    BY <1>2, <2>1
  <2>3. "none" \in Statuses
    BY DEF Statuses
  <2>. QED BY <1>4, <2>1, <2>2, <2>3 DEF server, history
<1>7. CASE AuthMalformed(r, c, a)
  <2>1. "unauthorized" \in Statuses /\ 0 \in 0 .. MaxUsers /\ 0 <= users /\ users \in Nat
    BY <1>2 DEF Statuses
  <2>. QED BY <1>4, <1>7, <2>1 DEF AuthMalformed, Anonymous, server, history
<1>8. CASE Intercept(r, c, a)
  <2>1. PICK token \in {NoToken, jar[c]}, user \in 0 .. MaxUsers :
          /\ user = UserIDFromAuthorization(token)
          /\ \/ Update(r, c, a, user, NoToken, "handled", "unauthenticated")
             \/ Update(r, c, a, user, NoToken, "handler", "none")
    <3>1. ASSUME NEW token \in {NoToken, jar[c]}
          PROVE  UserIDFromAuthorization(token) \in 0 .. MaxUsers
      <4>1. token \in Tokens => token.user \in 0 .. MaxUsers
        BY <1>2 DEF Tokens, Users
      <4>. QED BY <1>2, <4>1 DEF UserIDFromAuthorization, Anonymous
    <3>. QED BY <1>8, <3>1 DEF Intercept
  <2>2. \/ user = 0
        \/ jar[c] \in Tokens /\ jar[c].key = key /\ user = jar[c].user
    BY <1>2, <2>1, ValueAssumption DEF UserIDFromAuthorization, Verify, Anonymous, Tokens, Users
  <2>3. user <= users /\ users \in Nat
    BY <1>2, <2>2
  <2>4. {"unauthenticated", "none"} \subseteq Statuses
    BY DEF Statuses
  <2>5. ~Http(a) /\ UNCHANGED <<server, jar, history>>
    BY <1>8 DEF Intercept
  <2>6. UNCHANGED <<mem, unowned, key, stopping, users, wanted, events, jar, raced, creator, answered, asked>>
    BY <2>5 DEF server, history
  <2>7. CASE Update(r, c, a, user, NoToken, "handled", "unauthenticated")
    BY <1>4, <2>2, <2>3, <2>4, <2>5, <2>6, <2>7 DEF Anonymous
  <2>8. CASE Update(r, c, a, user, NoToken, "handler", "none")
    BY <1>4, <2>2, <2>3, <2>4, <2>5, <2>6, <2>8 DEF Anonymous
  <2>. QED BY <2>1, <2>7, <2>8
<1>. QED BY <1>5, <1>6, <1>7, <1>8 DEF Send

\* A request is answered by its handler.
LEMMA Replies ==
  ASSUME IInv, NEW r \in Requests, NEW status \in Statuses, req[r].at = "handler", Reply(r, status)
  PROVE  \E new \in RequestType(users) :
           /\ req' = [req EXCEPT ![r] = new]
           /\ new.client = req[r].client /\ new.kind = req[r].kind /\ new.arg = req[r].arg
           /\ new.user = req[r].user /\ new.cookie = req[r].cookie
           /\ new.at = (IF Http(req[r]) THEN "audit" ELSE "handled") /\ new.status = status
<1>. DEFINE new == [req[r] EXCEPT !.at = IF Http(req[r]) THEN "audit" ELSE "handled",
                                  !.status = status]
<1>1. req \in [Requests -> RequestType(users)]
  BY DEF IInv, RequestInv
<1>2. req' = [req EXCEPT ![r] = new]
  BY <1>1 DEF Reply
<1>3. new \in RequestType(users)
  BY <1>1 DEF RequestType, Places
<1>4. /\ new.client = req[r].client /\ new.kind = req[r].kind /\ new.arg = req[r].arg
      /\ new.user = req[r].user /\ new.cookie = req[r].cookie
      /\ new.at = (IF Http(req[r]) THEN "audit" ELSE "handled") /\ new.status = status
  BY <1>1 DEF RequestType
<1>. HIDE DEF new
<1>. QED BY <1>2, <1>3, <1>4

LEMMA Served ==
  ASSUME IInv, NEW r \in Requests, Serve(r)
  PROVE  /\ UNCHANGED <<key, stopping, users, events, jar, raced, answered>>
         /\ req[r].at = "handler"
         /\ \E new \in RequestType(users) :
              /\ req' = [req EXCEPT ![r] = new]
              /\ new.client = req[r].client /\ new.kind = req[r].kind /\ new.arg = req[r].arg
              /\ new.user = req[r].user /\ new.cookie = req[r].cookie
              /\ new.at = (IF Http(req[r]) THEN "audit" ELSE "handled")
              /\ new.status # "unauthorized"
              /\ new.status = "created" => Create(r) \/ (req[r].kind = "batch" /\ req[r].arg \in DOMAIN mem.short)
              /\ new.status = "redirect" => req[r].kind = "follow" /\ req[r].arg \in DOMAIN mem.orig
         /\ Create(r) \/ UNCHANGED <<mem, unowned, creator>>
         /\ Delete(r) \/ UNCHANGED <<wanted, asked>>
<1>. USE DEF Serves
<1>1. req[r].at = "handler"
  BY DEF Serve, Existing, Create, Follow, Delete, DeleteRefused, List
<1>2. UNCHANGED <<key, stopping, users, events, jar, raced, answered>>
      /\ (Create(r) \/ UNCHANGED <<mem, unowned, creator>>) /\ (Delete(r) \/ UNCHANGED <<wanted, asked>>)
  BY DEF Serve, Existing, Create, Follow, Delete, DeleteRefused, List, server, history
<1>3. \E status \in Statuses :
        /\ Reply(r, status) /\ status # "unauthorized"
        /\ status = "created" => Create(r) \/ (req[r].kind = "batch" /\ req[r].arg \in DOMAIN mem.short)
        /\ status = "redirect" => req[r].kind = "follow" /\ req[r].arg \in DOMAIN mem.orig
  <2>. USE DEF Statuses, Success
  <2>1. CASE Existing(r)
    <3>1. \E status \in {"conflict", "created", "ok"} :
            Reply(r, status) /\ (status = "created" => req[r].kind = "batch")
      BY <2>1 DEF Existing
    <3>. QED BY <2>1, <3>1 DEF Existing
  <2>2. CASE Create(r)
    <3>1. Reply(r, "created")
      BY <2>2 DEF Create
    <3>. QED BY <2>2, <3>1
  <2>3. CASE Follow(r)
    <3>1. req[r].arg \notin DOMAIN mem.orig => Find(mem, req[r].arg) = NotFound
      BY DEF Find
    <3>. QED BY <2>3, <3>1 DEF Follow
  <2>4. CASE Delete(r)
    BY <2>4 DEF Delete
  <2>5. CASE List(r)
    BY <2>5 DEF List
  <2>6. CASE DeleteRefused(r)
    BY <2>6 DEF DeleteRefused
  <2>. QED BY <2>1, <2>2, <2>3, <2>4, <2>5, <2>6 DEF Serve
<1>. QED BY <1>1, <1>2, <1>3, Replies

\* The middleware is done with a request.
LEMMA Logged ==
  ASSUME IInv, NEW r \in Requests, Log(r)
  PROVE  /\ UNCHANGED <<mem, unowned, key, stopping, users, wanted, jar, raced, creator, answered,
                      asked>>
         /\ req[r].at = "audit"
         /\ \E new \in RequestType(users) :
              /\ req' = [req EXCEPT ![r] = new]
              /\ new.client = req[r].client /\ new.kind = req[r].kind /\ new.arg = req[r].arg
              /\ new.user = req[r].user /\ new.cookie = req[r].cookie
              /\ new.at = "handled" /\ new.status = req[r].status
<1>. DEFINE new == [req[r] EXCEPT !.at = "handled"]
<1>1. req \in [Requests -> RequestType(users)]
  BY DEF IInv, RequestInv
<1>2. req' = [req EXCEPT ![r] = new]
  BY <1>1 DEF Log
<1>3. new \in RequestType(users)
  BY <1>1 DEF RequestType, Places
<1>4. /\ new.client = req[r].client /\ new.kind = req[r].kind /\ new.arg = req[r].arg
      /\ new.user = req[r].user /\ new.cookie = req[r].cookie
      /\ new.at = "handled" /\ new.status = req[r].status
  BY <1>1 DEF RequestType
<1>. HIDE DEF new
<1>. QED BY <1>2, <1>3, <1>4 DEF Log, history

-----------------------------------------------------------------------------
LEMMA InitInv == Init => IInv
<1>. SUFFICES ASSUME Init PROVE IInv
  OBVIOUS
<1>. USE BoundAssumption
<1>1. JarInv
  BY ValueAssumption DEF Init, JarInv, Tokens, Users
<1>2. RequestInv /\ AnswerInv
  <2>1. \A r \in Requests : Fits(req[r]) /\ True(req[r])
    BY BlankFits DEF Init
  <2>2. req \in [Requests -> RequestType(users)]
    BY Blank DEF Init
  <2>. QED BY <2>1, <2>2 DEF RequestInv, AnswerInv
<1>3. StoreInv
  BY DEF Init, StoreInv, EmptyStorage, MapNames
<1>4. OneIdentity
  <2>1. \A r \in Requests : req[r].cookie = NoToken /\ req[r].user = 0
    BY Blank DEF Init
  <2>. QED BY <2>1 DEF OneIdentity, Anonymous
<1>5. AnsweredInv /\ EventInv
  BY DEF Init, AnsweredInv, EventInv
<1>6. HolderInv
  <2>1. ASSUME NEW c \in Clients, NEW u \in Users
        PROVE  ~Holds(c, u)
    <3>1. \A r \in Requests : req[r].user = 0
      BY Blank DEF Init
    <3>2. jar[c] \notin Tokens
      BY ValueAssumption DEF Init, Tokens, Users
    <3>. QED BY <3>1, <3>2 DEF Holds, Init, EmptyStorage, Users
  <2>. QED BY <2>1 DEF HolderInv, OnlyCreatorDeletes, Init, EmptyStorage
<1>7. stopping \in BOOLEAN
  BY Zenon DEF Init
<1>. QED BY <1>1, <1>2, <1>3, <1>4, <1>5, <1>6, <1>7 DEF IInv

-----------------------------------------------------------------------------
LEMMA Numbers ==
  ASSUME IInv
  PROVE  /\ users \in 0 .. MaxUsers /\ users \in Nat /\ MaxUsers \in Nat
         /\ key \in 1 .. MaxKey /\ key \in Nat /\ MaxKey \in Nat /\ MaxIds \in Nat
BY BoundAssumption DEF IInv, JarInv

\* A cookie on its way is a token of the process that runs.
LEMMA CookieOf ==
  ASSUME IInv, NEW r \in Requests, req[r].cookie # NoToken
  PROVE  /\ req[r].cookie \in Tokens /\ req[r].cookie = [user |-> req[r].user, key |-> key]
         /\ req[r].cookie.user = req[r].user /\ req[r].cookie.key = key
         /\ req[r].user \in 1 .. users /\ req[r].client \in Clients
<1>1. req[r] \in RequestType(users) /\ Fits(req[r])
  BY DEF IInv, RequestInv
<1>2. req[r].cookie \in Tokens /\ req[r].cookie = [user |-> req[r].user, key |-> key]
  BY <1>1 DEF RequestType, Fits
<1>3. req[r].user \in 1 .. users
  BY <1>1, <1>2, Numbers DEF RequestType, Tokens, Users
<1>4. req[r].at \notin {"idle", "done"}
  BY <1>1, Blank DEF Fits
<1>5. req[r].cookie.user = req[r].user /\ req[r].cookie.key = key
  BY <1>2
<1>. QED BY <1>1, <1>2, <1>3, <1>4, <1>5 DEF RequestType, Places, Fits

\* What the steps on a request have in common, and the other steps.
LEMMA Steps ==
  ASSUME [Next]_vars
  PROVE  \/ \E r \in Requests, c \in Clients, a \in Asks : Send(r, c, a)
         \/ \E r \in Requests : Serve(r)
         \/ \E r \in Requests : Log(r)
         \/ \E r \in Requests : Receive(r)
         \/ \E r \in Requests : Lose(r)
         \/ Mark \/ Stop \/ Restart \/ UNCHANGED vars
BY DEF Next

LEMMA UsersGrow == IInv /\ [Next]_vars => users' \in Nat /\ users <= users'
<1>. SUFFICES ASSUME IInv, [Next]_vars PROVE users' \in Nat /\ users <= users'
  OBVIOUS
<1>1. users' \in {users, users + 1}
  <2>1. CASE \E r \in Requests, c \in Clients, a \in Asks : Send(r, c, a)
    BY <2>1, Arrives
  <2>2. CASE ~\E r \in Requests, c \in Clients, a \in Asks : Send(r, c, a)
    BY <2>2, Steps, Served, Logged DEF Receive, Lose, Mark, Stop, Restart, vars, server, history
  <2>. QED BY <2>1, <2>2
<1>. QED BY <1>1, Numbers

LEMMA StoppingNext == IInv /\ [Next]_vars => stopping' \in BOOLEAN
<1>. SUFFICES ASSUME IInv, [Next]_vars PROVE stopping' \in BOOLEAN
  OBVIOUS
<1>1. stopping \in BOOLEAN
  BY DEF IInv
<1>2. stopping' = stopping \/ stopping' = TRUE \/ stopping' = FALSE
  BY Steps, Arrives, Served, Logged, Zenon
     DEF Receive, Lose, Mark, Stop, Restart, vars, server, history
<1>. QED BY <1>1, <1>2, Zenon

LEMMA JarNext == IInv /\ [Next]_vars => JarInv'
<1>. SUFFICES ASSUME IInv, [Next]_vars PROVE JarInv'
  OBVIOUS
<1>. USE Numbers DEF JarInv
<1>0. JarInv
  BY DEF IInv
<1>1. ASSUME NEW r \in Requests, NEW c \in Clients, NEW a \in Asks, Send(r, c, a)
      PROVE  JarInv'
  <2>1. users' \in {users, users + 1} /\ users' <= MaxUsers /\ jar' = jar /\ key' = key
        /\ raced' \subseteq Clients
    BY <1>0, <1>1, Arrives
  <2>2. \A d \in Clients : jar[d] \in Tokens => jar[d].user \in Nat
    BY DEF Tokens, Users
  <2>. QED BY <1>0, <2>1, <2>2
<1>2. ASSUME NEW r \in Requests, Serve(r) \/ Log(r) \/ Lose(r)
      PROVE  JarInv'
  BY <1>0, <1>2, Served DEF Log, Lose, server, history
<1>3. ASSUME NEW r \in Requests, Receive(r)
      PROVE  JarInv'
  <2>1. UNCHANGED <<key, users, raced>>
    BY <1>3 DEF Receive, server
  <2>2. CASE req[r].cookie = NoToken
    BY <1>0, <1>3, <2>1, <2>2 DEF Receive, SetCookie
  <2>3. CASE req[r].cookie # NoToken
    <3>1. jar' = [jar EXCEPT ![req[r].client] = req[r].cookie]
      BY <1>3, <2>3 DEF Receive, SetCookie
    <3>2. req[r].cookie \in Tokens /\ req[r].client \in Clients
          /\ req[r].cookie.user = req[r].user /\ req[r].user \in 1 .. users
      BY <2>3, CookieOf
    <3>. QED BY <1>0, <2>1, <3>1, <3>2
  <2>. QED BY <2>2, <2>3
<1>4. CASE Mark \/ Stop \/ Restart \/ UNCHANGED vars
  BY <1>0, <1>4 DEF Mark, Stop, Restart, vars, server, history
<1>. QED BY <1>1, <1>2, <1>3, <1>4, Steps

LEMMA RequestNext == IInv /\ [Next]_vars => RequestInv'
<1>. SUFFICES ASSUME IInv, [Next]_vars PROVE RequestInv'
  OBVIOUS
<1>1. /\ req \in [Requests -> RequestType(users)] /\ \A r \in Requests : Fits(req[r])
      /\ users' \in Nat /\ users' >= users
  <2>1. users' \in Nat /\ users' >= users
    BY UsersGrow, Numbers
  <2>. QED BY <2>1 DEF IInv, RequestInv
<1>2. \A q \in RequestType(users) : q \in RequestType(users')
  BY <1>1, Numbers DEF RequestType
<1>3. ASSUME NEW r \in Requests, NEW new \in RequestType(users'), Fits(new)', key' = key,
             req' = [req EXCEPT ![r] = new]
      PROVE  RequestInv'
  <2>1. req' \in [Requests -> RequestType(users')]
    BY <1>1, <1>2, <1>3
  <2>2. ASSUME NEW q \in Requests
        PROVE  Fits(req[q])'
    <3>1. CASE q = r
      BY <1>1, <1>3, <3>1
    <3>2. CASE q # r
      <4>1. req'[q] = req[q] /\ Fits(req[q])
        BY <1>1, <1>3, <3>2
      <4>. QED BY <1>3, <4>1 DEF Fits
    <3>. QED BY <3>1, <3>2
  <2>. QED BY <2>1, <2>2 DEF RequestInv
<1>4. ASSUME NEW r \in Requests, NEW c \in Clients, NEW a \in Asks, Send(r, c, a)
      PROVE  RequestInv'
  <2>1. PICK new \in RequestType(users') :
          /\ req' = [req EXCEPT ![r] = new]
          /\ new.client = c /\ new.kind = a.kind /\ new.arg = a.arg
          /\ \/ new.at = "handler" /\ new.status = "none"
             \/ new.at = "handled" /\ new.status \in {"unauthorized", "unauthenticated"}
          /\ \/ /\ users' = users + 1 /\ new.user = users'
                /\ new.cookie = [user |-> users', key |-> key]
             \/ /\ new.cookie = NoToken /\ new.user = Anonymous
                /\ Http(a) => new.status = "unauthorized"
             \/ /\ new.cookie = NoToken /\ jar[c] \in Tokens /\ new.user = jar[c].user
    BY <1>4, Arrives
  <2>2. key' = key
    BY <1>4, Arrives
  <2>3. /\ new.kind \in Shortens => new.arg \in Originals
        /\ new.kind \in {"follow", "delete"} => new.arg \in Ids
    BY <2>1 DEF Asks, Shortens
  <2>4. Http(new) /\ new.user = Anonymous => new.status = "unauthorized"
    <3>1. Http(new) <=> Http(a)
      BY <2>1 DEF Http
    <3>2. jar[c] \in Tokens => jar[c].user # 0
      BY DEF Tokens, Users
    <3>. QED BY <2>1, <3>1, <3>2, Numbers DEF Anonymous
  <2>5. new.cookie # NoToken => new.cookie = [user |-> new.user, key |-> key]
    BY <2>1
  <2>6. Fits(new)'
    BY <2>1, <2>2, <2>3, <2>4, <2>5 DEF Fits
  <2>. QED BY <1>3, <2>1, <2>2, <2>6
<1>5. ASSUME NEW r \in Requests, Serve(r)
      PROVE  RequestInv'
  <2>1. PICK new \in RequestType(users) :
          /\ req' = [req EXCEPT ![r] = new]
          /\ new.client = req[r].client /\ new.kind = req[r].kind /\ new.arg = req[r].arg
          /\ new.user = req[r].user /\ new.cookie = req[r].cookie
          /\ new.at = (IF Http(req[r]) THEN "audit" ELSE "handled")
          /\ new.status = "created" => Create(r) \/ (req[r].kind = "batch" /\ req[r].arg \in DOMAIN mem.short)
          /\ new.status = "redirect" => req[r].kind = "follow"
    BY <1>5, Served
  <2>2. key' = key /\ users' = users /\ req[r].at = "handler"
    BY <1>5, Served
  <2>3. new.status = "created" => req[r].kind \in Shortens
    BY <2>1 DEF Create, Serves, Shortens
  <2>4. Http(new) <=> Http(req[r])
    BY <2>1 DEF Http
  <2>5. Fits(new)'
    BY <1>1, <2>1, <2>2, <2>3, <2>4 DEF Fits
  <2>. QED BY <1>3, <2>1, <2>2, <2>5
<1>6. ASSUME NEW r \in Requests, Log(r)
      PROVE  RequestInv'
  <2>1. PICK new \in RequestType(users) :
          /\ req' = [req EXCEPT ![r] = new]
          /\ new.client = req[r].client /\ new.kind = req[r].kind /\ new.arg = req[r].arg
          /\ new.user = req[r].user /\ new.cookie = req[r].cookie
          /\ new.at = "handled" /\ new.status = req[r].status
    BY <1>6, Logged
  <2>2. key' = key /\ users' = users /\ req[r].at = "audit"
    BY <1>6, Logged
  <2>3. Http(new) <=> Http(req[r])
    BY <2>1 DEF Http
  <2>4. Fits(new)'
    BY <1>1, <2>1, <2>2, <2>3 DEF Fits
  <2>. QED BY <1>3, <2>1, <2>2, <2>4
<1>7. ASSUME NEW r \in Requests, Receive(r) \/ Lose(r)
      PROVE  RequestInv'
  <2>1. key' = key /\ req' = [req EXCEPT ![r] = NoRequest("done")]
    BY <1>7 DEF Receive, Lose, End, server
  <2>2. NoRequest("done") \in RequestType(users')
    BY <1>1, Blank
  <2>3. Fits(NoRequest("done"))'
    BY Blank DEF Fits, Http, Shortens
  <2>. QED BY <1>3, <2>1, <2>2, <2>3
<1>8. CASE Restart
  <2>1. ASSUME NEW r \in Requests
        PROVE  req'[r] \in RequestType(users') /\ \E at \in {"idle", "done"} : req'[r] = NoRequest(at)
    BY <1>1, <1>8, Blank DEF Restart, Fits
  <2>2. \A r \in Requests : Fits(req[r])'
    BY <2>1, Blank DEF Fits, Http, Shortens
  <2>3. DOMAIN req' = Requests /\ req' = [r \in Requests |-> req'[r]]
    BY <1>8 DEF Restart
  <2>. QED BY <2>1, <2>2, <2>3 DEF RequestInv
<1>9. CASE Mark \/ Stop \/ UNCHANGED vars
  <2>1. UNCHANGED <<req, key, users>>
    BY <1>9 DEF Mark, Stop, vars, server
  <2>. QED BY <1>1, <2>1 DEF RequestInv, Fits
<1>. QED BY <1>4, <1>5, <1>6, <1>7, <1>8, <1>9, Steps

-----------------------------------------------------------------------------
(* The links *)

\* A new link, and all the others as they were.
LEMMA NewLink ==
  ASSUME IInv, NEW r \in Requests, Create(r)
  PROVE  \E id \in Ids :
           /\ id \notin DOMAIN mem.orig /\ req[r].arg \notin DOMAIN mem.short
           /\ MapNames \subseteq DOMAIN mem' /\ mem'.deleted = mem.deleted
           /\ DOMAIN mem'.orig = DOMAIN mem.orig \cup {id} /\ mem'.orig[id] = req[r].arg
           /\ DOMAIN mem'.user = DOMAIN mem.orig \cup {id} /\ mem'.user[id] = req[r].user
           /\ DOMAIN creator' = DOMAIN mem.orig \cup {id} /\ creator'[id] = req[r].client
           /\ DOMAIN mem'.short = DOMAIN mem.short \cup {req[r].arg} /\ mem'.short[req[r].arg] = id
           /\ \A s \in DOMAIN mem.orig :
                mem'.orig[s] = mem.orig[s] /\ mem'.user[s] = mem.user[s] /\ creator'[s] = creator[s]
           /\ \A o \in DOMAIN mem.short : mem'.short[o] = mem.short[o]
           /\ unowned' = unowned \cup (IF req[r].kind = "batch" THEN {id} ELSE {})
<1>1. PICK id \in Ids \ DOMAIN mem.orig :
        /\ mem' = SaveNoLock(mem, Url(id, req[r].arg, req[r].user, FALSE))
        /\ creator' = Put(creator, id, req[r].client)
        /\ unowned' = unowned \cup (IF req[r].kind = "batch" THEN {id} ELSE {})
  BY DEF Create
<1>2. MapNames \subseteq DOMAIN mem' /\ mem'.deleted = mem.deleted
  BY <1>1 DEF SaveNoLock, Url, MapNames
<1>3. /\ mem'.orig = Put(mem.orig, id, req[r].arg) /\ mem'.user = Put(mem.user, id, req[r].user)
      /\ mem'.short = Put(mem.short, req[r].arg, id)
  BY <1>1 DEF SaveNoLock, Url
<1>4. /\ DOMAIN mem.user = DOMAIN mem.orig /\ DOMAIN creator = DOMAIN mem.orig
      /\ req[r].arg \notin DOMAIN mem.short
  BY DEF IInv, StoreInv, Create
<1>. QED BY <1>1, <1>2, <1>3, <1>4 DEF Put

LEMMA MarkedLinks ==
  ASSUME IInv, Mark
  PROVE  \E w \in wanted :
           /\ wanted' = wanted \ {w} /\ unowned' = unowned
           /\ MapNames \subseteq DOMAIN mem' /\ UNCHANGED <<mem.orig, mem.short, mem.user>>
           /\ mem'.deleted = mem.deleted \cup {s \in {w[2]} \cap DOMAIN mem.user : mem.user[s] = w[1]}
BY DEF Mark, MarkDeleted, IInv, StoreInv, MapNames

\* Steps that make no link and mark none.
LEMMA SameLinks ==
  ASSUME IInv, [Next]_vars, ~Mark, \A r \in Requests : ~Create(r)
  PROVE  UNCHANGED <<mem, unowned, creator>>
BY Steps, Arrives, Served DEF Log, Receive, Lose, Stop, Restart, vars, server, history

\* What is stored stays, but for the marks.
LEMMA Stored ==
  ASSUME IInv, [Next]_vars
  PROVE  /\ \A s \in DOMAIN mem.orig :
              /\ s \in DOMAIN mem'.orig /\ mem'.orig[s] = mem.orig[s]
              /\ mem'.user[s] = mem.user[s] /\ creator'[s] = creator[s]
              /\ s \in unowned' => s \in unowned
         /\ \A o \in DOMAIN mem.short : o \in DOMAIN mem'.short /\ mem'.short[o] = mem.short[o]
<1>1. CASE \E r \in Requests : Create(r)
  BY <1>1, NewLink
<1>2. CASE Mark
  BY <1>2, MarkedLinks DEF Mark, history
<1>. QED BY <1>1, <1>2, SameLinks

LEMMA StoreNext == IInv /\ [Next]_vars => StoreInv'
<1>. SUFFICES ASSUME IInv, [Next]_vars PROVE StoreInv'
  OBVIOUS
<1>0. StoreInv
  BY DEF IInv
<1>1. ASSUME NEW r \in Requests, Create(r)
      PROVE  StoreInv'
  <2>1. PICK id \in Ids :
           /\ id \notin DOMAIN mem.orig /\ req[r].arg \notin DOMAIN mem.short
           /\ MapNames \subseteq DOMAIN mem' /\ mem'.deleted = mem.deleted
           /\ DOMAIN mem'.orig = DOMAIN mem.orig \cup {id} /\ mem'.orig[id] = req[r].arg
           /\ DOMAIN mem'.user = DOMAIN mem.orig \cup {id} /\ mem'.user[id] = req[r].user
           /\ DOMAIN creator' = DOMAIN mem.orig \cup {id} /\ creator'[id] = req[r].client
           /\ DOMAIN mem'.short = DOMAIN mem.short \cup {req[r].arg} /\ mem'.short[req[r].arg] = id
           /\ \A s \in DOMAIN mem.orig :
                mem'.orig[s] = mem.orig[s] /\ mem'.user[s] = mem.user[s] /\ creator'[s] = creator[s]
           /\ \A o \in DOMAIN mem.short : mem'.short[o] = mem.short[o]
           /\ unowned' = unowned \cup (IF req[r].kind = "batch" THEN {id} ELSE {})
    BY <1>1, NewLink
  <2>2. req[r].at = "handler" /\ req[r].kind \in Shortens /\ users' = users
    BY <1>1 DEF Create, Serves, Shortens
  <2>3. req[r].client \in Clients /\ req[r].arg \in Originals /\ req[r].user \in 0 .. users
    BY <2>2 DEF IInv, RequestInv, RequestType, Fits
  <2>. QED BY <1>0, <2>1, <2>2, <2>3 DEF StoreInv
<1>2. CASE Mark
  BY <1>0, <1>2, MarkedLinks DEF Mark, history, StoreInv
<1>3. CASE UNCHANGED <<mem, unowned, creator>>
  <2>1. \A s \in DOMAIN mem.orig : mem.user[s] \in 0 .. users'
    BY <1>0, UsersGrow, Numbers DEF StoreInv
  <2>. QED BY <1>0, <1>3, <2>1 DEF StoreInv
<1>. QED BY <1>1, <1>2, <1>3, SameLinks

LEMMA StopsOnce ==
  ASSUME IInv, [Next]_vars
  PROVE  stopping' = stopping \/ Stop \/ Restart
BY Steps, Arrives, Served, Logged DEF Receive, Lose, Mark, vars, server, history

LEMMA EventsGrow == IInv /\ [Next]_vars => events \subseteq events'
BY Steps, Arrives, Served DEF Log, Receive, Lose, Mark, Stop, Restart, vars, server, history

LEMMA AnswerNext == IInv /\ [Next]_vars => AnswerInv'
<1>. SUFFICES ASSUME IInv, [Next]_vars PROVE AnswerInv'
  OBVIOUS
<1>0. \A r \in Requests : True(req[r]) /\ Fits(req[r]) /\ req[r] \in RequestType(users)
  BY DEF IInv, AnswerInv, RequestInv
<1>. USE DEF IInv
<1>7. CASE Restart
  <2>1. \A r \in Requests : \E at \in {"idle", "done"} : req'[r] = NoRequest(at)
    BY <1>0, <1>7 DEF Restart, Fits
  <2>. QED BY <2>1, Blank DEF AnswerInv, True, Created, Shortens
<1>. SUFFICES ASSUME ~Restart PROVE AnswerInv'
  BY <1>7
<1>9. stopping => stopping'
  BY StopsOnce, Zenon DEF Stop
<1>1. ASSUME NEW q, True(q)
      PROVE  True(q)'
  <2>1. \A o \in DOMAIN mem.short :
          /\ o \in DOMAIN mem'.short /\ mem'.user[mem'.short[o]] = mem.user[mem.short[o]]
          /\ mem'.short[o] \in unowned' => mem.short[o] \in unowned
    BY Stored DEF StoreInv
  <2>. QED BY <1>1, <1>9, <2>1, Stored, EventsGrow DEF True, Created
<1>2. ASSUME NEW r \in Requests, NEW new, req' = [req EXCEPT ![r] = new], True(new)'
      PROVE  AnswerInv'
  <2>1. \A q \in Requests : req'[q] = IF q = r THEN new ELSE req[q]
    BY <1>2 DEF RequestInv
  <2>. QED BY <1>0, <1>1, <1>2, <2>1 DEF AnswerInv, True, Created
<1>3. ASSUME NEW r \in Requests, NEW c \in Clients, NEW a \in Asks, Send(r, c, a)
      PROVE  AnswerInv'
  <2>1. PICK new \in RequestType(users') :
          req' = [req EXCEPT ![r] = new]
          /\ new.status \in {"none", "unauthorized", "unauthenticated"}
    BY <1>3, Arrives
  <2>2. True(new)'
    BY <2>1 DEF True, Created
  <2>. QED BY <1>2, <2>1, <2>2
<1>4. ASSUME NEW r \in Requests, Serve(r)
      PROVE  AnswerInv'
  <2>1. PICK new \in RequestType(users) :
          /\ req' = [req EXCEPT ![r] = new]
          /\ new.kind = req[r].kind /\ new.arg = req[r].arg /\ new.user = req[r].user
          /\ new.at = (IF Http(req[r]) THEN "audit" ELSE "handled")
          /\ new.status = "created" => Create(r) \/ (req[r].kind = "batch" /\ req[r].arg \in DOMAIN mem.short)
          /\ new.status = "redirect" => req[r].arg \in DOMAIN mem.orig
    BY <1>4, Served
  <2>2. Create(r) =>
          /\ req[r].arg \in DOMAIN mem'.short /\ mem'.user[mem'.short[req[r].arg]] = req[r].user
          /\ req[r].kind # "batch" => mem'.short[req[r].arg] \notin unowned'
    BY NewLink DEF StoreInv
  <2>3. new.kind = "shorten" => new.at = "audit"
    BY <2>1 DEF Http
  <2>4. True(new)'
    BY <2>1, <2>2, <2>3, Stored DEF True, Created
  <2>. QED BY <1>2, <2>1, <2>4
<1>5. ASSUME NEW r \in Requests, Log(r)
      PROVE  AnswerInv'
  <2>1. PICK new \in RequestType(users) :
          /\ req' = [req EXCEPT ![r] = new]
          /\ new.kind = req[r].kind /\ new.arg = req[r].arg /\ new.user = req[r].user
          /\ new.status = req[r].status
    BY <1>5, Logged
  <2>2. req[r].kind = "shorten" /\ Created(req[r]) =>
          ShortenEvent(req[r].user, req[r].arg) \in events' \/ stopping
    <3>. SUFFICES ASSUME req[r].kind = "shorten", Created(req[r]), ~stopping
                  PROVE  ShortenEvent(req[r].user, req[r].arg) \in events'
      OBVIOUS
    <3>1. Action(r) = ShortenEvent(req[r].user, req[r].arg)
      BY DEF Action, ShortenEvent, Created
    <3>2. ShortenEvent(req[r].user, req[r].arg) # NoToken
      <4>1. req[r].user \in 0 .. MaxUsers /\ req[r].arg \in Originals
        <5>1. req[r].user \in 0 .. users
          BY <1>0 DEF RequestType
        <5>2. req[r].arg \in Originals
          BY <1>0 DEF Fits, Shortens
        <5>. QED BY <5>1, <5>2, Numbers
      <4>. QED BY <4>1, ValueAssumption DEF ShortenEvent
    <3>3. req[r].status \in Success
      BY DEF Created, Success
    <3>. QED BY <1>5, <3>1, <3>2, <3>3 DEF Log
  <2>3. True(new)'
    BY <1>0, <1>1, <1>9, <2>1, <2>2, Stored DEF True, Created, StoreInv
  <2>. QED BY <1>2, <2>1, <2>3
<1>6. ASSUME NEW r \in Requests, Receive(r) \/ Lose(r)
      PROVE  AnswerInv'
  <2>1. req' = [req EXCEPT ![r] = NoRequest("done")]
    BY <1>6 DEF Receive, Lose, End
  <2>. QED BY <1>1, <1>2, <2>1, BlankFits
<1>8. CASE Mark \/ Stop \/ UNCHANGED vars
  <2>1. req' = req
    BY <1>8 DEF Mark, Stop, vars
  <2>. QED BY <1>0, <1>1, <2>1 DEF AnswerInv, True, Created
<1>. QED BY <1>3, <1>4, <1>5, <1>6, <1>8, Steps

-----------------------------------------------------------------------------
(* Identities *)

\* The invariant for one request.
Single(r) ==
  req[r].client \in Clients \ raced =>
    /\ req[r].cookie # NoToken =>
         /\ Fresh(jar[req[r].client])
         /\ \A q \in Requests \ {r} :
              req[q].client = req[r].client => req[q].cookie = NoToken
    /\ req[r].cookie = NoToken /\ req[r].user # Anonymous =>
         jar[req[r].client] = [user |-> req[r].user, key |-> key]

\* A request that stays as it is, among requests that bring no new cookie.
LEMMA SingleKept ==
  ASSUME IInv, NEW r \in Requests, req'[r] = req[r], UNCHANGED <<key, jar>>, raced \subseteq raced',
         \A q \in Requests : \/ req'[q].client = req[q].client /\ req'[q].cookie = req[q].cookie
                            \/ req'[q].cookie = NoToken
  PROVE  Single(r)'
<1>1. Single(r)
  BY DEF IInv, OneIdentity, Single
<1>. QED BY <1>1 DEF Single, Fresh, Verify

LEMMA OneNext == IInv /\ [Next]_vars => OneIdentity'
<1>. SUFFICES ASSUME IInv, [Next]_vars, NEW q \in Requests PROVE Single(q)'
  BY DEF OneIdentity, Single
<1>0. /\ req \in [Requests -> RequestType(users)] /\ JarInv
      /\ \A r \in Requests : Single(r) /\ Fits(req[r])
  BY DEF IInv, RequestInv, OneIdentity, Single
<1>1. ASSUME NEW r \in Requests, NEW c \in Clients, NEW a \in Asks, Send(r, c, a)
      PROVE  Single(q)'
  <2>1. PICK new \in RequestType(users') :
          /\ req' = [req EXCEPT ![r] = new] /\ new.client = c
          /\ \/ /\ users' = users + 1 /\ new.cookie # NoToken /\ Fresh(jar[c])
                /\ raced' = IF Unreceived(c) # {} THEN raced \cup {c} ELSE raced
             \/ raced' = raced /\ new.cookie = NoToken /\ new.user = Anonymous
             \/ /\ raced' = raced /\ new.cookie = NoToken
                /\ jar[c] \in Tokens /\ jar[c].key = key /\ new.user = jar[c].user
    <3>1. users + 1 \in Users /\ key \in 1 .. MaxKey => [user |-> users + 1, key |-> key] # NoToken
      BY ValueAssumption DEF Users
    <3>2. users < MaxUsers => users + 1 \in Users /\ key \in 1 .. MaxKey
      BY Numbers DEF Users
    <3>. QED BY <1>1, <3>1, <3>2, Arrives
  <2>2. UNCHANGED <<key, jar>> /\ raced \subseteq raced' /\ req[r].cookie = NoToken
    BY <1>1, <2>1, Arrives, Blank
  <2>3. req'[r] = new /\ \A p \in Requests \ {r} : req'[p] = req[p]
    BY <1>0, <2>1
  <2>4. CASE new.cookie = NoToken /\ q # r
    BY <2>2, <2>3, <2>4, SingleKept
  <2>5. CASE new.cookie = NoToken /\ q = r
    <3>1. jar[c] \in Tokens => jar[c] = [user |-> jar[c].user, key |-> jar[c].key]
      BY DEF Tokens
    <3>. QED BY <2>1, <2>2, <2>3, <2>5, <3>1 DEF Single
  <2>6. CASE new.cookie # NoToken
    <3>1. CASE Unreceived(c) # {} /\ (q = r \/ req[q].client = c)
      BY <2>1, <2>3, <2>6, <3>1 DEF Single
    <3>2. CASE Unreceived(c) = {} /\ q = r
      <4>1. \A p \in Requests \ {r} : req'[p].client = c => req'[p].cookie = NoToken
        BY <2>3, <3>2 DEF Unreceived
      <4>2. Fresh(jar[c])'
        BY <2>1, <2>2, <2>6 DEF Fresh, Verify
      <4>3. Fresh(jar'[req'[q].client])
        BY <2>1, <2>2, <2>3, <2>6, <3>2
      <4>. QED BY <2>1, <2>2, <2>3, <2>6, <3>2, <4>1, <4>3 DEF Single, Fresh, Verify
    <3>3. CASE Unreceived(c) = {} /\ q # r /\ req[q].client = c
      <4>1. req[q].cookie = NoToken
        BY <3>3 DEF Unreceived
      <4>. QED BY <1>0, <2>2, <2>3, <3>3, <4>1 DEF Single
    <3>4. CASE q # r /\ req[q].client # c
      BY <1>0, <2>1, <2>2, <2>3, <3>4 DEF Single, Fresh, Verify
    <3>. QED BY <3>1, <3>2, <3>3, <3>4
  <2>. QED BY <2>4, <2>5, <2>6
<1>2. ASSUME NEW r \in Requests, Serve(r) \/ Log(r)
      PROVE  Single(q)'
  <2>1. UNCHANGED <<key, jar, raced>>
    BY <1>2, Served, Logged
  <2>2. PICK new \in RequestType(users) :
          /\ req' = [req EXCEPT ![r] = new]
          /\ new.client = req[r].client /\ new.user = req[r].user /\ new.cookie = req[r].cookie
    BY <1>2, Served, Logged
  <2>3. \A p \in Requests : /\ req'[p].client = req[p].client /\ req'[p].user = req[p].user
                             /\ req'[p].cookie = req[p].cookie
    BY <1>0, <2>2
  <2>. QED BY <1>0, <2>1, <2>3 DEF Single, Fresh, Verify
<1>3. ASSUME NEW r \in Requests, Receive(r) \/ Lose(r)
      PROVE  Single(q)'
  <2>1. /\ req' = [req EXCEPT ![r] = NoRequest("done")] /\ UNCHANGED <<key, raced>>
    BY <1>3 DEF Receive, Lose, End, server, history
  <2>2. req'[r] = NoRequest("done") /\ \A p \in Requests \ {r} : req'[p] = req[p]
    BY <1>0, <2>1
  <2>3. req'[r].cookie = NoToken /\ req'[r].user = Anonymous
    BY <2>2, Blank DEF Anonymous
  <2>4. CASE q = r
    BY <2>3, <2>4 DEF Single
  <2>5. CASE q # r /\ jar' = jar
    BY <2>1, <2>2, <2>3, <2>5, SingleKept
  <2>6. CASE q # r /\ jar' # jar
    <3>1. req[r].cookie # NoToken /\ jar' = [jar EXCEPT ![req[r].client] = req[r].cookie]
      BY <1>3, <2>6 DEF Receive, Lose, SetCookie
    <3>2. req[r].client \in Clients
      BY <3>1, CookieOf
    <3>3. CASE req[q].client # req[r].client
      <4>1. req[q].client \in Clients => jar'[req[q].client] = jar[req[q].client]
        BY <1>0, <3>1, <3>3 DEF JarInv
      <4>2. \A p \in Requests : req'[p] = req[p] \/ req'[p].cookie = NoToken
        BY <2>2, <2>3
      <4>. QED BY <1>0, <2>1, <2>2, <2>6, <4>1, <4>2 DEF Single, Fresh, Verify
    <3>4. CASE req[q].client = req[r].client
      <4>. SUFFICES ASSUME req[r].client \notin raced PROVE Single(q)'
        BY <2>1, <2>2, <2>6, <3>4 DEF Single
      <4>1. Fresh(jar[req[r].client]) /\ req[q].cookie = NoToken
        BY <1>0, <2>6, <3>1, <3>2, <3>4 DEF Single
      <4>2. req[q].user # Anonymous => jar[req[q].client] = [user |-> req[q].user, key |-> key]
        BY <1>0, <3>2, <3>4, <4>1 DEF Single
      <4>3. req[q].user = Anonymous
        <5>. SUFFICES ASSUME jar[req[r].client] = [user |-> req[q].user, key |-> key],
                             req[q].user # 0
                      PROVE  FALSE
          BY <3>4, <4>2 DEF Anonymous
        <5>1. req[q].user \in 1 .. MaxUsers
          <6>1. req[q].user \in 0 .. users
            BY <1>0 DEF RequestType
          <6>. QED BY <6>1, Numbers
        <5>2. [user |-> req[q].user, key |-> key] # NoToken
          BY <5>1, Numbers, ValueAssumption
        <5>. QED BY <4>1, <5>2 DEF Fresh, Verify
      <4>. QED BY <2>2, <2>6, <4>1, <4>3 DEF Single
    <3>. QED BY <3>3, <3>4
  <2>. QED BY <2>4, <2>5, <2>6
<1>4. CASE Restart
  <2>1. req'[q].cookie = NoToken /\ req'[q].user = Anonymous
    BY <1>0, <1>4, Blank DEF Restart, Fits, Anonymous
  <2>. QED BY <2>1 DEF Single
<1>5. CASE Mark \/ Stop \/ UNCHANGED vars
  <2>1. UNCHANGED <<req, key, jar, raced>>
    BY <1>5 DEF Mark, Stop, vars, server, history
  <2>. QED BY <1>0, <2>1 DEF Single, Fresh, Verify
<1>. QED BY <1>1, <1>2, <1>3, <1>4, <1>5, Steps

\* A client keeps an identity of the running process.
LEMMA KeepsIdentity ==
  ASSUME IInv, [Next]_vars, NEW c \in Clients \ raced, jar[c] \in Tokens, jar[c].key = key
  PROVE  jar'[c] = jar[c]
<1>. SUFFICES ASSUME NEW r \in Requests, Receive(r) PROVE jar'[c] = jar[c]
  BY Steps, Arrives, Served, Logged DEF Lose, Mark, Stop, Restart, vars, server, history
<1>1. CASE req[r].cookie = NoToken
  BY <1>1 DEF Receive, SetCookie
<1>2. CASE req[r].cookie # NoToken
  <2>1. jar' = [jar EXCEPT ![req[r].client] = req[r].cookie] /\ req[r].client \in Clients
    BY <1>2, CookieOf DEF Receive, SetCookie
  <2>2. req[r].client \notin raced => Fresh(jar[req[r].client])
    BY <1>2, <2>1 DEF IInv, OneIdentity
  <2>3. ~Fresh(jar[c])
    BY ValueAssumption DEF Fresh, Verify, Tokens, Users
  <2>4. req[r].client # c
    BY <2>2, <2>3
  <2>. QED BY <2>1, <2>4 DEF IInv, JarInv
<1>. QED BY <1>1, <1>2

\* The invariant for one answer.
Told(a) ==
  /\ a.key \in 1 .. key /\ a.client \in Clients /\ a.short \in DOMAIN mem.orig
  /\ a.kind # "batch" => a.short \notin unowned
  /\ a.kind # "batch" /\ a.key = key /\ a.client \notin raced =>
       /\ jar[a.client] \in Tokens /\ jar[a.client].key = key
       /\ mem.user[a.short] = jar[a.client].user
  /\ a.kind = "shorten" /\ ~a.stopping => ShortenEvent(mem.user[a.short], mem.orig[a.short]) \in events

LEMMA AnsweredNext == IInv /\ [Next]_vars => AnsweredInv'
<1>. SUFFICES ASSUME IInv, [Next]_vars, NEW a \in answered' PROVE Told(a)'
  BY DEF AnsweredInv, Told
<1>0. \A r \in Requests : Fits(req[r]) /\ True(req[r]) /\ Single(r)
  BY DEF IInv, RequestInv, AnswerInv, OneIdentity, Single
<1>1. CASE a \in answered
  <2>1. Told(a)
    BY <1>1 DEF IInv, AnsweredInv, Told
  <2>2. /\ key' = key \/ key' = key + 1
        /\ raced \subseteq raced'
    <3>1. CASE \E r \in Requests, c \in Clients, b \in Asks : Send(r, c, b)
      BY <3>1, Arrives
    <3>2. CASE ~\E r \in Requests, c \in Clients, b \in Asks : Send(r, c, b)
      BY <3>2, Steps, Served, Logged
      DEF Receive, Lose, Mark, Stop, Restart, vars, server, history
    <3>. QED BY <3>1, <3>2
  <2>3. /\ a.short \in DOMAIN mem'.orig /\ mem'.orig[a.short] = mem.orig[a.short]
        /\ mem'.user[a.short] = mem.user[a.short] /\ events \subseteq events'
        /\ a.short \in unowned' => a.short \in unowned
    BY <2>1, Stored, EventsGrow DEF Told
  <2>4. CASE key' = key /\ a.key = key /\ a.client \notin raced' /\ a.kind # "batch"
    <3>1. a.client \in Clients \ raced /\ jar[a.client] \in Tokens /\ jar[a.client].key = key
      BY <2>1, <2>2, <2>4 DEF Told
    <3>2. jar'[a.client] = jar[a.client]
      BY <3>1, KeepsIdentity
    <3>. QED BY <2>1, <2>3, <2>4, <3>1, <3>2 DEF Told
  <2>5. CASE key' = key /\ ~(a.key = key /\ a.client \notin raced' /\ a.kind # "batch")
    BY <2>1, <2>3, <2>5 DEF Told
  <2>6. CASE key' = key + 1
    <3>1. a.key # key' /\ a.key \in 1 .. key'
      <4>1. a.key \in 1 .. key
        BY <2>1 DEF Told
      <4>. QED BY <2>6, <4>1, Numbers
    <3>. QED BY <2>1, <2>3, <3>1 DEF Told
  <2>. QED BY <2>2, <2>4, <2>5, <2>6
<1>2. CASE a \notin answered
  <2>1. PICK r \in Requests : Receive(r)
    BY <1>2, Steps, Arrives, Served, Logged DEF Lose, Mark, Stop, Restart, vars, server, history
  <2>2. /\ req[r].status = "created" /\ req[r].user # Anonymous
        /\ a = [client |-> req[r].client, kind |-> req[r].kind, key |-> key,
                short |-> mem.short[req[r].arg], stopping |-> stopping]
    BY <1>2, <2>1 DEF Receive, Learn
  <2>3. UNCHANGED <<mem, unowned, key, stopping, events, raced>> /\ req[r].at = "handled"
    BY <2>1 DEF Receive, server
  <2>4. /\ req[r].client \in Clients /\ req[r].arg \in DOMAIN mem.short
        /\ req[r].kind # "batch" =>
             /\ mem.short[req[r].arg] \notin unowned
             /\ mem.user[mem.short[req[r].arg]] = req[r].user
        /\ req[r].kind = "shorten" /\ ~stopping =>
             ShortenEvent(req[r].user, req[r].arg) \in events
    BY <1>0, <2>2, <2>3 DEF Fits, True, Created
  <2>5. mem.short[req[r].arg] \in DOMAIN mem.orig /\ mem.orig[mem.short[req[r].arg]] = req[r].arg
    BY <2>4 DEF IInv, StoreInv
  <2>6. /\ a.client = req[r].client /\ a.kind = req[r].kind /\ a.key = key
        /\ a.short = mem.short[req[r].arg] /\ a.stopping = stopping
    BY <2>2
  <2>7. req[r].client \notin raced =>
          /\ jar'[req[r].client] \in Tokens /\ jar'[req[r].client].key = key
          /\ jar'[req[r].client].user = req[r].user
    <3>1. CASE req[r].cookie # NoToken
      <4>1. jar'[req[r].client] = req[r].cookie
        BY <2>1, <2>4, <3>1 DEF Receive, SetCookie, IInv, JarInv
      <4>. QED BY <3>1, <4>1, CookieOf
    <3>2. CASE req[r].cookie = NoToken
      <4>. SUFFICES ASSUME req[r].client \notin raced
                    PROVE  /\ jar'[req[r].client] \in Tokens /\ jar'[req[r].client].key = key
                           /\ jar'[req[r].client].user = req[r].user
        OBVIOUS
      <4>1. jar' = jar
        BY <2>1, <3>2 DEF Receive, SetCookie
      <4>2. jar[req[r].client] = [user |-> req[r].user, key |-> key]
        BY <1>0, <2>2, <2>4, <3>2 DEF Single
      <4>3. req[r].user \in Users
        <5>1. req[r].user \in 0 .. users
          BY DEF IInv, RequestInv, RequestType
        <5>. QED BY <2>2, <5>1, Numbers DEF Anonymous, Users
      <4>. QED BY <4>1, <4>2, <4>3, Numbers DEF Tokens
    <3>. QED BY <3>1, <3>2
  <2>8. key \in 1 .. key
    BY Numbers
  <2>. QED BY <2>3, <2>4, <2>5, <2>6, <2>7, <2>8 DEF Told
<1>. QED BY <1>1, <1>2

LEMMA EventNext == IInv /\ [Next]_vars => EventInv'
<1>. SUFFICES ASSUME IInv, [Next]_vars, NEW e \in events'
              PROVE  /\ e.user \in 1 .. users'
                     /\ \E s \in DOMAIN mem'.orig :
                          /\ mem'.orig[s] = e.url
                          /\ e.action = "shorten" => s \notin unowned' /\ mem'.user[s] = e.user
  BY DEF EventInv
<1>1. CASE e \in events
  <2>1. /\ e.user \in 1 .. users
        /\ \E s \in DOMAIN mem.orig :
             /\ mem.orig[s] = e.url
             /\ e.action = "shorten" => s \notin unowned /\ mem.user[s] = e.user
    BY <1>1 DEF IInv, EventInv
  <2>2. e.user \in 1 .. users'
    BY <2>1, UsersGrow, Numbers
  <2>. QED BY <2>1, <2>2, Stored
<1>2. CASE e \notin events
  <2>1. PICK r \in Requests : Log(r)
    BY <1>2, Steps, Arrives, Served DEF Receive, Lose, Mark, Stop, Restart, vars, server, history
  <2>2. e = Action(r) /\ Action(r) # NoToken /\ req[r].status \in Success
    BY <1>2, <2>1 DEF Log
  <2>3. req[r].at = "audit" /\ UNCHANGED <<mem, unowned, users>>
    BY <2>1 DEF Log
  <2>4. Fits(req[r]) /\ True(req[r]) /\ req[r].user \in 0 .. users
    BY DEF IInv, RequestInv, AnswerInv, RequestType
  <2>5. req[r].user \in 1 .. users
    <3>1. req[r].user # 0
      BY <2>2, <2>3, <2>4 DEF Fits, Anonymous, Success
    <3>. QED BY <2>4, <3>1, Numbers
  <2>6. CASE req[r].kind = "shorten" /\ req[r].status \in {"created", "conflict"}
    <3>1. e = [action |-> "shorten", user |-> req[r].user, url |-> req[r].arg]
      BY <2>2, <2>6 DEF Action
    <3>2. req[r].status = "created"
      BY <2>2, <2>6 DEF Success
    <3>3. /\ req[r].arg \in DOMAIN mem.short /\ mem.user[mem.short[req[r].arg]] = req[r].user
          /\ mem.short[req[r].arg] \notin unowned
      BY <2>4, <2>6, <3>2 DEF True, Created, Shortens
    <3>4. mem.short[req[r].arg] \in DOMAIN mem.orig /\ mem.orig[mem.short[req[r].arg]] = req[r].arg
      BY <3>3 DEF IInv, StoreInv
    <3>. QED BY <2>3, <2>5, <3>1, <3>3, <3>4
  <2>7. CASE req[r].kind = "follow" /\ req[r].status = "redirect"
    <3>1. e = [action |-> "follow", user |-> req[r].user, url |-> mem.orig[req[r].arg]]
      BY <2>2, <2>7 DEF Action
    <3>2. req[r].arg \in DOMAIN mem.orig
      BY <2>4, <2>7 DEF True
    <3>. QED BY <2>3, <2>5, <3>1, <3>2
  <2>. QED BY <2>2, <2>6, <2>7 DEF Action
<1>. QED BY <1>1, <1>2

\* Nobody has an identity that has not been issued.
LEMMA Issued ==
  ASSUME IInv, NEW c \in Clients, NEW u \in Users, Holds(c, u)
  PROVE  u <= users
<1>1. jar[c] \in Tokens => jar[c].user <= users
  BY DEF IInv, JarInv
<1>2. \A r \in Requests : req[r].user \in 0 .. users
  BY DEF IInv, RequestInv, RequestType
<1>3. \A s \in DOMAIN mem.orig : mem.user[s] \in 0 .. users
  BY DEF IInv, StoreInv
<1>. QED BY <1>1, <1>2, <1>3, Numbers DEF Holds

\* A step gives at most one client an identity that it had not, a new one.
LEMMA HoldsNext ==
  ASSUME IInv, [Next]_vars
  PROVE  \E h : \A c \in Clients, u \in Users :
           Holds(c, u)' => Holds(c, u) \/ (c = h /\ u = users + 1)
<1>0. /\ req \in [Requests -> RequestType(users)] /\ JarInv
      /\ \A r \in Requests : Fits(req[r])
  BY DEF IInv, RequestInv
<1>1. ASSUME NEW r \in Requests, NEW c \in Clients, NEW a \in Asks, Send(r, c, a)
      PROVE  \A d \in Clients, u \in Users :
               Holds(d, u)' => Holds(d, u) \/ (d = c /\ u = users + 1)
  <2>1. PICK new \in RequestType(users') :
          /\ req' = [req EXCEPT ![r] = new] /\ new.client = c
          /\ new.user \in {users + 1, 0} \/ (jar[c] \in Tokens /\ new.user = jar[c].user)
    BY <1>1, Arrives DEF Anonymous
  <2>2. UNCHANGED <<mem, jar, creator>>
    BY <1>1, Arrives
  <2>3. \A p \in Requests : req'[p] = IF p = r THEN new ELSE req[p]
    BY <1>0, <2>1
  <2>. QED BY <2>1, <2>2, <2>3 DEF Holds, Users
<1>2. ASSUME NEW r \in Requests, Serve(r) \/ Log(r), NEW c \in Clients, NEW u \in Users, Holds(c, u)'
      PROVE  Holds(c, u)
  <2>1. jar' = jar
    BY <1>2, Served, Logged
  <2>2. PICK new \in RequestType(users) :
          /\ req' = [req EXCEPT ![r] = new] /\ new.client = req[r].client /\ new.user = req[r].user
    BY <1>2, Served, Logged
  <2>3. \A p \in Requests : req'[p].client = req[p].client /\ req'[p].user = req[p].user
    BY <1>0, <2>2
  <2>4. CASE Create(r)
    <3>1. \A s \in DOMAIN mem'.orig :
            \/ s \in DOMAIN mem.orig /\ creator'[s] = creator[s] /\ mem'.user[s] = mem.user[s]
            \/ creator'[s] = req[r].client /\ mem'.user[s] = req[r].user
      <4>1. PICK id \in Ids :
              /\ DOMAIN mem'.orig = DOMAIN mem.orig \cup {id}
              /\ creator'[id] = req[r].client /\ mem'.user[id] = req[r].user
              /\ \A s \in DOMAIN mem.orig : mem'.user[s] = mem.user[s] /\ creator'[s] = creator[s]
        BY <2>4, NewLink
      <4>. QED BY <4>1
    <3>. QED BY <1>2, <2>1, <2>3, <3>1 DEF Holds
  <2>5. CASE ~Create(r)
    <3>1. UNCHANGED <<mem, creator>>
      BY <1>2, <2>5, Served, Logged
    <3>. QED BY <1>2, <2>1, <2>3, <3>1 DEF Holds
  <2>. QED BY <2>4, <2>5
<1>3. ASSUME NEW r \in Requests, Receive(r) \/ Lose(r), NEW c \in Clients, NEW u \in Users, Holds(c, u)'
      PROVE  Holds(c, u)
  <2>1. req' = [req EXCEPT ![r] = NoRequest("done")] /\ UNCHANGED <<mem, creator>>
    BY <1>3 DEF Receive, Lose, End, server, history
  <2>2. \A p \in Requests : req'[p] = IF p = r THEN NoRequest("done") ELSE req[p]
    BY <1>0, <2>1
  <2>3. \A p \in Requests : req'[p].user = u => req'[p] = req[p]
    BY <2>2, Blank DEF Users
  <2>4. CASE jar' = jar
    BY <1>3, <2>1, <2>3, <2>4 DEF Holds
  <2>5. CASE jar' # jar
    <3>1. req[r].cookie # NoToken /\ jar' = [jar EXCEPT ![req[r].client] = req[r].cookie]
      BY <1>3, <2>5 DEF Receive, Lose, SetCookie
    <3>2. req[r].cookie.user = req[r].user /\ req[r].client \in Clients
      BY <3>1, CookieOf
    <3>3. jar'[c] = jar[c] \/ (c = req[r].client /\ jar'[c].user = req[r].user)
      BY <1>0, <3>1, <3>2 DEF JarInv
    <3>. QED BY <1>3, <2>1, <2>3, <3>3 DEF Holds
  <2>. QED BY <2>4, <2>5
<1>4. ASSUME Mark \/ Stop \/ Restart \/ UNCHANGED vars, NEW c \in Clients, NEW u \in Users, Holds(c, u)'
      PROVE  Holds(c, u)
  <2>1. UNCHANGED <<jar, creator>> /\ mem'.orig = mem.orig /\ mem'.user = mem.user
    BY <1>4, MarkedLinks DEF Mark, Stop, Restart, vars, server, history
  <2>2. \A p \in Requests : req'[p] = req[p] \/ req'[p] = NoRequest("done")
    BY <1>4 DEF Mark, Stop, Restart, vars
  <2>3. \A p \in Requests : req'[p].user = u => req'[p] = req[p]
    BY <2>2, Blank DEF Users
  <2>. QED BY <1>4, <2>1, <2>3 DEF Holds
<1>5. CASE \E r \in Requests, c \in Clients, a \in Asks : Send(r, c, a)
  BY <1>1, <1>5
<1>6. CASE ~\E r \in Requests, c \in Clients, a \in Asks : Send(r, c, a)
  BY <1>2, <1>3, <1>4, <1>6, Steps
<1>. QED BY <1>5, <1>6

LEMMA HolderNext == IInv /\ [Next]_vars => HolderInv'
<1>. SUFFICES ASSUME IInv, [Next]_vars PROVE HolderInv'
  OBVIOUS
<1>0. HolderInv /\ StoreInv
  BY DEF IInv
<1>1. PICK h : \A c \in Clients, u \in Users :
                 Holds(c, u)' => Holds(c, u) \/ (c = h /\ u = users + 1)
  BY HoldsNext
<1>2. \A c \in Clients : \A u \in Users : Holds(c, u) => u # users + 1
  BY Issued, Numbers DEF Users
<1>3. \A c, d \in Clients : \A u \in Users : Holds(c, u)' /\ Holds(d, u)' => c = d
  BY <1>0, <1>1, <1>2 DEF HolderInv
<1>4. asked \subseteq asked'
  BY Steps, Arrives, Served, Logged DEF Delete, Receive, Lose, Mark, Stop, Restart, vars, server, history
<1>5. ASSUME NEW w \in wanted
      PROVE  /\ w \in (1 .. users') \X Ids
             /\ \E c \in Clients : <<c, w[2]>> \in asked' /\ \A d \in Clients : Holds(d, w[1])' => d = c
  <2>1. w \in (1 .. users) \X Ids
    BY <1>0 DEF HolderInv
  <2>2. w \in (1 .. users') \X Ids
    BY <2>1, UsersGrow, Numbers
  <2>3. w[1] \in Users /\ w[1] # users + 1
    BY <2>1, Numbers DEF Users
  <2>. QED BY <1>0, <1>1, <1>4, <2>2, <2>3 DEF HolderInv
<1>6. ASSUME NEW w \in wanted', w \notin wanted
      PROVE  /\ w \in (1 .. users') \X Ids
             /\ \E c \in Clients : <<c, w[2]>> \in asked' /\ \A d \in Clients : Holds(d, w[1])' => d = c
  <2>1. PICK r \in Requests : Delete(r)
    BY <1>6, Steps, Arrives, Served, Logged DEF Receive, Lose, Mark, Stop, Restart, vars, server, history
  <2>2. /\ w = <<req[r].user, req[r].arg>> /\ <<req[r].client, req[r].arg>> \in asked'
        /\ req[r].at = "handler" /\ req[r].kind = "delete" /\ users' = users
    BY <1>6, <2>1 DEF Delete, Serves
  <2>3. Fits(req[r]) /\ req[r].user \in 0 .. users
    BY DEF IInv, RequestInv, RequestType
  <2>4. req[r].client \in Clients /\ req[r].arg \in Ids /\ req[r].user # 0
    BY <2>2, <2>3 DEF Fits, Http, Anonymous
  <2>5. req[r].user \in 1 .. users /\ req[r].user \in Users /\ req[r].user # users + 1
    BY <2>3, <2>4, Numbers DEF Users
  <2>6. Holds(req[r].client, req[r].user)
    BY DEF Holds
  <2>7. \A d \in Clients : Holds(d, req[r].user) => d = req[r].client
    BY <1>0, <2>4, <2>5, <2>6 DEF HolderInv
  <2>8. \A d \in Clients : \A u \in Users : u = req[r].user =>
          (Holds(d, u)' => d = req[r].client)
    BY <1>1, <2>5, <2>7
  <2>9. PICK u \in Users : u = req[r].user
    BY <2>5
  <2>10. w[1] = u /\ w[2] = req[r].arg /\ w \in (1 .. users') \X Ids
    BY <2>2, <2>4, <2>5, <2>9
  <2>11. \A d \in Clients : Holds(d, u)' => d = req[r].client
    BY <2>8, <2>9
  <2>. QED BY <2>2, <2>4, <2>10, <2>11 DEF Holds
<1>7. OnlyCreatorDeletes'
  <2>. SUFFICES ASSUME NEW s \in mem'.deleted PROVE <<creator'[s], s>> \in asked'
    BY DEF OnlyCreatorDeletes
  <2>1. CASE s \in mem.deleted
    BY <1>0, <1>4, <2>1, Stored DEF HolderInv, OnlyCreatorDeletes, StoreInv
  <2>2. CASE s \notin mem.deleted
    <3>1. Mark
      BY <2>2, NewLink, SameLinks
    <3>2. PICK w \in wanted : s = w[2] /\ s \in DOMAIN mem.orig /\ mem.user[s] = w[1]
      BY <1>0, <2>2, <3>1, MarkedLinks DEF StoreInv
    <3>3. creator[s] \in Clients /\ creator'[s] = creator[s]
      BY <1>0, <3>2, Stored DEF StoreInv
    <3>4. Holds(creator[s], w[1])
      BY <3>2 DEF Holds
    <3>. QED BY <1>0, <1>4, <3>2, <3>3, <3>4 DEF HolderInv
  <2>. QED BY <2>1, <2>2
<1>. QED BY <1>3, <1>5, <1>6, <1>7 DEF HolderInv

-----------------------------------------------------------------------------
\* The inductive invariant behind the results below.
THEOREM Invariance == Spec => []IInv
<1>1. Init => IInv
  BY InitInv
<1>2. IInv /\ [Next]_vars => IInv'
  BY JarNext, RequestNext, StoreNext, AnswerNext, OneNext, AnsweredNext, EventNext, HolderNext,
     StoppingNext, Zenon DEF IInv
<1>. QED BY <1>1, <1>2, PTL DEF Spec

\* Every variable keeps its type, no user is invented, and only gRPC calls and refused
\* requests run as nobody (auth.go:28-70, server.go:109-143).
THEOREM TypeSafe == Spec => []TypeOK
<1>1. IInv => TypeOK
  <2>. SUFFICES ASSUME IInv PROVE TypeOK
    OBVIOUS
  <2>1. wanted \subseteq (0 .. users) \X Ids
    <3>1. wanted \subseteq (1 .. users) \X Ids
      BY DEF IInv, HolderInv
    <3>2. 1 .. users \subseteq 0 .. users
      BY Numbers
    <3>. QED BY <3>1, <3>2
  <2>2. \A r \in Requests :
          /\ req[r].at \in Places /\ req[r].user \in 0 .. users
          /\ Http(req[r]) /\ req[r].user = Anonymous => req[r].status = "unauthorized"
    BY DEF IInv, RequestInv, RequestType, Fits
  <2>. QED BY <2>1, <2>2 DEF IInv, JarInv, StoreInv, TypeOK, Places
<1>. QED BY <1>1, Invariance, PTL

\* What a client has been told that it made, but by a batch, is in its list for as long as the
\* key stays (auth.go:28-70), over HTTP and gRPC, unless it was given two identities at a
\* time; and its list shows nothing that another client made.
THEOREM LinksStayListedSafe == Spec => []LinksStayListed
<1>1. IInv => LinksStayListed
  <2>. SUFFICES ASSUME IInv PROVE LinksStayListed
    OBVIOUS
  <2>1. ASSUME NEW a \in answered, a.kind # "batch", a.key = key, a.client \notin raced
        PROVE  jar[a.client] \in Tokens /\ a.short \in Listed(jar[a.client].user)
    BY <2>1 DEF IInv, AnsweredInv, StoreInv, Listed
  <2>2. ASSUME NEW c \in Clients, jar[c] \in Tokens, NEW s \in Listed(jar[c].user)
        PROVE  creator[s] = c
    <3>1. s \in DOMAIN mem.orig /\ mem.user[s] = jar[c].user /\ creator[s] \in Clients
      BY DEF IInv, StoreInv, Listed
    <3>2. jar[c].user \in Users
      BY <2>2 DEF Tokens
    <3>3. Holds(c, jar[c].user) /\ Holds(creator[s], jar[c].user)
      BY <2>2, <3>1 DEF Holds
    <3>. QED BY <3>1, <3>2, <3>3 DEF IInv, HolderInv
  <2>. QED BY <2>1, <2>2 DEF LinksStayListed
<1>. QED BY <1>1, Invariance, PTL

\* No client deletes the links of another, with any number of clients, identities, lost
\* answers and keys (auth.go:28-70, database_repository.go:181-216).
THEOREM OnlyCreatorDeletesSafe == Spec => []OnlyCreatorDeletes
<1>1. IInv => OnlyCreatorDeletes
  BY DEF IInv, HolderInv
<1>. QED BY <1>1, Invariance, PTL

\* The audit trail is true, and complete, but for what batches store and for a shutdown, by
\* the time a client knows (audit.go:46-83, service.go:40-47 of internal/audit).
THEOREM AuditTrailSafe == Spec => []AuditTrail
<1>1. IInv => AuditTrail
  BY DEF IInv, EventInv, AnsweredInv, ShortenEvent, AuditTrail
<1>. QED BY <1>1, Invariance, PTL

\* Two requests of one client can replace an identity only by another that was on its way at
\* the same time (auth.go:28-70).
THEOREM IdentityKeptSafe == Spec => IdentityKept
<1>1. IInv /\ [Next]_vars =>
        [\A c \in Clients \ raced : jar[c] \in Tokens /\ jar[c].key = key => jar'[c] = jar[c]]_vars
  BY KeepsIdentity
<1>. QED BY <1>1, Invariance, PTL DEF Spec, IdentityKept

-----------------------------------------------------------------------------
(* The store of links *)

LinkOf(s, o, u, M) == Url(s, o, u, s \in M)

Links   == {LinkOf(s, mem.orig[s], mem.user[s], mem.deleted) : s \in DOMAIN mem.orig}
Learned == {<<a.short, mem.orig[a.short]>> : a \in answered}

Contract == INSTANCE LinkStore WITH Owners <- 0 .. MaxUsers, links <- Links, told <- Learned

LEMMA LinkMarked ==
  ASSUME NEW s, NEW o, NEW u, NEW M, NEW S
  PROVE  [LinkOf(s, o, u, M) EXCEPT !.deleted = @ \/ LinkOf(s, o, u, M).short \in S]
           = LinkOf(s, o, u, M \cup S)
<1>. DEFINE T == [short : {s}, original : {o}, user : {u}, deleted : BOOLEAN]
            a == LinkOf(s, o, u, M)
            b == LinkOf(s, o, u, M \cup S)
            c == [a EXCEPT !.deleted = @ \/ a.short \in S]
<1>1. /\ a \in T /\ a.short = s /\ a.deleted = (s \in M)
      /\ b \in T /\ b.deleted = (s \in M \cup S)
  BY DEF LinkOf, Url
<1>. HIDE DEF a, b
<1>2. c \in T /\ c.deleted = (a.deleted \/ a.short \in S)
  BY <1>1
<1>3. c.deleted = b.deleted
  BY <1>1, <1>2
<1>. HIDE DEF c
<1>4. c = b
  BY <1>1, <1>2, <1>3
<1>. QED BY <1>4 DEF a, b, c

\* A client is told of links that are stored, and what it was told stays.
LEMMA LearnedLeads == IInv => Learned \subseteq Contract!Leads(Links)
<1>. SUFFICES ASSUME IInv, NEW a \in answered
              PROVE  <<a.short, mem.orig[a.short]>> \in Contract!Leads(Links)
  BY DEF Learned
<1>. DEFINE s == a.short
            l == LinkOf(s, mem.orig[s], mem.user[s], mem.deleted)
<1>1. l \in Links
  BY DEF IInv, AnsweredInv, Links
<1>2. l.short = s /\ l.original = mem.orig[s]
  BY DEF LinkOf, Url
<1>. HIDE DEF l
<1>. QED BY <1>1, <1>2 DEF Contract!Leads

LEMMA LearnedStays == IInv /\ [Next]_vars => Learned \subseteq Learned'
<1>. SUFFICES ASSUME IInv, [Next]_vars, NEW a \in answered
              PROVE  <<a.short, mem.orig[a.short]>> \in Learned'
  BY DEF Learned
<1>1. a \in answered'
  BY Steps, Arrives, Served, Logged DEF Receive, Learn, Lose, Mark, Stop, Restart, vars, server, history
<1>2. mem'.orig[a.short] = mem.orig[a.short]
  BY Stored DEF IInv, AnsweredInv
<1>. QED BY <1>1, <1>2 DEF Learned

\* A request that stores a link adds one with a new short.
LEMMA CreateAdds ==
  ASSUME IInv, NEW r \in Requests, Create(r)
  PROVE  Contract!Add
<1>1. PICK id \in Ids :
         /\ id \notin DOMAIN mem.orig /\ mem'.deleted = mem.deleted
         /\ DOMAIN mem'.orig = DOMAIN mem.orig \cup {id}
         /\ \A s \in DOMAIN mem.orig : mem'.orig[s] = mem.orig[s] /\ mem'.user[s] = mem.user[s]
  BY NewLink
<1>2. id \notin mem.deleted
  BY <1>1 DEF IInv, StoreInv
<1>. DEFINE new == LinkOf(id, mem'.orig[id], mem'.user[id], mem.deleted)
<1>3. Links' = Links \cup {new}
  <2>1. \A s \in DOMAIN mem.orig :
          LinkOf(s, mem'.orig[s], mem'.user[s], mem'.deleted) =
          LinkOf(s, mem.orig[s], mem.user[s], mem.deleted)
    BY <1>1
  <2>2. Links' = {LinkOf(s, mem'.orig[s], mem'.user[s], mem'.deleted) : s \in DOMAIN mem'.orig}
    BY DEF Links, LinkOf
  <2>. QED BY <1>1, <2>1, <2>2 DEF Links
<1>4. new.short = id /\ new.deleted = FALSE
  <2>1. new.short = id /\ new.deleted = (id \in mem.deleted)
    BY DEF LinkOf, Url
  <2>2. (id \in mem.deleted) = FALSE
    BY <1>2
  <2>. QED BY <2>1, <2>2, Zenon
<1>5. \A k \in Links : k.short \in DOMAIN mem.orig
  BY DEF Links, LinkOf, Url
<1>. HIDE DEF new
<1>. QED BY <1>1, <1>3, <1>4, <1>5 DEF Contract!Add

\* A deletion that is carried out marks links of the user it waits for.
LEMMA MarkDeletes ==
  ASSUME IInv, Mark
  PROVE  Contract!Delete
<1>1. PICK w \in wanted :
         /\ UNCHANGED <<mem.orig, mem.user>>
         /\ mem'.deleted = mem.deleted \cup {s \in {w[2]} \cap DOMAIN mem.user : mem.user[s] = w[1]}
  BY MarkedLinks
<1>. DEFINE S == {s \in {w[2]} \cap DOMAIN mem.user : mem.user[s] = w[1]}
            Link(s) == LinkOf(s, mem.orig[s], mem.user[s], mem.deleted)
            After(s) == LinkOf(s, mem.orig[s], mem.user[s], mem.deleted \cup S)
<1>2. w[1] \in 0 .. MaxUsers
  <2>1. w[1] \in 1 .. users
    BY DEF IInv, HolderInv
  <2>. QED BY <2>1, Numbers
<1>3. Links = {Link(s) : s \in DOMAIN mem.orig} /\ Links' = {After(s) : s \in DOMAIN mem.orig}
  <2>1. Links' = {LinkOf(s, mem'.orig[s], mem'.user[s], mem'.deleted) : s \in DOMAIN mem'.orig}
    BY DEF Links, LinkOf
  <2>. QED BY <1>1, <2>1 DEF Links
<1>4. S \in SUBSET {l.short : l \in Contract!OwnedBy(w[1])}
  <2>. SUFFICES ASSUME NEW s \in S PROVE s \in {l.short : l \in Contract!OwnedBy(w[1])}
    OBVIOUS
  <2>1. s \in DOMAIN mem.orig /\ mem.user[s] = w[1]
    BY DEF IInv, StoreInv
  <2>2. Link(s) \in Links /\ Link(s).short = s /\ Link(s).user = w[1]
    BY <1>3, <2>1 DEF LinkOf, Url
  <2>. QED BY <2>2 DEF Contract!OwnedBy
<1>5. Links' = {[l EXCEPT !.deleted = @ \/ l.short \in S] : l \in Links}
  <2>. HIDE DEF S
  <2>1. \A s \in DOMAIN mem.orig :
          [Link(s) EXCEPT !.deleted = @ \/ Link(s).short \in S] = After(s)
    BY LinkMarked
  <2>. HIDE DEF Link, After
  <2>. QED BY <1>3, <2>1
<1>6. UNCHANGED Learned
  BY <1>1 DEF Mark, history, Learned
<1>. HIDE DEF S
<1>. QED BY <1>2, <1>4, <1>5, <1>6 DEF Contract!Delete

\* Whoever asks, with whatever cookie, key or restart, the handlers implement the store of
\* links (router.go and server.go over database_repository.go): a client is told of a link
\* only when it is stored, a link never changes, and it is deleted only under the
\* identity it was made with.
THEOREM Refinement == Spec => Contract!Spec
<1>1. Init => Contract!Init
  BY DEF Init, EmptyStorage, Contract!Init, Links, Learned
<1>2. IInv /\ IInv' /\ [Next]_vars => [Contract!Next]_Contract!svars
  <2>1. SUFFICES ASSUME IInv, IInv', [Next]_vars PROVE Contract!Next
    BY DEF Contract!svars
  <2>2. (Learned \subseteq Contract!Leads(Links))'
    BY <2>1, LearnedLeads, PTL
  <2>3. Contract!Tell
    BY <2>1, <2>2, LearnedStays DEF Contract!Tell
  <2>4. UNCHANGED mem => Contract!Add
    BY DEF Contract!Add, Links
  <2>. QED BY <2>1, <2>3, <2>4, CreateAdds, MarkDeletes, SameLinks DEF Contract!Next
<1>. QED BY <1>1, <1>2, Invariance, PTL DEF Spec, Contract!Spec

===============================================================================
