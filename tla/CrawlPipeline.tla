---------------------------- MODULE CrawlPipeline ----------------------------
(***************************************************************************)
(* The crawl: requests_factory seeds URLs, request_url deduplicates them   *)
(* in Redis and publishes them, api_call_engine fetches them and fans the  *)
(* responses out to three workers, and the follow_links worker requests    *)
(* the links of a response at a smaller depth.                             *)
(*                                                                         *)
(* request_url is not atomic: the mark (SADD) and the publish are separate *)
(* calls to separate servers, and the three callers interleave.  Both      *)
(* consumers run with auto_ack, so a message is gone from the broker when  *)
(* it is delivered and a consumer that dies takes the delivered ones with  *)
(* it.  The exchanges are not durable, so a publish while no queue is      *)
(* bound to them succeeds and drops the message.                           *)
(*                                                                         *)
(* The web is data: NextPage, Links and Continuations say what a response  *)
(* to a URL holds.  A URL stands for itself with its query, a batch of ids *)
(* included.                                                               *)
(*                                                                         *)
(* Some definitions have a wrong variant before them, named Op_Slip: a     *)
(* slip that the property named in the README's table of slips catches.    *)
(***************************************************************************)
EXTENDS Integers, Sequences

CONSTANTS
  Users,          \* Spotify user ids that have logged in
  Legacy,         \* user_id None: the legacy identity; it also names the shared set
  Urls,           \* the URLs of this web
  NoUrl,          \* a response without a "next" link
  MeUrls,         \* the URLs under /v1/me
  NextPage,       \* the top-level "next" of the response to each URL
  Continuations,  \* the nested "next" links of a response, followed at its own depth
  Links,          \* the neighbours of a response, followed one hop deeper
  Primary,        \* the recorded primary user, or Legacy when there is none
  Seeds,          \* the seed URLs of one user
  SeedDepth,      \* DEPTH_OF_SEARCH, or DISCOGRAPHY_SEED_DEPTH for artists' albums
  MaxDepth,       \* the deepest seed
  Max500,         \* MAX_HTTP_500_ERROR_RETRIES_PER_REQUEST
  Max429,         \* MAX_HTTP_429_RETRIES_PER_REQUEST
  Enabled,        \* the sinks that WRITE_RESPONSES_TO_* and FOLLOW_LINKS_... turn on
  ResetCrawl,     \* RESET_CRAWL
  ResetCatalog,   \* RESET_CRAWL_CATALOG
  Faults,         \* the kinds of failure the environment may cause
  MaxFaults,      \* how many of them (bound)
  MaxSeedRuns     \* how often the seeder is started (bound)

FaultKinds == {"publish", "redis", "exception", "handler", "crash", "restart",
               "expire", "refresh", "revoke", "forget", "http"}

Identities == Users \cup {Legacy}

ASSUME IdentityAssumption == Legacy \notin Users /\ Primary \in Identities

ASSUME WebAssumption ==
  /\ MeUrls \subseteq Urls
  /\ NoUrl \notin Urls
  /\ NextPage \in [Urls -> Urls \cup {NoUrl}]
  /\ Continuations \in [Urls -> Seq(Urls)]
  /\ Links \in [Urls -> Seq(Urls)]
  /\ Seeds \in Seq(Urls)

ASSUME BoundAssumption ==
  /\ MaxDepth \in Nat
  /\ SeedDepth \in [Urls -> 0..MaxDepth]
  /\ Max500 \in Nat \ {0}
  /\ Max429 \in Nat \ {0}
  /\ Enabled \subseteq {"write_to_disk", "write_to_neo4j", "follow_links"}
  /\ ResetCrawl \in BOOLEAN
  /\ ResetCatalog \in BOOLEAN
  /\ Faults \subseteq FaultKinds
  /\ MaxFaults \in Nat
  /\ MaxSeedRuns \in Nat

(* The routing keys of the responses exchange, in the order of publication. *)
SinkOrder == <<"write_to_disk", "write_to_neo4j", "follow_links">>
Stores    == {"write_to_disk", "write_to_neo4j"}
Sinks     == Stores \cup {"follow_links"}
Queues    == Sinks \cup {"make_api_call"}
Callers   == {"seeder", "engine", "follow_links"}   \* of request_url

VARIABLES
  crawled,    \* Redis: the members of all crawled-URL sets
  requests,   \* the make_api_call queue
  responses,  \* the queue of each sink
  stored,     \* the responses each worker has handled
  todo,       \* what each caller still has to pass to request_url
  marked,     \* is the head of todo[p] marked, and not yet published?
  engine,     \* the request the engine is working on
  bound,      \* is the queue bound to its exchange?
  grant,      \* the state of each identity's tokens
  seedUsers,  \* the users this run of the seeder has still to seed
  runs,       \* how often the seeder was started
  faults,     \* how many failures the environment has caused
  done,       \* history: the requests fetched and fanned out, and as whom
  released,   \* history: the marks that were rolled back, with the seeder run
  lost        \* history: what was lost, where and why

vars == <<crawled, requests, responses, stored, todo, marked, engine, bound,
          grant, seedUsers, runs, faults, done, released, lost>>

-----------------------------------------------------------------------------
(* Messages and dedup keys.                                                *)

Request  == [url : Urls, depth : Nat, user : Identities]
Response == [url : Urls, depth : Nat, user : Identities]
Keys     == [set : Identities, depth : Nat, url : Urls]

SetKey(url, user) == IF url \in MeUrls THEN user ELSE Legacy

Key(m) == [set |-> SetKey(m.url, m.user), depth |-> m.depth, url |-> m.url]

KeysOf(messages) == {Key(messages[i]) : i \in DOMAIN messages}

NoRequest == [url |-> NoUrl, depth |-> 0, user |-> Legacy]

EngineIdle == [pc |-> "idle", msg |-> NoRequest, user |-> Legacy,
               n500 |-> 0, n429 |-> 0, fan |-> 0]

Requests(urls, depth, user) ==
  [i \in DOMAIN urls |-> [url |-> urls[i], depth |-> depth, user |-> user]]

SeedRequests(user) ==
  [i \in DOMAIN Seeds |->
     [url |-> Seeds[i], depth |-> SeedDepth[Seeds[i]], user |-> user]]

(* What the follow_links handlers request for a response: the nested next  *)
(* links, then, within the depth, the neighbours.                          *)
Pages(m) == Requests(Continuations[m.url], m.depth, m.user)

Neighbours(m) ==
  IF m.depth <= 0 THEN <<>> ELSE Requests(Links[m.url], m.depth - 1, m.user)

Children(m) == Pages(m) \o Neighbours(m)

(* The engine's request for the page after m, fetched as user.             *)
NextRequests(m, user) ==
  IF NextPage[m.url] = NoUrl THEN <<>> ELSE Requests(<<NextPage[m.url]>>, m.depth, user)

LostAt(place, keys, cause) == {[at |-> place, key |-> k, why |-> cause] : k \in keys}

(* The environment spends one unit of the fault budget on a failure.       *)
Fault(kind) ==
  /\ kind \in Faults
  /\ faults < MaxFaults
  /\ faults' = faults + 1

-----------------------------------------------------------------------------
(* request_url, called by p for the head of todo[p].                       *)

UrlIsNew_NotQueued(m) == Key(m) \notin KeysOf(requests)

UrlIsNew_PerUser(m) == [Key(m) EXCEPT !.set = m.user] \notin crawled

UrlIsNew(m) == Key(m) \notin crawled

ShouldRequest_PositiveDepth(m) == m.depth > 0 /\ UrlIsNew(m)

ShouldRequest(m) == m.depth >= 0 /\ UrlIsNew(m)

InCall(p) == todo[p] # <<>> /\ ~marked[p]

RequestUrl_Skip(p) ==
  /\ InCall(p)
  /\ ~ShouldRequest(Head(todo[p]))
  /\ todo' = [todo EXCEPT ![p] = Tail(@)]
  /\ UNCHANGED <<crawled, requests, responses, stored, marked, engine, bound,
                 grant, seedUsers, runs, faults, done, released, lost>>

RequestUrl_Mark(p) ==
  /\ InCall(p)
  /\ ShouldRequest(Head(todo[p]))
  /\ crawled' = crawled \cup {Key(Head(todo[p]))}
  /\ marked' = [marked EXCEPT ![p] = TRUE]
  /\ UNCHANGED <<requests, responses, stored, todo, engine, bound, grant,
                 seedUsers, runs, faults, done, released, lost>>

RequestUrl_Publish(p) ==
  LET m == Head(todo[p]) IN
  /\ marked[p]
  /\ IF bound["make_api_call"]
       THEN requests' = Append(requests, m) /\ UNCHANGED lost
       ELSE lost' = lost \cup LostAt("make_api_call", {Key(m)}, "unroutable")
            /\ UNCHANGED requests
  /\ marked' = [marked EXCEPT ![p] = FALSE]
  /\ todo' = [todo EXCEPT ![p] = Tail(@)]
  /\ UNCHANGED <<crawled, responses, stored, engine, bound, grant, seedUsers,
                 runs, faults, done, released>>

(* An exception leaves the caller with rest not requested: the seeder      *)
(* exits, the engine and the worker log it and go on to their next message. *)
Abandon(p, rest) ==
  LET inHand == IF p = "engine" THEN {Key(engine.msg)} ELSE {} IN
  /\ lost' = lost \cup LostAt("make_api_call", KeysOf(rest) \cup inHand, "exception")
  /\ todo' = [todo EXCEPT ![p] = <<>>]
  /\ marked' = [marked EXCEPT ![p] = FALSE]
  /\ engine' = IF p = "engine" THEN EngineIdle ELSE engine
  /\ seedUsers' = IF p = "seeder" THEN {} ELSE seedUsers

Release(k) ==
  /\ crawled' = crawled \ {k}
  /\ released' = released \cup {[key |-> k, run |-> runs]}

RequestUrl_Rollback_KeepMark(p) ==
  /\ marked[p]
  /\ Fault("publish")
  /\ Abandon(p, Tail(todo[p]))
  /\ UNCHANGED <<crawled, requests, responses, stored, bound, grant, runs, done,
                 released>>

(* The broker refuses the publish: the mark is rolled back.                *)
RequestUrl_Rollback(p) ==
  /\ marked[p]
  /\ Fault("publish")
  /\ Release(Key(Head(todo[p])))
  /\ Abandon(p, Tail(todo[p]))
  /\ UNCHANGED <<requests, responses, stored, bound, grant, runs, done>>

(* Redis refuses the SADD: nothing was marked.                             *)
RequestUrl_NoRedis(p) ==
  /\ InCall(p)
  /\ Fault("redis")
  /\ Abandon(p, todo[p])
  /\ UNCHANGED <<crawled, requests, responses, stored, bound, grant, runs, done,
                 released>>

-----------------------------------------------------------------------------
(* The seeder.  resolve_seed_users answers one known user, all the known   *)
(* users (the legacy identity when there is none), or the recorded primary *)
(* user, whose tokens it does not look for.                                *)

HasUser(u) == u \in Users /\ grant[u] # "absent"

KnownUsers == {u \in Users : HasUser(u)}

SeedScopes ==
  {{u} : u \in KnownUsers \cup {Primary}}
    \cup {IF KnownUsers = {} THEN {Legacy} ELSE KnownUsers}

SeederIdle == seedUsers = {} /\ todo["seeder"] = <<>>

Seeder_Start(scope) ==
  /\ SeederIdle
  /\ runs < MaxSeedRuns
  /\ runs' = runs + 1
  /\ seedUsers' = scope
  /\ crawled' = IF ResetCatalog THEN {k \in crawled : k.set # Legacy} ELSE crawled
  /\ UNCHANGED <<requests, responses, stored, todo, marked, engine, bound, grant,
                 faults, done, released, lost>>

Seeder_NextUser_NoReset(u) ==
  /\ u \in seedUsers
  /\ todo["seeder"] = <<>>
  /\ seedUsers' = seedUsers \ {u}
  /\ todo' = [todo EXCEPT !["seeder"] = SeedRequests(u)]
  /\ UNCHANGED <<crawled, requests, responses, stored, marked, engine, bound, grant,
                 runs, faults, done, released, lost>>

Seeder_NextUser(u) ==
  /\ u \in seedUsers
  /\ todo["seeder"] = <<>>
  /\ seedUsers' = seedUsers \ {u}
  /\ crawled' = IF ResetCrawl THEN {k \in crawled : k.set # u} ELSE crawled
  /\ todo' = [todo EXCEPT !["seeder"] = SeedRequests(u)]
  /\ UNCHANGED <<requests, responses, stored, marked, engine, bound, grant, runs,
                 faults, done, released, lost>>

(* The seeder is killed: what it has not published is not requested.       *)
Seeder_Crash ==
  /\ ~SeederIdle
  /\ Fault("crash")
  /\ seedUsers' = {}
  /\ todo' = [todo EXCEPT !["seeder"] = <<>>]
  /\ marked' = [marked EXCEPT !["seeder"] = FALSE]
  /\ lost' = lost \cup LostAt("make_api_call", KeysOf(todo["seeder"]), "crash")
  /\ UNCHANGED <<crawled, requests, responses, stored, engine, bound, grant, runs,
                 done, released>>

-----------------------------------------------------------------------------
(* The engine: _consume_request, one message at a time.                    *)

ResolveEffectiveUser(u) == IF HasUser(u) THEN u ELSE Legacy

Engine_Take ==
  LET m == Head(requests) IN
  /\ engine.pc = "idle"
  /\ bound["make_api_call"]
  /\ requests # <<>>
  /\ requests' = Tail(requests)
  /\ engine' = [EngineIdle EXCEPT !.pc = "get", !.msg = m,
                                  !.user = ResolveEffectiveUser(m.user)]
  /\ UNCHANGED <<crawled, responses, stored, todo, marked, bound, grant, seedUsers,
                 runs, faults, done, released, lost>>

GiveUp_EffectiveUser ==
  /\ Release(Key([engine.msg EXCEPT !.user = engine.user]))
  /\ engine' = EngineIdle
  /\ UNCHANGED <<requests, responses, stored, todo, marked, bound, seedUsers, runs,
                 done, lost>>

GiveUp_Requeue ==
  /\ requests' = Append(requests, engine.msg)
  /\ engine' = EngineIdle
  /\ UNCHANGED <<crawled, responses, stored, todo, marked, bound, seedUsers, runs,
                 done, released, lost>>

(* Every give-up rolls back the mark under the user of the envelope.       *)
GiveUp ==
  /\ Release(Key(engine.msg))
  /\ engine' = EngineIdle
  /\ UNCHANGED <<requests, responses, stored, todo, marked, bound, seedUsers, runs,
                 done, lost>>

RetryWith_Unmark(e) ==
  /\ engine' = e
  /\ crawled' = crawled \ {Key(engine.msg)}
  /\ UNCHANGED <<requests, responses, stored, todo, marked, bound, seedUsers, runs,
                 done, released, lost>>

RetryWith(e) ==
  /\ engine' = e
  /\ UNCHANGED <<crawled, requests, responses, stored, todo, marked, bound,
                 seedUsers, runs, done, released, lost>>

Engine_Http500_OneMore ==
  /\ engine.pc = "get" /\ "http" \in Faults
  /\ IF engine.n500 + 1 > Max500
       THEN GiveUp
       ELSE RetryWith([engine EXCEPT !.n500 = @ + 1])
  /\ UNCHANGED <<grant, faults>>

Engine_Http500 ==
  /\ engine.pc = "get" /\ "http" \in Faults
  /\ IF engine.n500 + 1 >= Max500
       THEN GiveUp
       ELSE RetryWith([engine EXCEPT !.n500 = @ + 1])
  /\ UNCHANGED <<grant, faults>>

Engine_Http429 ==
  /\ engine.pc = "get" /\ "http" \in Faults
  /\ IF engine.n429 + 1 >= Max429
       THEN GiveUp
       ELSE RetryWith([engine EXCEPT !.n429 = @ + 1])
  /\ UNCHANGED <<grant, faults>>

(* Any other error status, and a success that is not 200.                  *)
Engine_OtherStatus ==
  /\ engine.pc = "get" /\ "http" \in Faults
  /\ GiveUp
  /\ UNCHANGED <<grant, faults>>

(* 401: the token is no longer good, or Spotify refuses a good one.  No    *)
(* counter is kept: the request may be refused as often as Spotify likes.  *)
Engine_Http401 ==
  /\ engine.pc = "get"
  /\ grant[engine.user] # "valid" \/ "http" \in Faults
  /\ RetryWith([engine EXCEPT !.pc = "refresh"])
  /\ UNCHANGED <<grant, faults>>

(* The refresh works, and the GET is repeated with the new token.          *)
Engine_Refresh ==
  /\ engine.pc = "refresh"
  /\ grant[engine.user] \in {"valid", "expired"}
  /\ grant' = [grant EXCEPT ![engine.user] = "valid"]
  /\ RetryWith([engine EXCEPT !.pc = "get"])
  /\ UNCHANGED faults

(* The refresh raises: the grant is revoked, the token files are gone, or  *)
(* the token endpoint cannot be reached.                                   *)
Engine_RefreshFails ==
  /\ engine.pc = "refresh"
  /\ \/ grant[engine.user] \in {"revoked", "absent"} /\ UNCHANGED faults
     \/ grant[engine.user] \in {"valid", "expired"} /\ Fault("refresh")
  /\ GiveUp
  /\ UNCHANGED grant

(* 200: the request for the next page comes before the fan-out.  The token *)
(* of a user forgotten after Engine_Take is still in TOKEN_CACHE.          *)
Engine_Http200 ==
  /\ engine.pc = "get"
  /\ grant[engine.user] \in {"valid", "absent"}
  /\ engine' = [engine EXCEPT !.pc = "respond"]
  /\ todo' = [todo EXCEPT !["engine"] = NextRequests(engine.msg, engine.user)]
  /\ UNCHANGED <<crawled, requests, responses, stored, marked, bound, grant,
                 seedUsers, runs, faults, done, released, lost>>

EngineResponse ==
  [url |-> engine.msg.url, depth |-> engine.msg.depth, user |-> engine.user]

Engine_FanOut_BeforeNextPage ==
  LET sink == SinkOrder[engine.fan + 1]
      last == engine.fan + 1 = Len(SinkOrder) IN
  /\ engine.pc = "respond"
  /\ responses' = IF sink \in Enabled /\ bound[sink]
                    THEN [responses EXCEPT ![sink] = Append(@, EngineResponse)]
                    ELSE responses
  /\ lost' = IF sink \in Enabled /\ ~bound[sink]
               THEN lost \cup LostAt(sink, {Key(EngineResponse)}, "unroutable")
               ELSE lost
  /\ engine' = IF last THEN EngineIdle ELSE [engine EXCEPT !.fan = @ + 1]
  /\ done' = IF last THEN done \cup {[req |-> engine.msg, user |-> engine.user]} ELSE done
  /\ UNCHANGED <<crawled, requests, stored, todo, marked, bound, grant, seedUsers,
                 runs, faults, released>>

(* The response goes to one enabled sink after the other.                  *)
Engine_FanOut ==
  LET sink == SinkOrder[engine.fan + 1]
      last == engine.fan + 1 = Len(SinkOrder) IN
  /\ engine.pc = "respond"
  /\ todo["engine"] = <<>>
  /\ responses' = IF sink \in Enabled /\ bound[sink]
                    THEN [responses EXCEPT ![sink] = Append(@, EngineResponse)]
                    ELSE responses
  /\ lost' = IF sink \in Enabled /\ ~bound[sink]
               THEN lost \cup LostAt(sink, {Key(EngineResponse)}, "unroutable")
               ELSE lost
  /\ engine' = IF last THEN EngineIdle ELSE [engine EXCEPT !.fan = @ + 1]
  /\ done' = IF last THEN done \cup {[req |-> engine.msg, user |-> engine.user]} ELSE done
  /\ UNCHANGED <<crawled, requests, stored, todo, marked, bound, grant, seedUsers,
                 runs, faults, released>>

(* An exception outside the give-up paths (no token file, a body that is   *)
(* not JSON, a fan-out publish that fails): make_spotify_api_call swallows *)
(* it and the mark stays.                                                  *)
Engine_Exception ==
  /\ engine.pc # "idle"
  /\ ~marked["engine"]
  /\ Fault("exception")
  /\ Abandon("engine", todo["engine"])
  /\ UNCHANGED <<crawled, requests, responses, stored, bound, grant, runs, done,
                 released>>

-----------------------------------------------------------------------------
(* The response workers.                                                   *)

TakeFrom(sink) ==
  /\ bound[sink]
  /\ responses[sink] # <<>>
  /\ responses' = [responses EXCEPT ![sink] = Tail(@)]

Worker_Store(sink) ==
  /\ TakeFrom(sink)
  /\ stored' = [stored EXCEPT ![sink] = @ \cup {Head(responses[sink])}]
  /\ UNCHANGED <<crawled, requests, todo, marked, engine, bound, grant, seedUsers,
                 runs, faults, done, released, lost>>

Worker_FollowLinks ==
  LET m == Head(responses["follow_links"]) IN
  /\ todo["follow_links"] = <<>>
  /\ TakeFrom("follow_links")
  /\ todo' = [todo EXCEPT !["follow_links"] = Children(m)]
  /\ stored' = [stored EXCEPT !["follow_links"] = @ \cup {m}]
  /\ UNCHANGED <<crawled, requests, marked, engine, bound, grant, seedUsers, runs,
                 faults, done, released, lost>>

(* The handler raises and the dispatcher skips the message.                *)
Worker_Exception(sink) ==
  /\ TakeFrom(sink)
  /\ Fault("handler")
  /\ lost' = lost \cup LostAt(sink, {Key(Head(responses[sink]))}, "exception")
  /\ UNCHANGED <<crawled, requests, stored, todo, marked, engine, bound, grant,
                 seedUsers, runs, done, released>>

(* A handler raises between two links: the rest of the response's links    *)
(* are not requested.                                                      *)
FollowLinks_Exception ==
  /\ InCall("follow_links")
  /\ Fault("handler")
  /\ Abandon("follow_links", todo["follow_links"])
  /\ UNCHANGED <<crawled, requests, responses, stored, bound, grant, runs, done,
                 released>>

-----------------------------------------------------------------------------
(* Consumers and the broker.                                               *)

Consumer_Bind(queue) ==
  /\ ~bound[queue]
  /\ bound' = [bound EXCEPT ![queue] = TRUE]
  /\ UNCHANGED <<crawled, requests, responses, stored, todo, marked, engine, grant,
                 seedUsers, runs, faults, done, released, lost>>

FirstOf(queue, n) == {Key(queue[i]) : i \in 1..n}
AfterFirst(queue, n) == SubSeq(queue, n + 1, Len(queue))

(* The engine's process or connection dies: the n messages delivered to it *)
(* and the one in hand are acknowledged already.                           *)
Engine_Crash(n) ==
  LET inHand == KeysOf(todo["engine"])
                  \cup (IF engine.pc = "idle" THEN {} ELSE {Key(engine.msg)}) IN
  /\ n \in 0..Len(requests)
  /\ Fault("crash")
  /\ requests' = AfterFirst(requests, n)
  /\ lost' = lost \cup LostAt("make_api_call", FirstOf(requests, n), "delivered")
                  \cup LostAt("make_api_call", inHand, "crash")
  /\ engine' = EngineIdle
  /\ todo' = [todo EXCEPT !["engine"] = <<>>]
  /\ marked' = [marked EXCEPT !["engine"] = FALSE]
  /\ UNCHANGED <<crawled, responses, stored, bound, grant, seedUsers, runs, done,
                 released>>

(* A worker dies with the n messages delivered to it, and the follow_links *)
(* worker with the links it had not requested yet.                         *)
Worker_Crash(sink, n) ==
  LET links == IF sink = "follow_links" THEN KeysOf(todo["follow_links"]) ELSE {} IN
  /\ n \in 0..Len(responses[sink])
  /\ Fault("crash")
  /\ responses' = [responses EXCEPT ![sink] = AfterFirst(@, n)]
  /\ lost' = lost \cup LostAt(sink, FirstOf(responses[sink], n), "delivered")
                  \cup LostAt("make_api_call", links, "crash")
  /\ todo' = IF sink = "follow_links" THEN [todo EXCEPT ![sink] = <<>>] ELSE todo
  /\ marked' = IF sink = "follow_links" THEN [marked EXCEPT ![sink] = FALSE] ELSE marked
  /\ UNCHANGED <<crawled, requests, stored, engine, bound, grant, seedUsers, runs,
                 done, released>>

(* The broker restarts: the queues are durable, the exchanges and with     *)
(* them the bindings are not.                                              *)
Broker_Restart ==
  /\ Fault("restart")
  /\ bound' = [q \in Queues |-> FALSE]
  /\ UNCHANGED <<crawled, requests, responses, stored, todo, marked, engine, grant,
                 seedUsers, runs, done, released, lost>>

-----------------------------------------------------------------------------
(* Tokens, as far as the engine sees them.                                 *)

Grant_Set(id, from, to) ==
  /\ grant[id] \in from
  /\ grant' = [grant EXCEPT ![id] = to]
  /\ UNCHANGED <<crawled, requests, responses, stored, todo, marked, engine, bound,
                 seedUsers, runs, done, released, lost>>

Grant_Expire(id) == Grant_Set(id, {"valid"}, "expired") /\ Fault("expire")
Grant_Revoke(id) == Grant_Set(id, {"valid", "expired"}, "revoked") /\ Fault("revoke")
Grant_Forget(u)  == Grant_Set(u, {"valid", "expired", "revoked"}, "absent") /\ Fault("forget")
Grant_Login(id)  == Grant_Set(id, {"revoked", "absent"}, "valid") /\ UNCHANGED faults

-----------------------------------------------------------------------------
Init ==
  /\ crawled = {}
  /\ requests = <<>>
  /\ responses = [s \in Sinks |-> <<>>]
  /\ stored = [s \in Sinks |-> {}]
  /\ todo = [p \in Callers |-> <<>>]
  /\ marked = [p \in Callers |-> FALSE]
  /\ engine = EngineIdle
  /\ bound = [q \in Queues |-> FALSE]
  /\ grant = [i \in Identities |-> "valid"]
  /\ seedUsers = {}
  /\ runs = 0
  /\ faults = 0
  /\ done = {}
  /\ released = {}
  /\ lost = {}

RequestUrl(p) == RequestUrl_Skip(p) \/ RequestUrl_Mark(p) \/ RequestUrl_Publish(p)

RequestUrl_Fails(p) == RequestUrl_Rollback(p) \/ RequestUrl_NoRedis(p)

Seeder ==
  \/ \E scope \in SeedScopes : Seeder_Start(scope)
  \/ \E u \in Identities : Seeder_NextUser(u)

Engine_Answer ==
  \/ Engine_Http500
  \/ Engine_Http429
  \/ Engine_OtherStatus
  \/ Engine_Http401
  \/ Engine_Refresh
  \/ Engine_RefreshFails
  \/ Engine_Http200

Engine == Engine_Take \/ Engine_Answer \/ Engine_FanOut

Tokens ==
  \/ \E i \in Identities : Grant_Expire(i) \/ Grant_Revoke(i) \/ Grant_Login(i)
  \/ \E u \in Users : Grant_Forget(u)

Failures ==
  \/ Engine_Exception
  \/ \E s \in Stores : Worker_Exception(s)
  \/ FollowLinks_Exception
  \/ Seeder_Crash
  \/ \E n \in 0..Len(requests) : Engine_Crash(n)
  \/ \E s \in Sinks : \E n \in 0..Len(responses[s]) : Worker_Crash(s, n)
  \/ Broker_Restart

Next ==
  \/ \E p \in Callers : RequestUrl(p) \/ RequestUrl_Fails(p)
  \/ Seeder
  \/ Engine
  \/ \E s \in Stores : Worker_Store(s)
  \/ Worker_FollowLinks
  \/ \E q \in Queues : Consumer_Bind(q)
  \/ Tokens
  \/ Failures

Spec == Init /\ [][Next]_vars

(* Every process is a loop that goes on with what it has.  The seeder is   *)
(* started by hand, failures and logins happen or do not.  A GET that      *)
(* times out is repeated without a limit: that Spotify answers at last is  *)
(* an assumption about Spotify, and the answer may be a 401 every time.    *)
Fairness ==
  /\ \A p \in Callers : WF_vars(RequestUrl(p))
  /\ WF_vars(\E u \in Identities : Seeder_NextUser(u))
  /\ WF_vars(Engine)
  /\ \A s \in Stores : WF_vars(Worker_Store(s))
  /\ WF_vars(Worker_FollowLinks)
  /\ \A q \in Queues : WF_vars(Consumer_Bind(q))

FairSpec == Spec /\ Fairness

-----------------------------------------------------------------------------
(* What the crawl promises.                                                *)

(* Every variable keeps its shape, and the engine's retry counters stay    *)
(* below their limits: at the limit it gives up.                           *)
TypeOK ==
  /\ crawled \subseteq Keys
  /\ requests \in Seq(Request)
  /\ responses \in [Sinks -> Seq(Response)]
  /\ stored \in [Sinks -> SUBSET Response]
  /\ todo \in [Callers -> Seq(Request)]
  /\ marked \in [Callers -> BOOLEAN]
  /\ engine \in [pc : {"idle", "get", "refresh", "respond"}, msg : Request \cup {NoRequest},
                 user : Identities, n500 : 0..(Max500 - 1), n429 : 0..(Max429 - 1),
                 fan : 0..2]
  /\ bound \in [Queues -> BOOLEAN]
  /\ grant \in [Identities -> {"valid", "expired", "revoked", "absent"}]
  /\ seedUsers \subseteq Identities
  /\ runs \in Nat
  /\ faults \in Nat
  /\ done \subseteq [req : Request, user : Identities]
  /\ released \subseteq [key : Keys, run : Nat]
  /\ lost \subseteq [at : Queues, key : Keys,
                     why : {"unroutable", "exception", "crash", "delivered"}]

DoneKeys     == {Key(f.req) : f \in done}
ReleasedKeys == {r.key : r \in released}
LostKeys     == {l.key : l \in {x \in lost : x.at = "make_api_call"}}

Busy == engine.pc # "idle"

(* The requests under way: published and not yet delivered, in the         *)
(* engine's hands, or marked and about to be published.                    *)
InFlight ==
  KeysOf(requests)
    \cup (IF Busy THEN {Key(engine.msg)} ELSE {})
    \cup {Key(Head(todo[p])) : p \in {c \in Callers : marked[c]}}

(* No request is under way twice, whichever of the seeder, the engine's    *)
(* pagination and the follow_links worker asked for it, in whatever order: *)
(* marking at publish time collapses the duplicates (request_url).         *)
NoDuplicateInFlight ==
  /\ \A i, j \in DOMAIN requests : Key(requests[i]) = Key(requests[j]) => i = j
  /\ \A p, q \in Callers :
       marked[p] /\ marked[q] /\ Key(Head(todo[p])) = Key(Head(todo[q])) => p = q
  /\ \A p \in Callers : marked[p] => Key(Head(todo[p])) \notin KeysOf(requests)
  /\ Busy => /\ Key(engine.msg) \notin KeysOf(requests)
             /\ \A p \in Callers : marked[p] => Key(Head(todo[p])) # Key(engine.msg)

(* What is under way is marked, and was not fetched and fanned out before: *)
(* one URL at one depth is fetched successfully once, rollbacks or not.    *)
InFlightIsFresh ==
  /\ InFlight \subseteq crawled
  /\ InFlight \cap DoneKeys = {}

(* Every mark in Redis is explained: the request is under way, or done, or *)
(* it fell into one of the loss windows `lost' records.  In particular a   *)
(* give-up of the engine or a failed publish leaves no mark behind.        *)
MarksAccounted == crawled \subseteq InFlight \cup DoneKeys \cup LostKeys

(* The page after a page that was fanned out is marked, unless its own     *)
(* mark was rolled back: the engine requests it first, and as the user     *)
(* that fetched this page.                                                 *)
PaginationContinues ==
  \A f \in done : KeysOf(NextRequests(f.req, f.user)) \subseteq crawled \cup ReleasedKeys

(* Every link of a response the follow_links worker has taken is marked,   *)
(* or was rolled back, or lost, or is one of those it is about to request. *)
LinksFollowed ==
  \A m \in stored["follow_links"] :
    KeysOf(Children(m)) \subseteq
      crawled \cup ReleasedKeys \cup LostKeys \cup KeysOf(todo["follow_links"])

(* Nothing is left to do.                                                  *)
Drained ==
  /\ SeederIdle
  /\ ~Busy
  /\ requests = <<>>
  /\ \A s \in Sinks : responses[s] = <<>>
  /\ \A p \in Callers : todo[p] = <<>>

(* A crawl drains: whatever fails on the way and in whatever order the     *)
(* workers go on, in the end every queue is empty and nobody has work --   *)
(* unless Spotify refuses for ever the tokens it has just issued.  500 and *)
(* 429 are counted and given up; a 401 is not, and the engine then renews  *)
(* the token and repeats the one request for ever (_consume_request).      *)
CrawlDrains == []<>(engine.pc = "refresh") \/ <>[]Drained

-----------------------------------------------------------------------------
(* What the documentation says of the crawl, and the code does not do.     *)

(* "Queues are durable and messages are persistent, so nothing queued is   *)
(* lost" (docs/architecture.md, on a worker that dies mid-crawl).          *)
NothingQueuedIsLost == \A l \in lost : l.why # "delivered"

(* "Nothing is silently lost -- the URL is retried after you re-authorize" *)
(* (docs/auth.md): when a later run of the seeder has drained with every   *)
(* grant valid and without a failure of its own, what was rolled back      *)
(* before has been fetched.  It takes RESET_CRAWL: without it the page     *)
(* that links to the URL is still marked, and is not read again.           *)
RetriedAfterReauthorization ==
  /\ Drained
  /\ lost = {}
  /\ \A i \in Identities : grant[i] = "valid"
  /\ \A r \in released : r.run < runs
  => ReleasedKeys \subseteq DoneKeys

=============================================================================
