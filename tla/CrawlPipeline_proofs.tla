------------------------ MODULE CrawlPipeline_proofs ------------------------
(***************************************************************************)
(* Theorems about CrawlPipeline, for every web, every set of users and     *)
(* every bound.                                                            *)
(***************************************************************************)
EXTENDS CrawlLifecycle, SequenceTheorems, TLAPS

(* A caller that has marked a URL still has it at hand; the engine holds a *)
(* request while it is busy, and calls request_url only after a 200.       *)
CallShape ==
  /\ \A p \in Callers : marked[p] => todo[p] # <<>>
  /\ Busy => engine.msg \in Request
  /\ todo["engine"] # <<>> => engine.pc = "respond"

TypeInv == TypeOK /\ CallShape

-----------------------------------------------------------------------------
(* The shapes of keys and messages.                                        *)

(* The dedup key of a request or a response is a member of Keys.           *)
LEMMA KeyType ==
  ASSUME NEW m, m.url \in Urls, m.depth \in Nat, m.user \in Identities
  PROVE  Key(m) \in Keys
BY DEF Key, SetKey, Keys, Identities

(* So are the keys of a sequence of requests.                              *)
LEMMA KeysOfType ==
  ASSUME NEW s \in Seq(Request)
  PROVE  KeysOf(s) \subseteq Keys
<1>1. \A i \in DOMAIN s : s[i] \in Request
  BY ElementOfSeq, LenProperties
<1>. QED  BY <1>1, KeyType DEF KeysOf, Request

(* Requests builds one request for each url.                               *)
LEMMA RequestsType ==
  ASSUME NEW urls \in Seq(Urls), NEW depth \in Nat, NEW user \in Identities
  PROVE  Requests(urls, depth, user) \in Seq(Request)
<1>1. \A i \in 1..Len(urls) : urls[i] \in Urls
  BY ElementOfSeq
<1>2. Requests(urls, depth, user) \in [1..Len(urls) -> Request]
  BY <1>1, LenProperties DEF Requests, Request
<1>. QED  BY <1>2, LenProperties, SeqDef

(* The seeder's requests for one user.                                     *)
LEMMA SeedRequestsType ==
  ASSUME NEW user \in Identities
  PROVE  SeedRequests(user) \in Seq(Request)
<1>1. Len(Seeds) \in Nat /\ DOMAIN Seeds = 1..Len(Seeds)
  BY WebAssumption, LenProperties
<1>2. \A i \in 1..Len(Seeds) : Seeds[i] \in Urls
  BY WebAssumption, ElementOfSeq
<1>3. \A u \in Urls : SeedDepth[u] \in Nat
  BY BoundAssumption
<1>4. SeedRequests(user) \in [1..Len(Seeds) -> Request]
  BY <1>1, <1>2, <1>3 DEF SeedRequests, Request
<1>. QED  BY <1>1, <1>4, SeqDef

(* The engine's request for the next page.                                 *)
LEMMA NextRequestsType ==
  ASSUME NEW m, m.url \in Urls, m.depth \in Nat, NEW user \in Identities
  PROVE  NextRequests(m, user) \in Seq(Request)
<1>1. CASE NextPage[m.url] = NoUrl
  BY <1>1 DEF NextRequests
<1>2. CASE NextPage[m.url] # NoUrl
  <2>1. <<NextPage[m.url]>> \in Seq(Urls)
    BY <1>2, WebAssumption
  <2>. QED  BY <1>2, <2>1, RequestsType DEF NextRequests
<1>. QED  BY <1>1, <1>2

(* The requests of the follow_links worker.                                *)
LEMMA ChildrenType ==
  ASSUME NEW m \in Response
  PROVE  {Pages(m), Neighbours(m), Children(m)} \subseteq Seq(Request)
<1>1. Pages(m) \in Seq(Request)
  BY WebAssumption, RequestsType DEF Pages, Response
<1>2. Neighbours(m) \in Seq(Request)
  <2>1. m.depth \in Nat /\ m.url \in Urls /\ m.user \in Identities
    BY DEF Response
  <2>2. CASE m.depth <= 0
    BY <2>2, EmptySeq DEF Neighbours
  <2>3. CASE m.depth > 0
    <3>1. m.depth - 1 \in Nat /\ ~(m.depth <= 0)
      BY <2>1, <2>3
    <3>2. Links[m.url] \in Seq(Urls)
      BY <2>1, WebAssumption
    <3>. QED  BY <2>1, <3>1, <3>2, RequestsType DEF Neighbours
  <2>. QED  BY <2>1, <2>2, <2>3
<1>. QED  BY <1>1, <1>2, ConcatProperties DEF Children

(* A consumer that takes the first n messages of a queue leaves a queue,   *)
(* and the taken keys are keys.                                            *)
LEMMA AfterFirstType ==
  ASSUME NEW S, NEW q \in Seq(S), NEW n \in 0..Len(q)
  PROVE  AfterFirst(q, n) \in Seq(S)
BY SubSeqProperties DEF AfterFirst

LEMMA FirstOfType ==
  ASSUME NEW q, q \in Seq(Request) \/ q \in Seq(Response), NEW n \in 0..Len(q)
  PROVE  FirstOf(q, n) \subseteq Keys
<1>1. \A i \in 1..n : q[i] \in Request \/ q[i] \in Response
  BY ElementOfSeq
<1>. QED  BY <1>1, KeyType DEF FirstOf, Request, Response


(* What a step can lose is a set of records of this shape.                 *)
Losses == [at : Queues, key : Keys, why : {"unroutable", "exception", "crash", "delivered"}]

Engines == [pc : {"idle", "get", "refresh", "respond"}, msg : Request \cup {NoRequest},
            user : Identities, n500 : 0..(Max500 - 1), n429 : 0..(Max429 - 1), fan : 0..2]

(* The engine repeats a GET, or renews the token first.                    *)
Asking == {"get", "refresh"}

LEMMA LostAtType ==
  ASSUME NEW place \in Queues, NEW ks, ks \subseteq Keys,
         NEW cause \in {"unroutable", "exception", "crash", "delivered"}
  PROVE  LostAt(place, ks, cause) \subseteq Losses
BY DEF LostAt, Losses

(* The idle engine is an engine.                                           *)
LEMMA IdleType == EngineIdle \in Engines /\ EngineIdle.pc = "idle"
BY BoundAssumption DEF EngineIdle, Engines, Identities

-----------------------------------------------------------------------------
(* Type correctness.                                                       *)

LEMMA TypeInit == Init => TypeInv
<1>. SUFFICES ASSUME Init PROVE TypeInv
  OBVIOUS
<1>1. requests \in Seq(Request) /\ responses \in [Sinks -> Seq(Response)]
        /\ todo \in [Callers -> Seq(Request)]
  BY EmptySeq DEF Init
<1>2. engine \in Engines /\ ~Busy
  BY IdleType DEF Init, Busy
<1>. QED  BY <1>1, <1>2 DEF Init, TypeInv, TypeOK, CallShape, Engines, Callers

(* An exception that leaves a caller keeps the shape of what it touches.   *)
LEMMA TypeAbandon ==
  ASSUME TypeInv, NEW p \in Callers, NEW rest \in Seq(Request), p = "engine" => Busy,
         Abandon(p, rest)
  PROVE  /\ lost' \subseteq Losses
         /\ todo' \in [Callers -> Seq(Request)]
         /\ marked' \in [Callers -> BOOLEAN]
         /\ engine' \in Engines
         /\ seedUsers' \subseteq Identities
         /\ CallShape'
<1>2. p = "engine" => Key(engine.msg) \in Keys
  BY KeyType DEF TypeInv, CallShape, Request
<1>3. KeysOf(rest) \cup (IF p = "engine" THEN {Key(engine.msg)} ELSE {}) \subseteq Keys
  BY <1>2, KeysOfType
<1>4. lost' \subseteq Losses
  BY <1>3, LostAtType DEF Abandon, TypeInv, TypeOK, Losses, Queues
<1>5. todo' \in [Callers -> Seq(Request)] /\ todo'[p] = <<>>
  BY EmptySeq DEF Abandon, TypeInv, TypeOK
<1>6. marked' \in [Callers -> BOOLEAN] /\ ~marked'[p]
  BY DEF Abandon, TypeInv, TypeOK
<1>7. engine' \in Engines /\ seedUsers' \subseteq Identities
  BY IdleType DEF Abandon, TypeInv, TypeOK, Engines
<1>8. CallShape'
  BY <1>5, <1>6, IdleType DEF Abandon, TypeInv, TypeOK, CallShape, Busy
<1>. QED  BY <1>4, <1>5, <1>6, <1>7, <1>8

LEMMA TypeRequestUrl ==
  ASSUME TypeInv, NEW p \in Callers, RequestUrl(p) \/ RequestUrl_Fails(p)
  PROVE  TypeInv'
<1>. DEFINE m == Head(todo[p])
<1>1. /\ todo[p] # <<>> /\ m \in Request
      /\ todo[p] \in Seq(Request) /\ Tail(todo[p]) \in Seq(Request)
      /\ p = "engine" => Busy
  BY HeadTailProperties
     DEF TypeInv, TypeOK, CallShape, Busy, RequestUrl, RequestUrl_Fails, RequestUrl_Skip,
         RequestUrl_Mark, RequestUrl_Publish, RequestUrl_Rollback, RequestUrl_NoRedis, InCall
<1>2. Key(m) \in Keys
  BY <1>1, KeyType DEF Request
<1>3. CASE RequestUrl_Skip(p)
  BY <1>1, <1>3 DEF TypeInv, TypeOK, CallShape, Busy, RequestUrl_Skip, InCall, Callers
<1>4. CASE RequestUrl_Mark(p)
  BY <1>1, <1>2, <1>4 DEF TypeInv, TypeOK, CallShape, Busy, RequestUrl_Mark, Callers
<1>5. CASE RequestUrl_Publish(p)
  <2>1. lost' \subseteq Losses
    <3>1. LostAt("make_api_call", {Key(m)}, "unroutable") \subseteq Losses
      BY <1>2, LostAtType DEF Queues
    <3>. QED  BY <1>5, <3>1 DEF RequestUrl_Publish, TypeInv, TypeOK, Losses
  <2>2. requests' \in Seq(Request)
    <3>1. requests \in Seq(Request)
      BY DEF TypeInv, TypeOK
    <3>2. Append(requests, m) \in Seq(Request)
      BY <1>1, <3>1, AppendProperties
    <3>. QED  BY <1>5, <3>1, <3>2 DEF RequestUrl_Publish
  <2>. QED
    BY <1>1, <1>5, <2>1, <2>2
       DEF TypeInv, TypeOK, CallShape, Busy, RequestUrl_Publish, Callers, Losses
<1>6. CASE RequestUrl_Rollback(p)
  <2>1. /\ crawled' \subseteq Keys /\ faults' \in Nat
        /\ released' \subseteq [key : Keys, run : Nat]
    BY <1>2, <1>6 DEF RequestUrl_Rollback, Release, Fault, TypeInv, TypeOK
  <2>. QED
    BY <1>1, <1>6, <2>1, TypeAbandon
       DEF RequestUrl_Rollback, TypeInv, TypeOK, Losses, Engines
<1>7. CASE RequestUrl_NoRedis(p)
  <2>1. faults' \in Nat
    BY <1>7 DEF RequestUrl_NoRedis, Fault, TypeInv, TypeOK
  <2>. QED
    BY <1>1, <1>7, <2>1, TypeAbandon
       DEF RequestUrl_NoRedis, TypeInv, TypeOK, Losses, Engines
<1>. QED  BY <1>3, <1>4, <1>5, <1>6, <1>7 DEF RequestUrl, RequestUrl_Fails

LEMMA TypeSeeder ==
  ASSUME TypeInv, Seeder \/ Seeder_Crash
  PROVE  TypeInv'
<1>1. ASSUME NEW scope \in SeedScopes, Seeder_Start(scope)
      PROVE  TypeInv'
  <2>1. scope \subseteq Identities
    BY IdentityAssumption DEF SeedScopes, KnownUsers, Identities
  <2>. QED
    BY <1>1, <2>1 DEF Seeder_Start, TypeInv, TypeOK, CallShape, Busy
<1>2. ASSUME NEW u \in Identities, Seeder_NextUser(u)
      PROVE  TypeInv'
  BY <1>2, SeedRequestsType DEF Seeder_NextUser, TypeInv, TypeOK, CallShape, Busy, Callers
<1>3. CASE Seeder_Crash
  <2>1. KeysOf(todo["seeder"]) \subseteq Keys
    BY KeysOfType DEF TypeInv, TypeOK, Callers
  <2>2. lost' \subseteq Losses
    <3>1. LostAt("make_api_call", KeysOf(todo["seeder"]), "crash") \subseteq Losses
      BY <2>1, LostAtType DEF Queues
    <3>. QED  BY <1>3, <3>1 DEF Seeder_Crash, TypeInv, TypeOK, Losses
  <2>3. todo' \in [Callers -> Seq(Request)]
    BY <1>3, EmptySeq DEF Seeder_Crash, TypeInv, TypeOK
  <2>4. faults' \in Nat
    BY <1>3 DEF Seeder_Crash, Fault, TypeInv, TypeOK
  <2>. QED
    BY <1>3, <2>2, <2>3, <2>4
       DEF Seeder_Crash, TypeInv, TypeOK, CallShape, Busy, Callers, Losses
<1>. QED  BY <1>1, <1>2, <1>3 DEF Seeder

(* A give-up of the engine.                                                *)
LEMMA TypeGiveUp ==
  ASSUME TypeInv, engine.pc \in Asking, GiveUp, grant' = grant, faults' \in Nat
  PROVE  TypeInv'
<1>1. Key(engine.msg) \in Keys
  BY KeyType DEF TypeInv, CallShape, Busy, Request, Asking
<1>2. todo["engine"] = <<>> /\ ~marked["engine"]
  BY DEF TypeInv, CallShape, Callers, Asking
<1>. QED
  BY <1>1, <1>2, IdleType
     DEF GiveUp, Release, TypeInv, TypeOK, CallShape, Busy, Engines

(* A step that deletes nobody's tokens.                                    *)
KeepsTokenFiles == \A u \in Users : grant[u] # "absent" => grant'[u] # "absent"

(* A 401 and the refresh after it change no more than the pc.              *)
LEMMA RefreshRetries ==
  ASSUME TypeInv, Engine_Http401 \/ Engine_Refresh
  PROVE  /\ engine.pc \in Asking /\ faults' = faults
         /\ grant' \in [Identities -> {"valid", "expired", "revoked", "absent"}]
         /\ KeepsTokenFiles
         /\ \E e \in Engines : /\ RetryWith(e) /\ e.pc \in Asking
                             /\ e.msg = engine.msg /\ e.user = engine.user
<1>1. engine \in Engines
  BY DEF TypeInv, TypeOK, Engines
<1>2. CASE Engine_Http401
  <2>. DEFINE e == [engine EXCEPT !.pc = "refresh"]
  <2>1. /\ e \in Engines /\ e.pc \in Asking /\ RetryWith(e)
        /\ e.msg = engine.msg /\ e.user = engine.user
    BY <1>1, <1>2 DEF Engine_Http401, Engines, Asking
  <2>2. engine.pc \in Asking /\ faults' = faults /\ grant' = grant
    BY <1>2 DEF Engine_Http401, Asking
  <2>. QED  BY <2>1, <2>2 DEF TypeInv, TypeOK, KeepsTokenFiles
<1>3. CASE Engine_Refresh
  <2>. DEFINE e == [engine EXCEPT !.pc = "get"]
  <2>1. /\ e \in Engines /\ e.pc \in Asking /\ RetryWith(e)
        /\ e.msg = engine.msg /\ e.user = engine.user
    BY <1>1, <1>3 DEF Engine_Refresh, Engines, Asking
  <2>2. engine.pc \in Asking /\ faults' = faults
    BY <1>3 DEF Engine_Refresh, Asking
  <2>3. /\ grant' \in [Identities -> {"valid", "expired", "revoked", "absent"}]
        /\ KeepsTokenFiles
    BY <1>1, <1>3 DEF Engine_Refresh, TypeInv, TypeOK, KeepsTokenFiles, Identities
  <2>. QED  BY <2>1, <2>2, <2>3
<1>. QED  BY <1>2, <1>3

LEMMA TypeEngine ==
  ASSUME TypeInv, Engine
  PROVE  TypeInv'
<1>1. ASSUME Engine_Take PROVE TypeInv'
  <2>1. Head(requests) \in Request /\ Tail(requests) \in Seq(Request)
    BY <1>1, HeadTailProperties DEF Engine_Take, TypeInv, TypeOK
  <2>2. ResolveEffectiveUser(Head(requests).user) \in Identities
    BY <2>1 DEF ResolveEffectiveUser, Request, Identities
  <2>3. engine' \in Engines /\ engine'.pc = "get" /\ engine'.msg \in Request
    BY <1>1, <2>1, <2>2, IdleType DEF Engine_Take, Engines
  <2>4. todo["engine"] = <<>> /\ ~marked["engine"]
    BY <1>1 DEF Engine_Take, TypeInv, CallShape, Callers
  <2>. QED
    BY <1>1, <2>1, <2>3, <2>4
       DEF Engine_Take, TypeInv, TypeOK, CallShape, Busy, Engines
<1>2. ASSUME engine.pc \in Asking, NEW e \in Engines, e.pc \in Asking, e.msg = engine.msg,
             RetryWith(e), grant' \in [Identities -> {"valid", "expired", "revoked", "absent"}],
             faults' = faults
      PROVE  TypeInv'
  BY <1>2 DEF RetryWith, TypeInv, TypeOK, CallShape, Busy, Engines, Asking
<1>3. ASSUME Engine_Http500 \/ Engine_Http429 PROVE TypeInv'
  <2>1. engine.pc = "get" /\ grant' = grant /\ faults' = faults
    BY <1>3 DEF Engine_Http500, Engine_Http429
  <2>2. engine \in Engines /\ faults \in Nat
    BY DEF TypeInv, TypeOK, Engines
  <2>. DEFINE e5 == [engine EXCEPT !.n500 = @ + 1]
              e4 == [engine EXCEPT !.n429 = @ + 1]
  <2>3. /\ engine.n500 + 1 < Max500 => e5 \in Engines
        /\ engine.n429 + 1 < Max429 => e4 \in Engines
    BY <2>2, BoundAssumption DEF Engines
  <2>4. /\ e5.pc = "get" /\ e5.msg = engine.msg
        /\ e4.pc = "get" /\ e4.msg = engine.msg
    BY <2>1, <2>2 DEF Engines
  <2>5. \/ GiveUp
        \/ engine.n500 + 1 < Max500 /\ RetryWith(e5)
        \/ engine.n429 + 1 < Max429 /\ RetryWith(e4)
    BY <1>3, <2>2, BoundAssumption DEF Engine_Http500, Engine_Http429, Engines
  <2>6. grant' \in [Identities -> {"valid", "expired", "revoked", "absent"}]
    BY <2>1 DEF TypeInv, TypeOK
  <2>. QED  BY <1>2, <2>1, <2>2, <2>3, <2>4, <2>5, <2>6, TypeGiveUp DEF Asking
<1>4. ASSUME Engine_OtherStatus \/ Engine_RefreshFails PROVE TypeInv'
  BY <1>4, TypeGiveUp
     DEF Engine_OtherStatus, Engine_RefreshFails, Fault, TypeInv, TypeOK, Asking
<1>5. ASSUME Engine_Http401 \/ Engine_Refresh PROVE TypeInv'
  BY <1>2, <1>5, RefreshRetries
<1>6. ASSUME Engine_Http200 PROVE TypeInv'
  <2>1. NextRequests(engine.msg, engine.user) \in Seq(Request)
    BY <1>6, NextRequestsType DEF Engine_Http200, TypeInv, TypeOK, CallShape, Busy, Request
  <2>2. engine' \in Engines /\ engine'.pc = "respond" /\ engine'.msg = engine.msg
    BY <1>6 DEF Engine_Http200, TypeInv, TypeOK, Engines
  <2>3. ~marked["engine"] /\ engine.msg \in Request
    BY <1>6 DEF Engine_Http200, TypeInv, CallShape, Busy, Callers
  <2>. QED
    BY <1>6, <2>1, <2>2, <2>3
       DEF Engine_Http200, TypeInv, TypeOK, CallShape, Busy, Callers, Engines
<1>7. ASSUME Engine_FanOut PROVE TypeInv'
  <2>1. /\ engine \in Engines /\ engine.msg \in Request
        /\ todo["engine"] = <<>> /\ ~marked["engine"]
    BY <1>7 DEF Engine_FanOut, TypeInv, TypeOK, CallShape, Busy, Engines, Callers
  <2>2. EngineResponse \in Response
    BY <2>1 DEF EngineResponse, Response, Request, Engines
  <2>. DEFINE sink == SinkOrder[engine.fan + 1]
  <2>3. sink \in Sinks /\ sink \in Queues /\ Len(SinkOrder) = 3
    BY <2>1 DEF Engines, SinkOrder, Sinks, Stores, Queues
  <2>4. Append(responses[sink], EngineResponse) \in Seq(Response)
    BY <2>2, <2>3, AppendProperties DEF TypeInv, TypeOK
  <2>5. responses' \in [Sinks -> Seq(Response)]
    BY <1>7, <2>3, <2>4 DEF Engine_FanOut, TypeInv, TypeOK
  <2>6. lost' \subseteq Losses
    <3>1. Key(EngineResponse) \in Keys
      BY <2>2, KeyType DEF Response
    <3>2. LostAt(sink, {Key(EngineResponse)}, "unroutable") \subseteq Losses
      BY <2>3, <3>1, LostAtType
    <3>. QED  BY <1>7, <3>2 DEF Engine_FanOut, TypeInv, TypeOK, Losses
  <2>7. engine' \in Engines /\ (engine'.pc # "idle" => engine'.msg \in Request)
    <3>1. CASE engine' = EngineIdle
      BY <3>1, IdleType
    <3>2. CASE engine' = [engine EXCEPT !.fan = @ + 1] /\ engine.fan + 1 # 3
      <4>1. engine.fan + 1 \in 0..2
        BY <2>1, <3>2 DEF Engines
      <4>. QED  BY <2>1, <3>2, <4>1 DEF Engines
    <3>. QED  BY <1>7, <2>3, <3>1, <3>2 DEF Engine_FanOut
  <2>8. done' \subseteq [req : Request, user : Identities]
    BY <1>7, <2>1 DEF Engine_FanOut, TypeInv, TypeOK, Engines
  <2>. QED
    BY <1>7, <2>1, <2>5, <2>6, <2>7, <2>8
       DEF Engine_FanOut, TypeInv, TypeOK, CallShape, Busy, Engines, Losses
<1>. QED  BY <1>1, <1>3, <1>4, <1>5, <1>6, <1>7 DEF Engine, Engine_Answer

(* A consumer takes the first response of its queue.                       *)
LEMMA TypeTakeFrom ==
  ASSUME TypeInv, NEW sink \in Sinks, TakeFrom(sink)
  PROVE  /\ responses' \in [Sinks -> Seq(Response)]
         /\ Head(responses[sink]) \in Response
BY HeadTailProperties DEF TakeFrom, TypeInv, TypeOK

LEMMA TypeWorkers ==
  ASSUME TypeInv,
         \/ \E s \in Stores : Worker_Store(s) \/ Worker_Exception(s)
         \/ Worker_FollowLinks
         \/ FollowLinks_Exception
  PROVE  TypeInv'
<1>1. ASSUME NEW s \in Stores, Worker_Store(s) PROVE TypeInv'
  <2>1. s \in Sinks
    BY DEF Sinks
  <2>2. responses' \in [Sinks -> Seq(Response)] /\ Head(responses[s]) \in Response
    BY <1>1, <2>1, TypeTakeFrom DEF Worker_Store
  <2>3. stored' \in [Sinks -> SUBSET Response]
    BY <1>1, <2>1, <2>2 DEF Worker_Store, TypeInv, TypeOK
  <2>4. UNCHANGED <<crawled, requests, todo, marked, engine, bound, grant, seedUsers, runs,
                    faults, done, released, lost>>
    BY <1>1 DEF Worker_Store
  <2>. QED
    BY <2>2, <2>3, <2>4 DEF TypeInv, TypeOK, CallShape, Busy
<1>2. ASSUME NEW s \in Stores, Worker_Exception(s) PROVE TypeInv'
  <2>1. s \in Sinks /\ s \in Queues
    BY DEF Sinks, Queues
  <2>2. responses' \in [Sinks -> Seq(Response)] /\ Head(responses[s]) \in Response
    BY <1>2, <2>1, TypeTakeFrom DEF Worker_Exception
  <2>3. LostAt(s, {Key(Head(responses[s]))}, "exception") \subseteq Losses
    BY <2>1, <2>2, KeyType, LostAtType DEF Response
  <2>4. lost' \subseteq Losses
    BY <1>2, <2>3 DEF Worker_Exception, TypeInv, TypeOK, Losses
  <2>6. faults' \in Nat
    BY <1>2 DEF Worker_Exception, Fault, TypeInv, TypeOK
  <2>5. UNCHANGED <<crawled, requests, stored, todo, marked, engine, bound, grant, seedUsers,
                    runs, done, released>>
    BY <1>2 DEF Worker_Exception
  <2>. QED
    BY <2>2, <2>4, <2>5, <2>6 DEF TypeInv, TypeOK, CallShape, Busy, Losses
<1>3. ASSUME Worker_FollowLinks PROVE TypeInv'
  <2>1. "follow_links" \in Sinks /\ "follow_links" \in Callers
    BY DEF Sinks, Callers
  <2>2. responses' \in [Sinks -> Seq(Response)] /\ Head(responses["follow_links"]) \in Response
    BY <1>3, <2>1, TypeTakeFrom DEF Worker_FollowLinks
  <2>3. Children(Head(responses["follow_links"])) \in Seq(Request)
    BY <2>2, ChildrenType
  <2>4. stored' \in [Sinks -> SUBSET Response]
    BY <1>3, <2>1, <2>2 DEF Worker_FollowLinks, TypeInv, TypeOK
  <2>5. todo' \in [Callers -> Seq(Request)] /\ CallShape'
    BY <1>3, <2>1, <2>3 DEF Worker_FollowLinks, TypeInv, TypeOK, CallShape, Busy
  <2>6. UNCHANGED <<crawled, requests, marked, engine, bound, grant, seedUsers, runs,
                    faults, done, released, lost>>
    BY <1>3 DEF Worker_FollowLinks
  <2>. QED
    BY <2>2, <2>4, <2>5, <2>6 DEF TypeInv, TypeOK
<1>4. ASSUME FollowLinks_Exception PROVE TypeInv'
  <2>1. /\ "follow_links" \in Callers /\ faults' \in Nat
        /\ todo["follow_links"] \in Seq(Request)
    BY <1>4 DEF Callers, FollowLinks_Exception, Fault, TypeInv, TypeOK
  <2>. QED
    BY <1>4, <2>1, TypeAbandon
       DEF FollowLinks_Exception, TypeInv, TypeOK, Losses, Engines
<1>. QED  BY <1>1, <1>2, <1>3, <1>4

LEMMA TypeEngineFailures ==
  ASSUME TypeInv, Engine_Exception \/ \E n \in 0..Len(requests) : Engine_Crash(n)
  PROVE  TypeInv'
<1>0. "engine" \in Callers
  BY DEF Callers
<1>1. ASSUME Engine_Exception PROVE TypeInv'
  <2>1. Busy /\ faults' \in Nat /\ todo["engine"] \in Seq(Request)
    BY <1>0, <1>1 DEF Engine_Exception, Busy, Fault, TypeInv, TypeOK
  <2>. QED
    BY <1>0, <1>1, <2>1, TypeAbandon DEF Engine_Exception, TypeInv, TypeOK, Losses, Engines
<1>2. ASSUME NEW n \in 0..Len(requests), Engine_Crash(n) PROVE TypeInv'
  <2>. DEFINE inHand == KeysOf(todo["engine"])
                          \cup (IF engine.pc = "idle" THEN {} ELSE {Key(engine.msg)})
  <2>1. requests \in Seq(Request) /\ todo["engine"] \in Seq(Request)
    BY <1>0 DEF TypeInv, TypeOK
  <2>2. inHand \subseteq Keys
    BY <2>1, KeysOfType, KeyType DEF TypeInv, CallShape, Busy, Request
  <2>3. AfterFirst(requests, n) \in Seq(Request) /\ FirstOf(requests, n) \subseteq Keys
    BY <2>1, AfterFirstType, FirstOfType
  <2>4. /\ LostAt("make_api_call", FirstOf(requests, n), "delivered") \subseteq Losses
        /\ LostAt("make_api_call", inHand, "crash") \subseteq Losses
    BY <2>2, <2>3, LostAtType DEF Queues
  <2>5. lost' \subseteq Losses
    BY <1>2, <2>4 DEF Engine_Crash, TypeInv, TypeOK, Losses
  <2>6. todo' \in [Callers -> Seq(Request)] /\ todo'["engine"] = <<>>
    BY <1>0, <1>2, EmptySeq DEF Engine_Crash, TypeInv, TypeOK
  <2>7. engine' \in Engines /\ ~Busy'
    BY <1>2, IdleType DEF Engine_Crash, Busy
  <2>8. requests' \in Seq(Request) /\ faults' \in Nat
    BY <1>2, <2>3 DEF Engine_Crash, Fault, TypeInv, TypeOK
  <2>9. marked' \in [Callers -> BOOLEAN] /\ CallShape'
    BY <1>0, <1>2, <2>6, <2>7 DEF Engine_Crash, TypeInv, TypeOK, CallShape
  <2>10. UNCHANGED <<crawled, responses, stored, bound, grant, seedUsers, runs, done, released>>
    BY <1>2 DEF Engine_Crash
  <2>. QED
    BY <2>5, <2>6, <2>7, <2>8, <2>9, <2>10 DEF TypeInv, TypeOK, Losses, Engines
<1>. QED  BY <1>1, <1>2

LEMMA TypeWorkerCrash ==
  ASSUME TypeInv, NEW sink \in Sinks, NEW n \in 0..Len(responses[sink]),
         Worker_Crash(sink, n)
  PROVE  TypeInv'
<1>. DEFINE links == IF sink = "follow_links" THEN KeysOf(todo["follow_links"]) ELSE {}
<1>1. sink \in Queues /\ "follow_links" \in Callers /\ responses[sink] \in Seq(Response)
  BY DEF Queues, Callers, TypeInv, TypeOK
<1>2. AfterFirst(responses[sink], n) \in Seq(Response)
        /\ FirstOf(responses[sink], n) \subseteq Keys
  BY <1>1, AfterFirstType, FirstOfType
<1>3. links \subseteq Keys
  BY <1>1, KeysOfType DEF TypeInv, TypeOK
<1>4. /\ LostAt(sink, FirstOf(responses[sink], n), "delivered") \subseteq Losses
      /\ LostAt("make_api_call", links, "crash") \subseteq Losses
  BY <1>1, <1>2, <1>3, LostAtType DEF Queues
<1>5. lost' \subseteq Losses
  BY <1>4 DEF Worker_Crash, TypeInv, TypeOK, Losses
<1>6. todo' \in [Callers -> Seq(Request)] /\ marked' \in [Callers -> BOOLEAN]
  BY <1>1, EmptySeq DEF Worker_Crash, TypeInv, TypeOK
<1>7. CallShape'
  BY <1>1 DEF Worker_Crash, TypeInv, TypeOK, CallShape, Busy, Callers
<1>8. responses' \in [Sinks -> Seq(Response)]
  BY <1>2 DEF Worker_Crash, TypeInv, TypeOK
<1>9. faults' \in Nat
        /\ UNCHANGED <<crawled, requests, stored, engine, bound, grant, seedUsers, runs, done,
                       released>>
  BY DEF Worker_Crash, Fault, TypeInv, TypeOK
<1>. QED
  BY <1>5, <1>6, <1>7, <1>8, <1>9 DEF TypeInv, TypeOK, Losses

(* Consumers that bind, the broker and the tokens.                         *)
LEMMA TypeEnvironment ==
  ASSUME TypeInv, (\E q \in Queues : Consumer_Bind(q)) \/ Broker_Restart \/ Tokens
  PROVE  TypeInv'
<1>1. ASSUME NEW q \in Queues, Consumer_Bind(q) PROVE TypeInv'
  BY <1>1 DEF Consumer_Bind, TypeInv, TypeOK, CallShape, Busy
<1>2. CASE Broker_Restart
  BY <1>2 DEF Broker_Restart, Fault, TypeInv, TypeOK, CallShape, Busy
<1>3. ASSUME NEW id \in Identities, NEW from, NEW to \in {"valid", "expired", "revoked", "absent"},
             Grant_Set(id, from, to), faults' \in Nat
      PROVE  TypeInv'
  BY <1>3 DEF Grant_Set, TypeInv, TypeOK, CallShape, Busy
<1>4. faults \in Nat /\ Users \subseteq Identities
  BY DEF TypeInv, TypeOK, Identities
<1>5. ASSUME NEW i \in Identities, Grant_Expire(i) \/ Grant_Revoke(i) \/ Grant_Login(i)
      PROVE  TypeInv'
  <2>1. faults' \in Nat
    BY <1>4, <1>5 DEF Grant_Expire, Grant_Revoke, Grant_Login, Fault
  <2>. QED  BY <1>3, <1>5, <2>1 DEF Grant_Expire, Grant_Revoke, Grant_Login
<1>6. ASSUME NEW u \in Users, Grant_Forget(u)
      PROVE  TypeInv'
  <2>1. faults' \in Nat
    BY <1>4, <1>6 DEF Grant_Forget, Fault
  <2>. QED  BY <1>3, <1>4, <1>6, <2>1 DEF Grant_Forget
<1>. QED  BY <1>1, <1>2, <1>5, <1>6 DEF Tokens

LEMMA TypeNext == TypeInv /\ [Next]_vars => TypeInv'
<1>. SUFFICES ASSUME TypeInv, [Next]_vars PROVE TypeInv'
  OBVIOUS
<1>1. CASE \E p \in Callers : RequestUrl(p) \/ RequestUrl_Fails(p)
  BY <1>1, TypeRequestUrl
<1>2. CASE Seeder \/ Seeder_Crash
  BY <1>2, TypeSeeder
<1>3. CASE Engine
  BY <1>3, TypeEngine
<1>4. CASE \/ \E s \in Stores : Worker_Store(s) \/ Worker_Exception(s)
           \/ Worker_FollowLinks
           \/ FollowLinks_Exception
  BY <1>4, TypeWorkers
<1>5. CASE Engine_Exception \/ \E n \in 0..Len(requests) : Engine_Crash(n)
  BY <1>5, TypeEngineFailures
<1>6. CASE \E s \in Sinks : \E n \in 0..Len(responses[s]) : Worker_Crash(s, n)
  BY <1>6, TypeWorkerCrash
<1>7. CASE (\E q \in Queues : Consumer_Bind(q)) \/ Broker_Restart \/ Tokens
  BY <1>7, TypeEnvironment
<1>8. CASE UNCHANGED vars
  BY <1>8 DEF vars, TypeInv, TypeOK, CallShape, Busy
<1>. QED  BY <1>1, <1>2, <1>3, <1>4, <1>5, <1>6, <1>7, <1>8 DEF Next, Failures

(* Every variable keeps its shape, a caller in the middle of request_url   *)
(* has the URL at hand, and a busy engine has a request.                   *)
THEOREM TypeCorrect == Spec => []TypeInv
BY TypeInit, TypeNext, PTL DEF Spec

(* The type invariant the runs check.                                      *)
THEOREM TypeCorrectness == Spec => []TypeOK
BY TypeCorrect, PTL DEF TypeInv

-----------------------------------------------------------------------------
(* Deduplication.  Without resets, a key under way is under way in one     *)
(* place only, it is marked, and it has not been fetched: to be marked it  *)
(* had to be absent from Redis, where everything under way and everything  *)
(* fetched is.                                                             *)

DoneMarked == DoneKeys \subseteq crawled

DedupInv == NoDuplicateInFlight /\ InFlightIsFresh /\ DoneMarked

NoReset == ~ResetCrawl /\ ~ResetCatalog

(* r is what is left of the queue q when n messages are taken from it.     *)
Leaves(q, r, n) == \A i \in DOMAIN r : i + n \in DOMAIN q /\ r[i] = q[i + n]

LEMMA AfterFirstElements ==
  ASSUME NEW S, NEW q \in Seq(S), NEW n \in 0..Len(q)
  PROVE  /\ DOMAIN AfterFirst(q, n) = 1..(Len(q) - n)
         /\ \A i \in 1..(Len(q) - n) : AfterFirst(q, n)[i] = q[i + n]
<1>1. Len(q) \in Nat /\ \A i \in (n + 1)..Len(q) : q[i] \in S
  BY LenProperties, ElementOfSeq
<1>2. AfterFirst(q, n) \in Seq(S)
  BY AfterFirstType
<1>3. Len(AfterFirst(q, n)) = Len(q) - n
  BY <1>1, SubSeqProperties DEF AfterFirst
<1>4. \A i \in 1..(Len(q) - n) : AfterFirst(q, n)[i] = q[i + n]
  BY <1>1, SubSeqProperties DEF AfterFirst
<1>. QED  BY <1>2, <1>3, <1>4, LenProperties

LEMMA AfterFirstLeaves ==
  ASSUME NEW S, NEW q \in Seq(S), NEW n \in 0..Len(q)
  PROVE  Leaves(q, AfterFirst(q, n), n)
<1>1. Len(q) \in Nat /\ DOMAIN q = 1..Len(q)
  BY LenProperties
<1>2. /\ DOMAIN AfterFirst(q, n) = 1..(Len(q) - n)
      /\ \A i \in 1..(Len(q) - n) : AfterFirst(q, n)[i] = q[i + n]
  BY AfterFirstElements
<1>3. \A i \in 1..(Len(q) - n) : i + n \in 1..Len(q)
  BY <1>1
<1>. QED  BY <1>1, <1>2, <1>3 DEF Leaves

LEMMA TailLeaves ==
  ASSUME NEW S, NEW q \in Seq(S), q # <<>>
  PROVE  Leaves(q, Tail(q), 1) /\ 1 \in DOMAIN q /\ Head(q) = q[1]
<1>1. /\ Len(q) \in Nat \ {0} /\ DOMAIN q = 1..Len(q)
      /\ Tail(q) \in Seq(S) /\ Len(Tail(q)) = Len(q) - 1 /\ Head(q) = q[1]
      /\ \A i \in 1..Len(Tail(q)) : Tail(q)[i] = q[i + 1]
  BY LenProperties, EmptySeq, HeadTailProperties
<1>2. DOMAIN Tail(q) = 1..(Len(q) - 1)
  BY <1>1, LenProperties
<1>. QED  BY <1>1, <1>2 DEF Leaves

(* A step that starts nothing, takes n messages from the engine's queue    *)
(* and forgets marks of nothing under way or fetched keeps the invariant.  *)
LEMMA DedupShrinks ==
  ASSUME TypeInv, DedupInv, NEW n \in Nat, NEW gone,
         Leaves(requests, requests', n), DOMAIN requests' \subseteq Nat,
         \A p \in Callers : marked'[p] => marked[p] /\ Head(todo'[p]) = Head(todo[p]),
         Busy' => Busy /\ engine'.msg = engine.msg,
         done' = done,
         crawled \ gone \subseteq crawled',
         gone \cap InFlight' = {}, gone \cap DoneKeys = {}
  PROVE  DedupInv'
<1>1. KeysOf(requests') \subseteq KeysOf(requests)
  BY DEF KeysOf, Leaves
<1>2. InFlight' \subseteq InFlight
  BY <1>1 DEF InFlight
<1>3. DoneKeys' = DoneKeys
  BY DEF DoneKeys
<1>4. InFlightIsFresh' /\ DoneMarked'
  BY <1>2, <1>3 DEF DedupInv, InFlightIsFresh, DoneMarked
<1>5. \A i, j \in DOMAIN requests' : Key(requests'[i]) = Key(requests'[j]) => i = j
  BY DEF DedupInv, NoDuplicateInFlight, Leaves
<1>6. NoDuplicateInFlight'
  BY <1>1, <1>5 DEF DedupInv, NoDuplicateInFlight
<1>. QED  BY <1>4, <1>6 DEF DedupInv

LEMMA LeavesAll ==
  ASSUME TypeOK
  PROVE  Leaves(requests, requests, 0) /\ DOMAIN requests \subseteq Nat
BY LenProperties DEF Leaves, TypeOK

(* A step that leaves Redis, the engine's queue and the history alone and  *)
(* starts nothing keeps the invariant.                                     *)
LEMMA DedupKept ==
  ASSUME TypeInv, DedupInv,
         UNCHANGED <<crawled, requests, done>>,
         \A p \in Callers : marked'[p] => marked[p] /\ Head(todo'[p]) = Head(todo[p]),
         Busy' => Busy /\ engine'.msg = engine.msg
  PROVE  DedupInv'
<1>1. Leaves(requests, requests', 0) /\ DOMAIN requests' \subseteq Nat
  BY LeavesAll DEF TypeInv
<1>2. crawled \ {} \subseteq crawled' /\ {} \cap InFlight' = {} /\ {} \cap DoneKeys = {}
  OBVIOUS
<1>. QED  BY <1>1, <1>2, DedupShrinks

(* A caller's marked head is a request, with a key in Redis and nowhere    *)
(* else under way.                                                         *)
LEMMA DedupRequestUrl ==
  ASSUME TypeInv, DedupInv, NEW p \in Callers, RequestUrl(p)
  PROVE  DedupInv'
<1>. DEFINE m == Head(todo[p])
<1>1. CASE RequestUrl_Skip(p)
  BY <1>1, DedupKept DEF RequestUrl_Skip, InCall, Busy, TypeInv, TypeOK
<1>2. CASE RequestUrl_Mark(p)
  <2>1. /\ ~marked[p] /\ Key(m) \notin crawled
        /\ crawled' = crawled \cup {Key(m)}
        /\ \A q \in Callers : marked'[q] <=> marked[q] \/ q = p
        /\ UNCHANGED <<requests, todo, engine, done>>
    BY <1>2 DEF RequestUrl_Mark, InCall, ShouldRequest, UrlIsNew, TypeInv, TypeOK
  <2>2. Key(m) \notin InFlight /\ Key(m) \notin DoneKeys
    BY <2>1 DEF DedupInv, InFlightIsFresh, DoneMarked
  <2>3. InFlight' \subseteq InFlight \cup {Key(m)} /\ DoneKeys' = DoneKeys
    BY <2>1 DEF InFlight, Busy, DoneKeys
  <2>4. InFlightIsFresh' /\ DoneMarked'
    BY <2>1, <2>2, <2>3 DEF DedupInv, InFlightIsFresh, DoneMarked
  <2>5. NoDuplicateInFlight'
    BY <2>1, <2>2 DEF DedupInv, NoDuplicateInFlight, InFlight, Busy
  <2>. QED  BY <2>4, <2>5 DEF DedupInv
<1>3. CASE RequestUrl_Publish(p)
  <2>1. /\ marked[p]
        /\ \A q \in Callers : marked'[q] <=> marked[q] /\ q # p
        /\ \A q \in Callers : marked'[q] => todo'[q] = todo[q]
        /\ UNCHANGED <<crawled, engine, done>>
        /\ requests' = Append(requests, m) \/ requests' = requests
    BY <1>3 DEF RequestUrl_Publish, TypeInv, TypeOK
  <2>2. CASE requests' = requests
    BY <2>1, <2>2, DedupKept DEF Busy
  <2>3. CASE requests' = Append(requests, m)
    <3>1. /\ Len(requests) \in Nat /\ DOMAIN requests = 1..Len(requests)
          /\ DOMAIN requests' = 1..(Len(requests) + 1)
          /\ \A i \in 1..Len(requests) : requests'[i] = requests[i]
          /\ requests'[Len(requests) + 1] = m
      <4>1. requests \in Seq(Request) /\ m \in Request
        BY <2>1, HeadTailProperties DEF TypeInv, TypeOK, CallShape
      <4>. QED  BY <2>3, <4>1, LenProperties, AppendProperties
    <3>2. KeysOf(requests') = KeysOf(requests) \cup {Key(m)}
      BY <3>1 DEF KeysOf
    <3>3. InFlight' \subseteq InFlight /\ DoneKeys' = DoneKeys
      BY <2>1, <3>2 DEF InFlight, Busy, DoneKeys
    <3>4. InFlightIsFresh' /\ DoneMarked'
      BY <2>1, <3>3 DEF DedupInv, InFlightIsFresh, DoneMarked
    <3>5. \A i \in DOMAIN requests : Key(requests[i]) # Key(m)
      BY <2>1 DEF DedupInv, NoDuplicateInFlight, KeysOf
    <3>6. \A i, j \in DOMAIN requests' : Key(requests'[i]) = Key(requests'[j]) => i = j
      BY <3>1, <3>5 DEF DedupInv, NoDuplicateInFlight
    <3>7. NoDuplicateInFlight'
      BY <2>1, <3>2, <3>6 DEF DedupInv, NoDuplicateInFlight, Busy
    <3>. QED  BY <3>4, <3>7 DEF DedupInv
  <2>. QED  BY <2>1, <2>2, <2>3
<1>. QED  BY <1>1, <1>2, <1>3 DEF RequestUrl

(* An exception ends what its caller had under way.                        *)
LEMMA AbandonEnds ==
  ASSUME TypeInv, NEW p \in Callers, NEW rest, Abandon(p, rest)
  PROVE  /\ \A q \in Callers : marked'[q] => q # p /\ marked[q] /\ Head(todo'[q]) = Head(todo[q])
         /\ Busy' => p # "engine" /\ Busy /\ engine'.msg = engine.msg
BY IdleType DEF Abandon, TypeInv, TypeOK, Busy

LEMMA DedupRequestUrlFails ==
  ASSUME TypeInv, DedupInv, NEW p \in Callers, RequestUrl_Fails(p)
  PROVE  DedupInv'
<1>1. CASE RequestUrl_Rollback(p)
  <2>. DEFINE k == Key(Head(todo[p]))
  <2>1. /\ marked[p] /\ crawled' = crawled \ {k}
        /\ UNCHANGED <<requests, done>>
        /\ Abandon(p, Tail(todo[p]))
    BY <1>1 DEF RequestUrl_Rollback, Release
  <2>2. k \notin InFlight'
    BY <2>1, AbandonEnds DEF InFlight, Busy, DedupInv, NoDuplicateInFlight
  <2>3. k \notin DoneKeys
    BY <2>1 DEF InFlight, DedupInv, InFlightIsFresh
  <2>. QED
    <3>1. Leaves(requests, requests', 0) /\ DOMAIN requests' \subseteq Nat
      BY <2>1, LeavesAll DEF TypeInv
    <3>2. /\ crawled \ {k} \subseteq crawled'
          /\ {k} \cap InFlight' = {} /\ {k} \cap DoneKeys = {}
      BY <2>1, <2>2, <2>3
    <3>3. /\ \A q \in Callers : marked'[q] => marked[q] /\ Head(todo'[q]) = Head(todo[q])
          /\ Busy' => Busy /\ engine'.msg = engine.msg
      BY <2>1, AbandonEnds
    <3>. QED  BY <2>1, <3>1, <3>2, <3>3, DedupShrinks
<1>2. CASE RequestUrl_NoRedis(p)
  BY <1>2, AbandonEnds, DedupKept DEF RequestUrl_NoRedis
<1>. QED  BY <1>1, <1>2 DEF RequestUrl_Fails

LEMMA DedupSeeder ==
  ASSUME TypeInv, DedupInv, NoReset, Seeder \/ Seeder_Crash
  PROVE  DedupInv'
<1>1. ASSUME NEW scope, Seeder_Start(scope) PROVE DedupInv'
  BY <1>1, DedupKept DEF Seeder_Start, NoReset, Busy
<1>2. ASSUME NEW u, Seeder_NextUser(u) PROVE DedupInv'
  <2>1. ~marked["seeder"]
    BY <1>2 DEF Seeder_NextUser, TypeInv, CallShape, Callers
  <2>. QED  BY <1>2, <2>1, DedupKept DEF Seeder_NextUser, NoReset, Busy, TypeInv, TypeOK
<1>3. CASE Seeder_Crash
  BY <1>3, DedupKept DEF Seeder_Crash, Busy, TypeInv, TypeOK
<1>. QED  BY <1>1, <1>2, <1>3 DEF Seeder

LEMMA DedupGiveUp ==
  ASSUME TypeInv, DedupInv, Busy, GiveUp
  PROVE  DedupInv'
<1>. DEFINE k == Key(engine.msg)
<1>1. /\ crawled' = crawled \ {k} /\ engine' = EngineIdle
      /\ UNCHANGED <<requests, todo, marked, done>>
  BY DEF GiveUp, Release
<1>2. ~Busy'
  BY <1>1, IdleType DEF Busy
<1>3. k \notin InFlight'
  BY <1>1, <1>2 DEF InFlight, DedupInv, NoDuplicateInFlight
<1>4. k \notin DoneKeys
  BY DEF InFlight, DedupInv, InFlightIsFresh
<1>5. Leaves(requests, requests', 0) /\ DOMAIN requests' \subseteq Nat
  BY <1>1, LeavesAll DEF TypeInv
<1>6. /\ crawled \ {k} \subseteq crawled'
      /\ {k} \cap InFlight' = {} /\ {k} \cap DoneKeys = {}
  BY <1>1, <1>3, <1>4
<1>. QED  BY <1>1, <1>2, <1>5, <1>6, DedupShrinks

LEMMA DedupEngine ==
  ASSUME TypeInv, DedupInv, Engine
  PROVE  DedupInv'
<1>1. CASE Engine_Take
  <2>. DEFINE m == Head(requests)
  <2>1. /\ ~Busy /\ Busy' /\ engine'.msg = m
        /\ UNCHANGED <<crawled, todo, marked, done>>
        /\ requests # <<>> /\ requests' = Tail(requests)
    BY <1>1 DEF Engine_Take, Busy, EngineIdle
  <2>2. /\ Leaves(requests, requests', 1) /\ 1 \in DOMAIN requests /\ m = requests[1]
        /\ requests \in Seq(Request) /\ requests' \in Seq(Request)
    BY <2>1, TailLeaves, HeadTailProperties DEF TypeInv, TypeOK
  <2>3. DOMAIN requests' \subseteq Nat \ {0}
    BY <2>2, LenProperties
  <2>4. KeysOf(requests') \subseteq KeysOf(requests) /\ Key(m) \in KeysOf(requests)
    BY <2>2 DEF KeysOf, Leaves
  <2>5. \A i \in DOMAIN requests' : Key(requests'[i]) # Key(m)
    BY <2>2, <2>3 DEF Leaves, DedupInv, NoDuplicateInFlight
  <2>6. \A i, j \in DOMAIN requests' : Key(requests'[i]) = Key(requests'[j]) => i = j
    BY <2>2, <2>3 DEF Leaves, DedupInv, NoDuplicateInFlight
  <2>7. NoDuplicateInFlight'
    BY <2>1, <2>4, <2>5, <2>6 DEF DedupInv, NoDuplicateInFlight, KeysOf
  <2>8. InFlight' \subseteq InFlight /\ DoneKeys' = DoneKeys
    BY <2>1, <2>4 DEF InFlight, DoneKeys
  <2>. QED  BY <2>1, <2>7, <2>8 DEF DedupInv, InFlightIsFresh, DoneMarked
<1>2. ASSUME NEW e, RetryWith(e), engine.pc \in Asking, e.pc \in Asking, e.msg = engine.msg
      PROVE  DedupInv'
  BY <1>2, DedupKept DEF RetryWith, Busy, Asking
<1>3. CASE Engine_Http500 \/ Engine_Http429
  <2>1. engine.pc = "get" /\ Busy
    BY <1>3 DEF Engine_Http500, Engine_Http429, Busy
  <2>. DEFINE e5 == [engine EXCEPT !.n500 = @ + 1]
              e4 == [engine EXCEPT !.n429 = @ + 1]
  <2>2. /\ e5.pc = "get" /\ e5.msg = engine.msg
        /\ e4.pc = "get" /\ e4.msg = engine.msg
    BY <2>1 DEF TypeInv, TypeOK
  <2>3. GiveUp \/ RetryWith(e5) \/ RetryWith(e4)
    BY <1>3 DEF Engine_Http500, Engine_Http429
  <2>. QED  BY <1>2, <2>1, <2>2, <2>3, DedupGiveUp DEF Asking
<1>4. CASE Engine_OtherStatus \/ Engine_RefreshFails
  BY <1>4, DedupGiveUp DEF Engine_OtherStatus, Engine_RefreshFails, Busy
<1>5. CASE Engine_Http401 \/ Engine_Refresh
  BY <1>2, <1>5, RefreshRetries
<1>6. CASE Engine_Http200
  <2>1. ~marked["engine"]
    BY <1>6 DEF Engine_Http200, TypeInv, CallShape, Callers
  <2>2. Busy /\ engine'.msg = engine.msg
    BY <1>6 DEF Engine_Http200, Busy, TypeInv, TypeOK
  <2>. QED  BY <1>6, <2>1, <2>2, DedupKept DEF Engine_Http200, TypeInv, TypeOK
<1>7. CASE Engine_FanOut
  <2>1. Busy /\ UNCHANGED <<crawled, requests, todo, marked>>
    BY <1>7 DEF Engine_FanOut, Busy
  <2>2. CASE engine' = [engine EXCEPT !.fan = @ + 1] /\ done' = done
    <3>1. engine'.msg = engine.msg
      BY <2>2 DEF TypeInv, TypeOK
    <3>. QED  BY <2>1, <2>2, <3>1, DedupKept
  <2>3. CASE engine' = EngineIdle /\ done' = done \cup {[req |-> engine.msg, user |-> engine.user]}
    <3>1. ~Busy' /\ DoneKeys' = DoneKeys \cup {Key(engine.msg)}
      <4>. DEFINE now == [req |-> engine.msg, user |-> engine.user]
      <4>1. ~Busy' /\ now.req = engine.msg /\ done' = done \cup {now}
        BY <2>3, IdleType DEF Busy
      <4>. HIDE DEF now
      <4>. QED  BY <4>1 DEF DoneKeys
    <3>2. Key(engine.msg) \in InFlight /\ InFlight' \subseteq InFlight
      BY <2>1, <3>1 DEF InFlight
    <3>3. Key(engine.msg) \notin InFlight'
      BY <2>1, <3>1 DEF InFlight, DedupInv, NoDuplicateInFlight
    <3>4. NoDuplicateInFlight'
      BY <2>1, <3>1 DEF DedupInv, NoDuplicateInFlight
    <3>. QED  BY <2>1, <3>1, <3>2, <3>3, <3>4 DEF DedupInv, InFlightIsFresh, DoneMarked
  <2>. QED  BY <1>7, <2>2, <2>3 DEF Engine_FanOut
<1>. QED  BY <1>1, <1>3, <1>4, <1>5, <1>6, <1>7 DEF Engine, Engine_Answer

(* The workers, the crashes and the environment start nothing.             *)
LEMMA DedupOthers ==
  ASSUME TypeInv, DedupInv,
         \/ \E s \in Stores : Worker_Store(s)
         \/ Worker_FollowLinks
         \/ \E q \in Queues : Consumer_Bind(q)
         \/ Tokens
         \/ Engine_Exception
         \/ \E s \in Stores : Worker_Exception(s)
         \/ FollowLinks_Exception
         \/ \E n \in 0..Len(requests) : Engine_Crash(n)
         \/ \E s \in Sinks : \E n \in 0..Len(responses[s]) : Worker_Crash(s, n)
         \/ Broker_Restart
  PROVE  DedupInv'
<1>1. ASSUME UNCHANGED <<crawled, requests, todo, marked, engine, done>>
      PROVE  DedupInv'
  BY <1>1, DedupKept DEF Busy
<1>2. CASE \/ \E s \in Stores : Worker_Store(s) \/ Worker_Exception(s)
           \/ \E q \in Queues : Consumer_Bind(q)
           \/ Broker_Restart
  BY <1>1, <1>2 DEF Worker_Store, Worker_Exception, Consumer_Bind, Broker_Restart
<1>3. CASE Tokens
  BY <1>1, <1>3 DEF Tokens, Grant_Expire, Grant_Revoke, Grant_Login, Grant_Forget, Grant_Set
<1>4. CASE Worker_FollowLinks
  <2>1. ~marked["follow_links"]
    BY <1>4 DEF Worker_FollowLinks, TypeInv, CallShape, Callers
  <2>. QED  BY <1>4, <2>1, DedupKept DEF Worker_FollowLinks, Busy, TypeInv, TypeOK
<1>5. CASE Engine_Exception \/ FollowLinks_Exception
  BY <1>5, AbandonEnds, DedupKept DEF Engine_Exception, FollowLinks_Exception, Callers
<1>6. ASSUME NEW n \in 0..Len(requests), Engine_Crash(n) PROVE DedupInv'
  <2>1. Leaves(requests, requests', n) /\ requests' \in Seq(Request)
    BY <1>6, AfterFirstLeaves, AfterFirstType DEF Engine_Crash, TypeInv, TypeOK
  <2>2. DOMAIN requests' \subseteq Nat /\ n \in Nat
    BY <2>1, LenProperties DEF TypeInv, TypeOK
  <2>3. /\ ~Busy' /\ UNCHANGED <<crawled, done>>
        /\ \A p \in Callers : marked'[p] => marked[p] /\ Head(todo'[p]) = Head(todo[p])
    BY <1>6, IdleType DEF Engine_Crash, Busy, TypeInv, TypeOK
  <2>4. crawled \ {} \subseteq crawled' /\ {} \cap InFlight' = {} /\ {} \cap DoneKeys = {}
    BY <2>3
  <2>. QED  BY <2>1, <2>2, <2>3, <2>4, DedupShrinks
<1>7. ASSUME NEW s \in Sinks, NEW n, Worker_Crash(s, n) PROVE DedupInv'
  BY <1>7, DedupKept DEF Worker_Crash, Busy, TypeInv, TypeOK
<1>. QED  BY <1>2, <1>3, <1>4, <1>5, <1>6, <1>7

LEMMA DedupNext == TypeInv /\ DedupInv /\ NoReset /\ [Next]_vars => DedupInv'
<1>. SUFFICES ASSUME TypeInv, DedupInv, NoReset, [Next]_vars PROVE DedupInv'
  OBVIOUS
<1>1. CASE UNCHANGED vars
  BY <1>1, DedupKept DEF vars, Busy
<1>2. CASE Next
  BY <1>2, DedupRequestUrl, DedupRequestUrlFails, DedupSeeder, DedupEngine, DedupOthers
     DEF Next, Failures
<1>. QED  BY <1>1, <1>2

LEMMA DedupInit == Init => DedupInv
<1>. SUFFICES ASSUME Init PROVE DedupInv
  OBVIOUS
<1>1. /\ DOMAIN requests = {} /\ done = {} /\ ~Busy
      /\ \A p \in Callers : ~marked[p]
  BY IdleType DEF Init, Busy
<1>2. InFlight = {} /\ DoneKeys = {}
  BY <1>1 DEF InFlight, DoneKeys, KeysOf
<1>. QED
  BY <1>1, <1>2 DEF DedupInv, NoDuplicateInFlight, InFlightIsFresh, DoneMarked

(* However the seeder, the engine's pagination and the follow_links worker *)
(* interleave, and whatever crashes or fails, a crawl without resets never *)
(* has a request under way twice.                                          *)
THEOREM Deduplication ==
  ASSUME NoReset
  PROVE  Spec => []NoDuplicateInFlight
<1>1. TypeInv /\ DedupInv /\ [Next]_vars => DedupInv'
  BY DedupNext
<1>2. DedupInv => NoDuplicateInFlight
  BY DEF DedupInv
<1>. QED  BY <1>1, <1>2, TypeInit, TypeNext, DedupInit, PTL DEF Spec

(* And it never fetches again what it has fetched: what is under way is    *)
(* marked and not done.                                                    *)
THEOREM FetchedOnce ==
  ASSUME NoReset
  PROVE  Spec => []InFlightIsFresh
<1>1. TypeInv /\ DedupInv /\ [Next]_vars => DedupInv'
  BY DedupNext
<1>2. DedupInv => InFlightIsFresh
  BY DEF DedupInv
<1>. QED  BY <1>1, <1>2, TypeInit, TypeNext, DedupInit, PTL DEF Spec

-----------------------------------------------------------------------------
(* The marks.  Nothing here needs NoReset: a reset only takes marks away.  *)

(* What a step loses on the way to the engine is lost.                     *)
LEMMA LostKeysGrow ==
  ASSUME NEW ks, NEW cause, LostAt("make_api_call", ks, cause) \subseteq lost'
  PROVE  ks \subseteq LostKeys'
<1>. SUFFICES ASSUME NEW k \in ks PROVE k \in LostKeys'
  OBVIOUS
<1>. DEFINE l == [at |-> "make_api_call", key |-> k, why |-> cause]
<1>1. l \in lost' /\ l.at = "make_api_call" /\ l.key = k
  BY DEF LostAt
<1>. HIDE DEF l
<1>. QED  BY <1>1 DEF LostKeys

(* A step that marks only what is then under way, and accounts for what it *)
(* ends without taking the mark away, keeps the invariant.                 *)
LEMMA AccountedStep ==
  ASSUME MarksAccounted, done \subseteq done', lost \subseteq lost',
         crawled' \subseteq crawled \cup InFlight',
         InFlight \cap crawled' \subseteq InFlight' \cup DoneKeys' \cup LostKeys'
  PROVE  MarksAccounted'
<1>1. DoneKeys \subseteq DoneKeys'
  BY DEF DoneKeys
<1>2. LostKeys \subseteq LostKeys'
  BY DEF LostKeys
<1>. QED  BY <1>1, <1>2 DEF MarksAccounted

(* A step that leaves all that is under way there.                         *)
LEMMA AccountedKept ==
  ASSUME MarksAccounted, done \subseteq done', lost \subseteq lost', crawled' \subseteq crawled,
         requests' = requests,
         \A p \in Callers : marked[p] => marked'[p] /\ Head(todo'[p]) = Head(todo[p]),
         Busy => Busy' /\ engine'.msg = engine.msg
  PROVE  MarksAccounted'
<1>1. InFlight \subseteq InFlight'
  BY DEF InFlight
<1>. QED  BY <1>1, AccountedStep

(* The head of a caller's list is in the list.                             *)
LEMMA HeadKey ==
  ASSUME TypeInv, NEW p \in Callers, todo[p] # <<>>
  PROVE  Key(Head(todo[p])) \in KeysOf(todo[p])
<1>1. todo[p] \in Seq(Request)
  BY DEF TypeInv, TypeOK
<1>. QED  BY <1>1, TailLeaves DEF KeysOf

(* An exception accounts for what its caller had under way, if that is in  *)
(* rest or its mark is gone.                                               *)
LEMMA AccountedAbandon ==
  ASSUME TypeInv, MarksAccounted, NEW p \in Callers, NEW rest, Abandon(p, rest),
         marked[p] => Key(Head(todo[p])) \in KeysOf(rest) \/ Key(Head(todo[p])) \notin crawled',
         done' = done, crawled' \subseteq crawled, requests' = requests
  PROVE  MarksAccounted'
<1>. DEFINE inHand == IF p = "engine" THEN {Key(engine.msg)} ELSE {}
<1>1. lost' = lost \cup LostAt("make_api_call", KeysOf(rest) \cup inHand, "exception")
  BY DEF Abandon
<1>2. KeysOf(rest) \cup inHand \subseteq LostKeys'
  BY <1>1, LostKeysGrow
<1>3. \A q \in Callers : q # p => marked'[q] = marked[q] /\ todo'[q] = todo[q]
  BY DEF Abandon, TypeInv, TypeOK
<1>4. p # "engine" => engine' = engine
  BY DEF Abandon
<1>5. marked[p] => Key(Head(todo[p])) \in LostKeys' \/ Key(Head(todo[p])) \notin crawled'
  BY <1>2
<1>6. Busy => Key(engine.msg) \in LostKeys' \/ (Busy' /\ engine'.msg = engine.msg)
  BY <1>2, <1>4 DEF Busy
<1>7. InFlight \cap crawled' \subseteq InFlight' \cup LostKeys'
  BY <1>3, <1>5, <1>6 DEF InFlight
<1>. QED  BY <1>1, <1>7, AccountedStep

LEMMA AccountedRequestUrl ==
  ASSUME TypeInv, MarksAccounted, NEW p \in Callers, RequestUrl(p) \/ RequestUrl_Fails(p)
  PROVE  MarksAccounted'
<1>. DEFINE m == Head(todo[p])
<1>1. CASE RequestUrl_Skip(p)
  BY <1>1, AccountedKept DEF RequestUrl_Skip, InCall, Busy, TypeInv, TypeOK
<1>2. CASE RequestUrl_Mark(p)
  <2>1. /\ crawled' = crawled \cup {Key(m)} /\ marked'[p] /\ Head(todo'[p]) = m
        /\ \A q \in Callers : marked[q] => marked'[q]
        /\ UNCHANGED <<requests, todo, engine, done, lost>>
    BY <1>2 DEF RequestUrl_Mark, TypeInv, TypeOK
  <2>2. InFlight \subseteq InFlight' /\ Key(m) \in InFlight'
    BY <2>1 DEF InFlight, Busy
  <2>. QED  BY <2>1, <2>2, AccountedStep
<1>3. CASE RequestUrl_Publish(p)
  <2>1. /\ marked[p] /\ todo[p] # <<>>
        /\ \A q \in Callers : q # p => marked'[q] = marked[q] /\ todo'[q] = todo[q]
        /\ UNCHANGED <<crawled, engine, done>>
    BY <1>3 DEF RequestUrl_Publish, TypeInv, TypeOK, CallShape
  <2>2. KeysOf(requests) \subseteq KeysOf(requests') /\ lost \subseteq lost'
          /\ Key(m) \in KeysOf(requests') \cup LostKeys'
    <3>1. CASE requests' = Append(requests, m) /\ lost' = lost
      <4>1. requests \in Seq(Request) /\ m \in Request
        BY <2>1, HeadTailProperties DEF TypeInv, TypeOK
      <4>2. /\ Len(requests) \in Nat /\ DOMAIN requests = 1..Len(requests)
            /\ DOMAIN requests' = 1..(Len(requests) + 1)
            /\ \A i \in 1..Len(requests) : requests'[i] = requests[i]
            /\ requests'[Len(requests) + 1] = m
        BY <3>1, <4>1, LenProperties, AppendProperties
      <4>. QED  BY <3>1, <4>2 DEF KeysOf
    <3>2. CASE /\ requests' = requests
               /\ lost' = lost \cup LostAt("make_api_call", {Key(m)}, "unroutable")
      <4>1. {Key(m)} \subseteq LostKeys'
        BY <3>2, LostKeysGrow
      <4>. QED  BY <3>2, <4>1
    <3>. QED  BY <1>3, <3>1, <3>2 DEF RequestUrl_Publish
  <2>3. InFlight \subseteq InFlight' \cup LostKeys'
    BY <2>1, <2>2 DEF InFlight, Busy
  <2>. QED  BY <2>1, <2>2, <2>3, AccountedStep
<1>4. CASE RequestUrl_Rollback(p)
  BY <1>4, AccountedAbandon DEF RequestUrl_Rollback, Release
<1>5. CASE RequestUrl_NoRedis(p)
  BY <1>5, AccountedAbandon DEF RequestUrl_NoRedis, InCall
<1>. QED  BY <1>1, <1>2, <1>3, <1>4, <1>5 DEF RequestUrl, RequestUrl_Fails

LEMMA AccountedSeeder ==
  ASSUME TypeInv, MarksAccounted, Seeder \/ Seeder_Crash
  PROVE  MarksAccounted'
<1>1. ASSUME NEW scope, Seeder_Start(scope) PROVE MarksAccounted'
  BY <1>1, AccountedKept DEF Seeder_Start, Busy
<1>2. ASSUME NEW u, Seeder_NextUser(u) PROVE MarksAccounted'
  <2>1. ~marked["seeder"]
    BY <1>2 DEF Seeder_NextUser, TypeInv, CallShape, Callers
  <2>. QED  BY <1>2, <2>1, AccountedKept DEF Seeder_NextUser, Busy, TypeInv, TypeOK
<1>3. CASE Seeder_Crash
  <2>1. /\ UNCHANGED <<crawled, requests, engine, done>>
        /\ lost' = lost \cup LostAt("make_api_call", KeysOf(todo["seeder"]), "crash")
        /\ \A q \in Callers : q # "seeder" => marked'[q] = marked[q] /\ todo'[q] = todo[q]
    BY <1>3 DEF Seeder_Crash, TypeInv, TypeOK
  <2>2. KeysOf(todo["seeder"]) \subseteq LostKeys'
    BY <2>1, LostKeysGrow
  <2>3. marked["seeder"] => Key(Head(todo["seeder"])) \in LostKeys'
    BY <2>2, HeadKey DEF TypeInv, CallShape, Callers
  <2>4. InFlight \subseteq InFlight' \cup LostKeys'
    BY <2>1, <2>3 DEF InFlight, Busy
  <2>. QED  BY <2>1, <2>4, AccountedStep
<1>. QED  BY <1>1, <1>2, <1>3 DEF Seeder

LEMMA AccountedGiveUp ==
  ASSUME MarksAccounted, GiveUp
  PROVE  MarksAccounted'
<1>1. InFlight \subseteq InFlight' \cup {Key(engine.msg)}
  BY DEF GiveUp, InFlight
<1>2. crawled' = crawled \ {Key(engine.msg)} /\ UNCHANGED <<done, lost>>
  BY DEF GiveUp, Release
<1>. QED  BY <1>1, <1>2, AccountedStep

LEMMA AccountedEngine ==
  ASSUME TypeInv, MarksAccounted, Engine
  PROVE  MarksAccounted'
<1>1. CASE Engine_Take
  <2>. DEFINE m == Head(requests)
  <2>1. /\ ~Busy /\ Busy' /\ engine'.msg = m
        /\ UNCHANGED <<crawled, todo, marked, done, lost>>
        /\ requests # <<>> /\ requests' = Tail(requests)
    BY <1>1 DEF Engine_Take, Busy, EngineIdle
  <2>2. /\ requests \in Seq(Request) /\ DOMAIN requests = 1..Len(requests)
        /\ Len(requests) \in Nat /\ m = requests[1]
        /\ DOMAIN requests' = 1..(Len(requests) - 1)
        /\ \A i \in 1..(Len(requests) - 1) : requests'[i] = requests[i + 1]
    BY <2>1, HeadTailProperties, LenProperties, TailLeaves DEF TypeInv, TypeOK
  <2>3. KeysOf(requests) \subseteq KeysOf(requests') \cup {Key(m)}
    <3>1. ASSUME NEW i \in DOMAIN requests, i # 1
          PROVE  requests[i] = requests'[i - 1] /\ i - 1 \in DOMAIN requests'
      BY <2>2, <3>1
    <3>. QED  BY <2>2, <3>1 DEF KeysOf
  <2>4. InFlight \subseteq InFlight'
    BY <2>1, <2>3 DEF InFlight
  <2>. QED  BY <2>1, <2>4, AccountedStep
<1>2. ASSUME NEW e, RetryWith(e), engine.pc \in Asking, e.pc \in Asking, e.msg = engine.msg
      PROVE  MarksAccounted'
  BY <1>2, AccountedKept DEF RetryWith, Busy, Asking
<1>3. CASE Engine_Http500 \/ Engine_Http429
  <2>. DEFINE e5 == [engine EXCEPT !.n500 = @ + 1]
              e4 == [engine EXCEPT !.n429 = @ + 1]
  <2>1. /\ engine.pc = "get"
        /\ e5.pc = "get" /\ e5.msg = engine.msg
        /\ e4.pc = "get" /\ e4.msg = engine.msg
    BY <1>3 DEF Engine_Http500, Engine_Http429, TypeInv, TypeOK
  <2>2. GiveUp \/ RetryWith(e5) \/ RetryWith(e4)
    BY <1>3 DEF Engine_Http500, Engine_Http429
  <2>. QED  BY <1>2, <2>1, <2>2, AccountedGiveUp DEF Asking
<1>4. CASE Engine_OtherStatus \/ Engine_RefreshFails
  BY <1>4, AccountedGiveUp DEF Engine_OtherStatus, Engine_RefreshFails
<1>5. CASE Engine_Http401 \/ Engine_Refresh
  BY <1>2, <1>5, RefreshRetries
<1>6. CASE Engine_Http200
  <2>1. ~marked["engine"]
    BY <1>6 DEF Engine_Http200, TypeInv, CallShape, Callers
  <2>2. Busy' /\ engine'.msg = engine.msg
    BY <1>6 DEF Engine_Http200, Busy, TypeInv, TypeOK
  <2>. QED  BY <1>6, <2>1, <2>2, AccountedKept DEF Engine_Http200, TypeInv, TypeOK
<1>7. CASE Engine_FanOut
  <2>1. /\ Busy /\ UNCHANGED <<crawled, requests, todo, marked>>
        /\ done \subseteq done' /\ lost \subseteq lost'
    BY <1>7 DEF Engine_FanOut, Busy
  <2>2. CASE engine' = [engine EXCEPT !.fan = @ + 1]
    <3>1. engine'.msg = engine.msg /\ Busy'
      BY <2>1, <2>2 DEF TypeInv, TypeOK, Busy
    <3>. QED  BY <2>1, <3>1, AccountedKept
  <2>3. CASE done' = done \cup {[req |-> engine.msg, user |-> engine.user]}
    <3>. DEFINE now == [req |-> engine.msg, user |-> engine.user]
    <3>1. now \in done' /\ now.req = engine.msg
      BY <2>3
    <3>. HIDE DEF now
    <3>2. Key(engine.msg) \in DoneKeys'
      BY <3>1 DEF DoneKeys
    <3>3. InFlight \subseteq InFlight' \cup DoneKeys'
      BY <2>1, <3>2 DEF InFlight
    <3>. QED  BY <2>1, <3>3, AccountedStep
  <2>. QED  BY <1>7, <2>2, <2>3 DEF Engine_FanOut
<1>. QED  BY <1>1, <1>3, <1>4, <1>5, <1>6, <1>7 DEF Engine, Engine_Answer

LEMMA AccountedEngineCrash ==
  ASSUME TypeInv, MarksAccounted, NEW n \in 0..Len(requests), Engine_Crash(n)
  PROVE  MarksAccounted'
<1>. DEFINE inHand == KeysOf(todo["engine"])
                        \cup (IF engine.pc = "idle" THEN {} ELSE {Key(engine.msg)})
<1>1. /\ UNCHANGED <<crawled, done>> /\ requests' = AfterFirst(requests, n)
      /\ lost' = lost \cup LostAt("make_api_call", FirstOf(requests, n), "delivered")
                      \cup LostAt("make_api_call", inHand, "crash")
      /\ \A q \in Callers : q # "engine" => marked'[q] = marked[q] /\ todo'[q] = todo[q]
  BY DEF Engine_Crash, TypeInv, TypeOK
<1>2. FirstOf(requests, n) \subseteq LostKeys' /\ inHand \subseteq LostKeys'
  <2>1. /\ LostAt("make_api_call", FirstOf(requests, n), "delivered") \subseteq lost'
        /\ LostAt("make_api_call", inHand, "crash") \subseteq lost'
    BY <1>1
  <2>. QED  BY <2>1, LostKeysGrow
<1>3. KeysOf(requests) \subseteq KeysOf(requests') \cup FirstOf(requests, n)
  <2>1. /\ requests \in Seq(Request) /\ Len(requests) \in Nat
        /\ DOMAIN requests = 1..Len(requests)
    BY LenProperties DEF TypeInv, TypeOK
  <2>2. /\ DOMAIN requests' = 1..(Len(requests) - n)
        /\ \A i \in 1..(Len(requests) - n) : requests'[i] = requests[i + n]
    BY <1>1, <2>1, AfterFirstElements
  <2>3. ASSUME NEW i \in DOMAIN requests
        PROVE  \/ i \in 1..n
               \/ i - n \in DOMAIN requests' /\ requests[i] = requests'[i - n]
    BY <2>1, <2>2
  <2>. QED  BY <2>3 DEF KeysOf, FirstOf
<1>4. marked["engine"] => Key(Head(todo["engine"])) \in LostKeys'
  BY <1>2, HeadKey DEF TypeInv, CallShape, Callers
<1>5. InFlight \subseteq InFlight' \cup LostKeys'
  BY <1>1, <1>2, <1>3, <1>4 DEF InFlight, Busy
<1>. QED  BY <1>1, <1>5, AccountedStep

LEMMA AccountedWorkerCrash ==
  ASSUME TypeInv, MarksAccounted, NEW s \in Sinks, NEW n, Worker_Crash(s, n)
  PROVE  MarksAccounted'
<1>1. /\ UNCHANGED <<crawled, requests, engine, done>> /\ lost \subseteq lost'
  BY DEF Worker_Crash
<1>2. CASE s # "follow_links"
  BY <1>1, <1>2, AccountedKept DEF Worker_Crash, Busy
<1>3. CASE s = "follow_links"
  <2>1. KeysOf(todo["follow_links"]) \subseteq LostKeys'
    <3>1. LostAt("make_api_call", KeysOf(todo["follow_links"]), "crash") \subseteq lost'
      BY <1>3 DEF Worker_Crash
    <3>. QED  BY <3>1, LostKeysGrow
  <2>2. marked["follow_links"] => Key(Head(todo["follow_links"])) \in LostKeys'
    BY <2>1, HeadKey DEF TypeInv, CallShape, Callers
  <2>3. \A q \in Callers : q # "follow_links" => marked'[q] = marked[q] /\ todo'[q] = todo[q]
    BY <1>3 DEF Worker_Crash, TypeInv, TypeOK
  <2>4. InFlight \subseteq InFlight' \cup LostKeys'
    BY <1>1, <2>2, <2>3 DEF InFlight, Busy
  <2>. QED  BY <1>1, <2>4, AccountedStep
<1>. QED  BY <1>2, <1>3

LEMMA AccountedNext == TypeInv /\ MarksAccounted /\ [Next]_vars => MarksAccounted'
<1>. SUFFICES ASSUME TypeInv, MarksAccounted, [Next]_vars PROVE MarksAccounted'
  OBVIOUS
<1>1. ASSUME UNCHANGED <<crawled, requests, todo, marked, engine, done>>, lost \subseteq lost'
      PROVE  MarksAccounted'
  BY <1>1, AccountedKept DEF Busy
<1>2. CASE \/ \E s \in Stores : Worker_Store(s) \/ Worker_Exception(s)
           \/ \E q \in Queues : Consumer_Bind(q)
           \/ Broker_Restart
  BY <1>1, <1>2 DEF Worker_Store, Worker_Exception, Consumer_Bind, Broker_Restart
<1>3. CASE Tokens
  BY <1>1, <1>3 DEF Tokens, Grant_Expire, Grant_Revoke, Grant_Login, Grant_Forget, Grant_Set
<1>4. CASE Worker_FollowLinks
  <2>1. ~marked["follow_links"]
    BY <1>4 DEF Worker_FollowLinks, TypeInv, CallShape, Callers
  <2>. QED  BY <1>4, <2>1, AccountedKept DEF Worker_FollowLinks, Busy, TypeInv, TypeOK
<1>5. CASE Engine_Exception \/ FollowLinks_Exception
  BY <1>5, AccountedAbandon DEF Engine_Exception, FollowLinks_Exception, InCall, Callers
<1>6. CASE UNCHANGED vars
  BY <1>1, <1>6 DEF vars
<1>7. CASE Next
  BY <1>2, <1>3, <1>4, <1>5, <1>7, AccountedRequestUrl, AccountedSeeder, AccountedEngine,
     AccountedEngineCrash, AccountedWorkerCrash
     DEF Next, Failures
<1>. QED  BY <1>6, <1>7

(* Every mark in Redis is explained, for every web, any number of runs,    *)
(* crashes and resets: under way, done, or in a loss window of `lost'.     *)
THEOREM MarksExplained == Spec => []MarksAccounted
<1>1. Init => MarksAccounted
  BY DEF Init, MarksAccounted
<1>. QED  BY <1>1, TypeInit, TypeNext, AccountedNext, PTL DEF Spec

-----------------------------------------------------------------------------
(* The links.  Without resets a mark leaves Redis through a roll-back only, *)
(* and a caller drops a request only if it is marked, rolled back or lost.  *)

Settled == crawled \cup ReleasedKeys

LEMMA MarksStay ==
  ASSUME TypeInv, NoReset, [Next]_vars
  PROVE  Settled \subseteq Settled'
<1>1. ASSUME crawled \subseteq crawled', released \subseteq released'
      PROVE  Settled \subseteq Settled'
  BY <1>1 DEF Settled, ReleasedKeys
<1>2. ASSUME NEW k, Release(k) PROVE Settled \subseteq Settled'
  <2>. DEFINE r == [key |-> k, run |-> runs]
  <2>1. crawled' = crawled \ {k} /\ released' = released \cup {r} /\ r.key = k
    BY <1>2 DEF Release
  <2>. HIDE DEF r
  <2>2. k \in ReleasedKeys' /\ ReleasedKeys \subseteq ReleasedKeys'
    BY <2>1 DEF ReleasedKeys
  <2>. QED  BY <2>1, <2>2 DEF Settled
<1>3. ASSUME GiveUp \/ \E e : RetryWith(e) PROVE Settled \subseteq Settled'
  BY <1>1, <1>2, <1>3 DEF GiveUp, RetryWith
<1>4. CASE Seeder
  BY <1>1, <1>4 DEF Seeder, Seeder_Start, Seeder_NextUser, NoReset
<1>5. CASE \E p \in Callers : RequestUrl(p) \/ RequestUrl_Fails(p)
  BY <1>1, <1>2, <1>5 DEF RequestUrl, RequestUrl_Fails, RequestUrl_Skip, RequestUrl_Mark,
       RequestUrl_Publish, RequestUrl_Rollback, RequestUrl_NoRedis
<1>6. CASE Engine
  BY <1>1, <1>3, <1>6 DEF Engine, Engine_Take, Engine_Answer, Engine_Http500, Engine_Http429,
       Engine_OtherStatus, Engine_Http401, Engine_Refresh, Engine_RefreshFails, Engine_Http200,
       Engine_FanOut
<1>7. CASE Tokens \/ Failures \/ UNCHANGED vars
  BY <1>1, <1>7 DEF vars, Tokens, Grant_Expire, Grant_Revoke, Grant_Login, Grant_Forget,
       Grant_Set, Failures, Engine_Exception, Worker_Exception, FollowLinks_Exception,
       Seeder_Crash, Engine_Crash, Worker_Crash, Broker_Restart
<1>8. CASE \/ \E s \in Stores : Worker_Store(s)
           \/ Worker_FollowLinks
           \/ \E q \in Queues : Consumer_Bind(q)
  BY <1>1, <1>8 DEF Worker_Store, Worker_FollowLinks, Consumer_Bind
<1>. QED  BY <1>4, <1>5, <1>6, <1>7, <1>8 DEF Next

(* The first request of a caller's list is settled, or still to be made.   *)
LEMMA TailKeys ==
  ASSUME TypeInv, NEW p \in Callers, todo[p] # <<>>
  PROVE  KeysOf(todo[p]) = {Key(Head(todo[p]))} \cup KeysOf(Tail(todo[p]))
<1>1. /\ todo[p] \in Seq(Request) /\ Len(todo[p]) \in Nat /\ DOMAIN todo[p] = 1..Len(todo[p])
      /\ Leaves(todo[p], Tail(todo[p]), 1) /\ 1 \in DOMAIN todo[p] /\ Head(todo[p]) = todo[p][1]
      /\ DOMAIN Tail(todo[p]) = 1..(Len(todo[p]) - 1)
  <2>1. todo[p] \in Seq(Request)
    BY DEF TypeInv, TypeOK
  <2>. QED  BY <2>1, TailLeaves, LenProperties, HeadTailProperties
<1>2. \A i \in DOMAIN todo[p] : i = 1 \/ (i - 1 \in DOMAIN Tail(todo[p]) /\ (i - 1) + 1 = i)
  BY <1>1
<1>3. \A i \in DOMAIN todo[p] : i = 1 \/ \E j \in DOMAIN Tail(todo[p]) : Tail(todo[p])[j] = todo[p][i]
  BY <1>1, <1>2 DEF Leaves
<1>. QED  BY <1>1, <1>3 DEF KeysOf, Leaves

(* What leaves the list of a caller is settled, or lost by an exception or *)
(* a crash; then the engine has no request in hand either.                 *)
AskedOrLost(p) ==
  \/ KeysOf(todo[p]) \subseteq Settled' \cup KeysOf(todo'[p])
  \/ /\ KeysOf(todo[p]) \subseteq Settled' \cup LostKeys'
     /\ p = "engine" => engine' = EngineIdle

LEMMA AskedAbandon ==
  ASSUME TypeInv, NEW p \in Callers, NEW q \in Callers, NEW rest, Abandon(q, rest),
         q = p => KeysOf(todo[p]) \subseteq Settled' \cup KeysOf(rest)
  PROVE  AskedOrLost(p)
<1>. DEFINE inHand == IF q = "engine" THEN {Key(engine.msg)} ELSE {}
<1>1. LostAt("make_api_call", KeysOf(rest) \cup inHand, "exception") \subseteq lost'
  BY DEF Abandon
<1>2. KeysOf(rest) \subseteq LostKeys'
  BY <1>1, LostKeysGrow
<1>3. q # p => todo'[p] = todo[p]
  BY DEF Abandon, TypeInv, TypeOK
<1>4. q = "engine" => engine' = EngineIdle
  BY DEF Abandon
<1>. QED  BY <1>2, <1>3, <1>4 DEF AskedOrLost

LEMMA AskedRequestUrl ==
  ASSUME TypeInv, DedupInv, NEW p \in Callers, NEW q \in Callers, RequestUrl(q) \/ RequestUrl_Fails(q)
  PROVE  AskedOrLost(p)
<1>. DEFINE m == Head(todo[p])
<1>1. CASE RequestUrl_Skip(q)
  <2>1. CASE q # p
    BY <1>1, <2>1 DEF RequestUrl_Skip, AskedOrLost, TypeInv, TypeOK
  <2>2. CASE q = p
    <3>1. /\ todo[p] # <<>> /\ ~ShouldRequest(m) /\ todo'[p] = Tail(todo[p])
          /\ UNCHANGED <<crawled, released>>
      BY <1>1, <2>2 DEF RequestUrl_Skip, InCall, TypeInv, TypeOK
    <3>2. m \in Request
      BY <3>1, HeadTailProperties DEF TypeInv, TypeOK
    <3>3. Key(m) \in crawled
      BY <3>1, <3>2 DEF ShouldRequest, UrlIsNew, Request
    <3>. QED  BY <3>1, <3>3, TailKeys DEF AskedOrLost, Settled
  <2>. QED  BY <2>1, <2>2
<1>2. CASE RequestUrl_Mark(q)
  BY <1>2 DEF RequestUrl_Mark, AskedOrLost
<1>3. CASE RequestUrl_Publish(q)
  <2>1. CASE q # p
    BY <1>3, <2>1 DEF RequestUrl_Publish, AskedOrLost, TypeInv, TypeOK
  <2>2. CASE q = p
    <3>1. /\ marked[p] /\ todo[p] # <<>> /\ todo'[p] = Tail(todo[p]) /\ crawled' = crawled
      BY <1>3, <2>2 DEF RequestUrl_Publish, TypeInv, TypeOK, CallShape
    <3>2. Key(m) \in crawled
      BY <3>1 DEF DedupInv, InFlightIsFresh, InFlight
    <3>. QED  BY <3>1, <3>2, TailKeys DEF AskedOrLost, Settled
  <2>. QED  BY <2>1, <2>2
<1>4. CASE RequestUrl_Rollback(q)
  <2>1. Abandon(q, Tail(todo[q])) /\ marked[q] /\ Release(Key(Head(todo[q])))
    BY <1>4 DEF RequestUrl_Rollback
  <2>2. q = p => Key(m) \in Settled'
    <3>. DEFINE r == [key |-> Key(Head(todo[q])), run |-> runs]
    <3>1. r \in released' /\ r.key = Key(Head(todo[q]))
      BY <2>1 DEF Release
    <3>. HIDE DEF r
    <3>. QED  BY <3>1 DEF Settled, ReleasedKeys
  <2>3. q = p => KeysOf(todo[p]) \subseteq Settled' \cup KeysOf(Tail(todo[q]))
    BY <2>1, <2>2, TailKeys DEF TypeInv, CallShape
  <2>. QED  BY <2>1, <2>3, AskedAbandon
<1>5. CASE RequestUrl_NoRedis(q)
  <2>1. Abandon(q, todo[q])
    BY <1>5 DEF RequestUrl_NoRedis
  <2>. QED  BY <2>1, AskedAbandon
<1>. QED  BY <1>1, <1>2, <1>3, <1>4, <1>5 DEF RequestUrl, RequestUrl_Fails

LEMMA NothingToAsk ==
  ASSUME NEW p, todo[p] = <<>>
  PROVE  AskedOrLost(p)
BY DEF AskedOrLost, KeysOf

(* The next user of the seeder, the next page of the engine and the next   *)
(* response of the worker wait for the end of the list before.             *)
LEMMA AskedFilled ==
  ASSUME TypeInv, NEW p \in Callers,
         (\E u \in Identities : Seeder_NextUser(u)) \/ Engine_Http200 \/ Worker_FollowLinks
  PROVE  AskedOrLost(p)
<1>1. \/ todo[p] = <<>>
      \/ todo'[p] = todo[p]
  BY DEF Seeder_NextUser, Engine_Http200, Worker_FollowLinks, TypeInv, TypeOK, CallShape
<1>. QED  BY <1>1, NothingToAsk DEF AskedOrLost

LEMMA AskedCrash ==
  ASSUME TypeInv, NEW p \in Callers,
         \/ Seeder_Crash
         \/ \E n \in 0..Len(requests) : Engine_Crash(n)
         \/ \E s \in Sinks : \E n \in 0..Len(responses[s]) : Worker_Crash(s, n)
  PROVE  AskedOrLost(p)
<1>1. CASE Seeder_Crash
  <2>1. LostAt("make_api_call", KeysOf(todo["seeder"]), "crash") \subseteq lost'
    BY <1>1 DEF Seeder_Crash
  <2>2. p # "seeder" => todo'[p] = todo[p]
    BY <1>1 DEF Seeder_Crash, TypeInv, TypeOK
  <2>. QED  BY <2>1, <2>2, LostKeysGrow DEF AskedOrLost
<1>2. ASSUME NEW n \in 0..Len(requests), Engine_Crash(n) PROVE AskedOrLost(p)
  <2>. DEFINE inHand == KeysOf(todo["engine"])
                          \cup (IF engine.pc = "idle" THEN {} ELSE {Key(engine.msg)})
  <2>1. LostAt("make_api_call", inHand, "crash") \subseteq lost' /\ engine' = EngineIdle
    BY <1>2 DEF Engine_Crash
  <2>2. inHand \subseteq LostKeys'
    BY <2>1, LostKeysGrow
  <2>3. p # "engine" => todo'[p] = todo[p]
    BY <1>2 DEF Engine_Crash, TypeInv, TypeOK
  <2>. QED  BY <2>1, <2>2, <2>3 DEF AskedOrLost
<1>3. ASSUME NEW s \in Sinks, NEW n, Worker_Crash(s, n) PROVE AskedOrLost(p)
  <2>1. CASE s = "follow_links" /\ p = "follow_links"
    <3>1. LostAt("make_api_call", KeysOf(todo["follow_links"]), "crash") \subseteq lost'
      BY <1>3, <2>1 DEF Worker_Crash
    <3>. QED  BY <2>1, <3>1, LostKeysGrow DEF AskedOrLost
  <2>2. CASE ~(s = "follow_links" /\ p = "follow_links")
    <3>1. todo'[p] = todo[p]
      BY <1>3, <2>2 DEF Worker_Crash, TypeInv, TypeOK
    <3>. QED  BY <3>1 DEF AskedOrLost
  <2>. QED  BY <2>1, <2>2
<1>. QED  BY <1>1, <1>2, <1>3

LEMMA AskedNext ==
  ASSUME TypeInv, DedupInv, [Next]_vars, NEW p \in Callers
  PROVE  AskedOrLost(p)
<1>1. ASSUME todo' = todo PROVE AskedOrLost(p)
  BY <1>1 DEF AskedOrLost
<1>2. CASE \E q \in Callers : RequestUrl(q) \/ RequestUrl_Fails(q)
  BY <1>2, AskedRequestUrl
<1>3. CASE Seeder
  BY <1>1, <1>3, AskedFilled DEF Seeder, Seeder_Start
<1>4. CASE Engine
  <2>1. Engine_Http200 \/ todo' = todo
    BY <1>4 DEF Engine, Engine_Take, Engine_Answer, Engine_Http500, Engine_Http429,
         Engine_OtherStatus, Engine_Http401, Engine_Refresh, Engine_RefreshFails, GiveUp,
         RetryWith, Engine_FanOut
  <2>. QED  BY <1>1, <2>1, AskedFilled
<1>5. CASE \/ \E s \in Stores : Worker_Store(s) \/ Worker_Exception(s)
           \/ \E q \in Queues : Consumer_Bind(q)
           \/ Broker_Restart \/ Tokens \/ UNCHANGED vars
  BY <1>1, <1>5 DEF Worker_Store, Worker_Exception, Consumer_Bind, Broker_Restart, Tokens,
       Grant_Expire, Grant_Revoke, Grant_Login, Grant_Forget, Grant_Set, vars
<1>6. CASE Worker_FollowLinks
  BY <1>6, AskedFilled
<1>7. CASE Engine_Exception \/ FollowLinks_Exception
  <2>1. Abandon("engine", todo["engine"]) \/ Abandon("follow_links", todo["follow_links"])
    BY <1>7 DEF Engine_Exception, FollowLinks_Exception
  <2>. QED  BY <2>1, AskedAbandon DEF Callers
<1>8. CASE \/ Seeder_Crash
           \/ \E n \in 0..Len(requests) : Engine_Crash(n)
           \/ \E s \in Sinks : \E n \in 0..Len(responses[s]) : Worker_Crash(s, n)
  BY <1>8, AskedCrash
<1>. QED  BY <1>2, <1>3, <1>4, <1>5, <1>6, <1>7, <1>8 DEF Next, Failures

(* While the engine answers a response, the next page is settled or it is  *)
(* about to be requested: the fan-out waits until it is settled.           *)
AsksFirst ==
  engine.pc = "respond" =>
    KeysOf(NextRequests(engine.msg, engine.user)) \subseteq Settled \cup KeysOf(todo["engine"])

PageInv == PaginationContinues /\ AsksFirst

(* What a step does to the engine and to what was fetched.                 *)
LEMMA EngineSteps ==
  ASSUME TypeInv, [Next]_vars
  PROVE  \/ engine' = engine /\ done' = done
         \/ engine'.pc # "respond" /\ done' = done
         \/ Engine_Http200
         \/ Engine_FanOut
<1>1. EngineIdle.pc # "respond"
  BY IdleType
<1>2. ASSUME NEW e, RetryWith(e), e.pc = "get", UNCHANGED done
      PROVE  engine'.pc # "respond" /\ done' = done
  BY <1>2 DEF RetryWith
<1>3. ASSUME GiveUp PROVE engine'.pc # "respond" /\ done' = done
  BY <1>1, <1>3 DEF GiveUp
<1>4. CASE Engine_Http500 \/ Engine_Http429
  <2>. DEFINE e5 == [engine EXCEPT !.n500 = @ + 1]
              e4 == [engine EXCEPT !.n429 = @ + 1]
  <2>1. e5.pc = "get" /\ e4.pc = "get"
    BY <1>4 DEF Engine_Http500, Engine_Http429, TypeInv, TypeOK
  <2>2. GiveUp \/ RetryWith(e5) \/ RetryWith(e4)
    BY <1>4 DEF Engine_Http500, Engine_Http429
  <2>. QED  BY <1>2, <1>3, <2>1, <2>2 DEF RetryWith
<1>5. CASE Engine_OtherStatus \/ Engine_RefreshFails
  BY <1>3, <1>5 DEF Engine_OtherStatus, Engine_RefreshFails
<1>6. CASE Engine_Http401 \/ Engine_Refresh
  BY <1>6, RefreshRetries DEF Engine_Http401, Engine_Refresh, RetryWith, Asking
<1>7. CASE Engine_Take
  BY <1>7 DEF Engine_Take, EngineIdle
<1>8. ASSUME NEW q \in Callers, NEW rest, Abandon(q, rest), done' = done
      PROVE  (engine' = engine \/ engine'.pc # "respond") /\ done' = done
  BY <1>1, <1>8 DEF Abandon
<1>9. CASE \E p \in Callers : RequestUrl(p) \/ RequestUrl_Fails(p)
  BY <1>8, <1>9 DEF RequestUrl, RequestUrl_Fails, RequestUrl_Skip, RequestUrl_Mark,
       RequestUrl_Publish, RequestUrl_Rollback, RequestUrl_NoRedis
<1>10. CASE Engine_Exception \/ FollowLinks_Exception
  BY <1>8, <1>10 DEF Engine_Exception, FollowLinks_Exception, Callers
<1>11. CASE \E n \in 0..Len(requests) : Engine_Crash(n)
  BY <1>1, <1>11 DEF Engine_Crash
<1>12. CASE \/ Seeder \/ Tokens \/ Worker_FollowLinks \/ Seeder_Crash \/ Broker_Restart
            \/ \E s \in Stores : Worker_Store(s) \/ Worker_Exception(s)
            \/ \E q \in Queues : Consumer_Bind(q)
            \/ \E s \in Sinks : \E n \in 0..Len(responses[s]) : Worker_Crash(s, n)
            \/ UNCHANGED vars
  BY <1>12 DEF Seeder, Seeder_Start, Seeder_NextUser, Tokens, Grant_Expire, Grant_Revoke,
       Grant_Login, Grant_Forget, Grant_Set, Worker_FollowLinks, Seeder_Crash, Broker_Restart,
       Worker_Store, Worker_Exception, Consumer_Bind, Worker_Crash, vars
<1>. QED
  BY <1>4, <1>5, <1>6, <1>7, <1>9, <1>10, <1>11, <1>12
     DEF Next, Failures, Engine, Engine_Answer

LEMMA PageNext == TypeInv /\ DedupInv /\ PageInv /\ NoReset /\ [Next]_vars => PageInv'
<1>. SUFFICES ASSUME TypeInv, DedupInv, PageInv, NoReset, [Next]_vars PROVE PageInv'
  OBVIOUS
<1>. DEFINE next == KeysOf(NextRequests(engine.msg, engine.user))
<1>1. Settled \subseteq Settled'
  BY MarksStay
<1>2. AskedOrLost("engine")
  BY AskedNext DEF Callers
<1>3. done' = done => PaginationContinues'
  BY <1>1 DEF PageInv, PaginationContinues, Settled
<1>4. CASE engine' = engine /\ done' = done
  BY <1>1, <1>2, <1>3, <1>4, IdleType DEF PageInv, AsksFirst, AskedOrLost
<1>5. CASE engine'.pc # "respond" /\ done' = done
  BY <1>3, <1>5 DEF PageInv, AsksFirst
<1>6. CASE Engine_Http200
  <2>1. /\ todo'["engine"] = NextRequests(engine.msg, engine.user)
        /\ engine'.msg = engine.msg /\ engine'.user = engine.user /\ done' = done
    BY <1>6 DEF Engine_Http200, Callers, TypeInv, TypeOK
  <2>. QED  BY <1>3, <2>1 DEF PageInv, AsksFirst
<1>7. CASE Engine_FanOut
  <2>. DEFINE now == [req |-> engine.msg, user |-> engine.user]
  <2>1. /\ engine.pc = "respond" /\ todo["engine"] = <<>> /\ KeysOf(todo["engine"]) = {}
        /\ \/ engine' = [engine EXCEPT !.fan = @ + 1] /\ done' = done
           \/ engine' = EngineIdle /\ done' = done \cup {now}
    BY <1>7 DEF Engine_FanOut, KeysOf
  <2>2. next \subseteq Settled'
    BY <1>1, <2>1 DEF PageInv, AsksFirst
  <2>3. now.req = engine.msg /\ now.user = engine.user
    OBVIOUS
  <2>. HIDE DEF now
  <2>4. PaginationContinues'
    BY <1>1, <2>1, <2>2, <2>3 DEF PageInv, PaginationContinues, Settled
  <2>5. AsksFirst'
    BY <2>1, <2>2, IdleType DEF AsksFirst, TypeInv, TypeOK
  <2>. QED  BY <2>4, <2>5 DEF PageInv
<1>. QED  BY <1>4, <1>5, <1>6, <1>7, EngineSteps

(* No page of a listing is left behind unnoticed: the page after one that  *)
(* was fanned out is marked or was rolled back, and before the fan-out, so *)
(* a crash or an exception in between loses this page and not the next.    *)
THEOREM NextPageAsked ==
  ASSUME NoReset
  PROVE  Spec => []PaginationContinues
<1>1. Init => PageInv
  BY IdleType DEF Init, PageInv, PaginationContinues, AsksFirst
<1>2. TypeInv /\ DedupInv /\ [Next]_vars => DedupInv'
  BY DedupNext
<1>3. TypeInv /\ DedupInv /\ PageInv /\ [Next]_vars => PageInv'
  BY PageNext
<1>4. PageInv => PaginationContinues
  BY DEF PageInv
<1>. QED  BY <1>1, <1>2, <1>3, <1>4, TypeInit, TypeNext, DedupInit, PTL DEF Spec

(* What was lost stays recorded, and the follow_links worker has handled   *)
(* what it had and the response whose links it now has to request.         *)
LEMMA LostAndFollowed ==
  ASSUME TypeInv, [Next]_vars
  PROVE  /\ lost \subseteq lost'
         /\ \/ stored'["follow_links"] = stored["follow_links"]
            \/ \E m : /\ stored'["follow_links"] = stored["follow_links"] \cup {m}
                      /\ todo'["follow_links"] = Children(m)
<1>. DEFINE Grown == /\ lost \subseteq lost'
                     /\ \/ stored'["follow_links"] = stored["follow_links"]
                        \/ \E m : /\ stored'["follow_links"] = stored["follow_links"] \cup {m}
                                  /\ todo'["follow_links"] = Children(m)
<1>1. ASSUME lost \subseteq lost', stored' = stored PROVE Grown
  BY <1>1
<1>2. CASE \E p \in Callers : RequestUrl(p) \/ RequestUrl_Fails(p)
  BY <1>1, <1>2 DEF RequestUrl, RequestUrl_Fails, RequestUrl_Skip, RequestUrl_Mark,
       RequestUrl_Publish, RequestUrl_Rollback, RequestUrl_NoRedis, Abandon
<1>3. CASE Seeder \/ Tokens
  BY <1>1, <1>3 DEF Seeder, Seeder_Start, Seeder_NextUser, Tokens, Grant_Expire, Grant_Revoke,
       Grant_Login, Grant_Forget, Grant_Set
<1>4. CASE Engine
  BY <1>1, <1>4 DEF Engine, Engine_Take, Engine_Answer, Engine_Http500, Engine_Http429,
       Engine_OtherStatus, Engine_Http401, Engine_Refresh, Engine_RefreshFails, GiveUp, RetryWith,
       Engine_Http200, Engine_FanOut
<1>5. CASE Failures
  BY <1>1, <1>5 DEF Failures, Engine_Exception, Worker_Exception, FollowLinks_Exception,
       Seeder_Crash, Engine_Crash, Worker_Crash, Broker_Restart, Abandon
<1>6. ASSUME NEW s \in Stores, Worker_Store(s) PROVE Grown
  BY <1>6 DEF Worker_Store, Stores, TypeInv, TypeOK
<1>7. CASE Worker_FollowLinks
  <2>. DEFINE m == Head(responses["follow_links"])
  <2>1. /\ stored'["follow_links"] = stored["follow_links"] \cup {m}
        /\ todo'["follow_links"] = Children(m) /\ lost' = lost
    BY <1>7 DEF Worker_FollowLinks, Sinks, Callers, TypeInv, TypeOK
  <2>. HIDE DEF m
  <2>. QED  BY <2>1
<1>8. CASE (\E q \in Queues : Consumer_Bind(q)) \/ UNCHANGED vars
  BY <1>1, <1>8 DEF Consumer_Bind, vars
<1>. QED  BY <1>2, <1>3, <1>4, <1>5, <1>6, <1>7, <1>8 DEF Next

LEMMA LinksNext ==
  TypeInv /\ DedupInv /\ LinksFollowed /\ NoReset /\ [Next]_vars => LinksFollowed'
<1>. SUFFICES ASSUME TypeInv, DedupInv, LinksFollowed, NoReset, [Next]_vars
              PROVE  LinksFollowed'
  OBVIOUS
<1>. DEFINE followed == stored["follow_links"]
<1>1. Settled \subseteq Settled' /\ LostKeys \subseteq LostKeys'
  <2>1. lost \subseteq lost'
    BY LostAndFollowed
  <2>. QED  BY <2>1, MarksStay DEF LostKeys
<1>2. KeysOf(todo["follow_links"]) \subseteq Settled' \cup LostKeys' \cup KeysOf(todo'["follow_links"])
  BY AskedNext DEF AskedOrLost, Callers
<1>3. ASSUME NEW m \in followed
      PROVE  KeysOf(Children(m)) \subseteq Settled' \cup LostKeys' \cup KeysOf(todo'["follow_links"])
  BY <1>1, <1>2 DEF LinksFollowed, Settled
<1>4. \/ stored'["follow_links"] = followed
      \/ \E m : /\ stored'["follow_links"] = followed \cup {m}
                /\ todo'["follow_links"] = Children(m)
  BY LostAndFollowed
<1>. QED  BY <1>3, <1>4 DEF LinksFollowed, Settled

(* No link of a response that the worker took is forgotten: it is marked,  *)
(* was rolled back, is recorded as lost, or is still to be requested.      *)
THEOREM LinksAsked ==
  ASSUME NoReset
  PROVE  Spec => []LinksFollowed
<1>1. Init => LinksFollowed
  BY DEF Init, LinksFollowed, Sinks
<1>2. TypeInv /\ DedupInv /\ [Next]_vars => DedupInv'
  BY DedupNext
<1>3. TypeInv /\ DedupInv /\ LinksFollowed /\ [Next]_vars => LinksFollowed'
  BY LinksNext
<1>. QED  BY <1>1, <1>2, <1>3, TypeInit, TypeNext, DedupInit, PTL DEF Spec

-----------------------------------------------------------------------------
(* The run after a roll-back.  It reaches what was rolled back when it can *)
(* repeat the crawl: both resets are on, there is one user, whose token    *)
(* files nobody removes, and no page of the shared catalog leads to a page *)
(* of a user, whose marks are reset later than the catalog's.  Crashes are *)
(* excluded because a seeder killed before its first user loses nothing.   *)

OneUser == Users \subseteq {Primary}

CatalogIsShared ==
  \A u \in Urls \ MeUrls :
    /\ NextPage[u] \notin MeUrls
    /\ \A i \in DOMAIN Continuations[u] : Continuations[u][i] \notin MeUrls
    /\ \A i \in DOMAIN Links[u] : Links[u][i] \notin MeUrls

Repeatable ==
  /\ ResetCrawl /\ ResetCatalog
  /\ OneUser
  /\ CatalogIsShared
  /\ {"crash", "forget"} \cap Faults = {}

(* The requests of the one user, and what a fetched one leads to.          *)
Ours == [url : Urls, depth : Nat, user : {Primary}]

NextKeys(m) == KeysOf(NextRequests(m, Primary))

LinkKeys(m) == IF "follow_links" \in Enabled THEN KeysOf(Children(m)) ELSE {}

Elements(s) == {s[i] : i \in DOMAIN s}

(* Everybody works for the one user, and a queue nobody publishes to stays *)
(* empty.                                                                  *)
OursOnly ==
  /\ Elements(requests) \subseteq Ours
  /\ \A p \in Callers : Elements(todo[p]) \subseteq Ours
  /\ Elements(responses["follow_links"]) \subseteq Ours
  /\ Busy => engine.msg \in Ours /\ engine.user = Primary
  /\ \A k \in crawled : k.set \in {Legacy, Primary}
  /\ seedUsers \subseteq {Primary}
  /\ \A u \in Users : grant[u] # "absent"
  /\ "follow_links" \in Enabled \/ responses["follow_links"] = <<>>

(* What p has not marked yet.                                              *)
Rest(p) == IF marked[p] THEN Tail(todo[p]) ELSE todo[p]

(* Nothing went wrong in this run of the seeder.                           *)
Clean == lost = {} /\ \A r \in released : r.run < runs

(* The mark outlives the resets that are left to this run.                 *)
Live(k) == k \in crawled /\ (k.set = Legacy \/ Primary \notin seedUsers)

(* m is under way, and while it is answered its next page is asked for.    *)
Pending(m) ==
  \/ m \in Elements(requests)
  \/ \E p \in Callers : marked[p] /\ Head(todo[p]) = m
  \/ engine.pc \in Asking /\ engine.msg = m
  \/ /\ engine.pc = "respond" /\ engine.msg = m
     /\ NextKeys(m) \subseteq crawled \cup KeysOf(Rest("engine"))

(* m is fetched: its next page is marked, and so are its links unless the  *)
(* follow_links worker has yet to take the response or to ask for them.    *)
Followed(m) ==
  /\ NextKeys(m) \subseteq crawled
  /\ \/ m \in Elements(responses["follow_links"])
     \/ LinkKeys(m) \subseteq crawled \cup KeysOf(Rest("follow_links"))

(* In a run where nothing went wrong no mark is a dead end.                *)
GoesOn == Clean => \A m \in Ours : Live(Key(m)) => Pending(m) \/ Followed(m)

SeedsAsked ==
  Clean /\ runs # 0 /\ Primary \notin seedUsers =>
    KeysOf(SeedRequests(Primary)) \subseteq crawled \cup KeysOf(Rest("seeder"))

(* Whatever was ever asked for is reached from the seeds.                  *)
Within(S) ==
  /\ crawled \cup ReleasedKeys \cup KeysOf(requests) \subseteq S
  /\ \A p \in Callers : KeysOf(todo[p]) \subseteq S
  /\ KeysOf(responses["follow_links"]) \subseteq S
  /\ Busy => Key(engine.msg) \in S

Closed(S) == \A m \in Ours : Key(m) \in S => NextKeys(m) \cup LinkKeys(m) \subseteq S

Reachable ==
  \A S \in SUBSET Keys : KeysOf(SeedRequests(Primary)) \subseteq S /\ Closed(S) => Within(S)

RetryInv == OursOnly /\ Reachable /\ GoesOn /\ SeedsAsked

-----------------------------------------------------------------------------
(* The elements of queues and lists.                                       *)

LEMMA KeysOfElements ==
  ASSUME NEW s
  PROVE  KeysOf(s) = {Key(m) : m \in Elements(s)}
BY DEF KeysOf, Elements

LEMMA NoElements == Elements(<<>>) = {} /\ KeysOf(<<>>) = {}
BY DEF KeysOf, Elements

LEMMA TailElements ==
  ASSUME NEW S, NEW q \in Seq(S), q # <<>>
  PROVE  Elements(q) = {Head(q)} \cup Elements(Tail(q))
<1>1. /\ Len(q) \in Nat \ {0} /\ DOMAIN q = 1..Len(q)
      /\ Len(Tail(q)) = Len(q) - 1 /\ DOMAIN Tail(q) = 1..Len(Tail(q)) /\ Head(q) = q[1]
      /\ \A i \in 1..Len(Tail(q)) : Tail(q)[i] = q[i + 1]
  BY LenProperties, EmptySeq, HeadTailProperties
<1>2. \A i \in DOMAIN q : i = 1 \/ (i - 1 \in DOMAIN Tail(q) /\ Tail(q)[i - 1] = q[i])
  BY <1>1
<1>3. \A i \in DOMAIN Tail(q) : i + 1 \in DOMAIN q /\ Tail(q)[i] = q[i + 1]
  BY <1>1
<1>4. 1 \in DOMAIN q
  BY <1>1
<1>5. ASSUME NEW m \in Elements(q) PROVE m = Head(q) \/ m \in Elements(Tail(q))
  BY <1>1, <1>2, <1>5 DEF Elements
<1>6. ASSUME NEW m \in Elements(Tail(q)) PROVE m \in Elements(q)
  BY <1>3, <1>6 DEF Elements
<1>7. Head(q) \in Elements(q)
  BY <1>1, <1>4 DEF Elements
<1>. QED  BY <1>5, <1>6, <1>7

LEMMA AppendElements ==
  ASSUME NEW S, NEW q \in Seq(S), NEW m \in S
  PROVE  Elements(Append(q, m)) = Elements(q) \cup {m}
<1>1. /\ Len(q) \in Nat /\ DOMAIN q = 1..Len(q) /\ DOMAIN Append(q, m) = 1..(Len(q) + 1)
      /\ \A i \in 1..Len(q) : Append(q, m)[i] = q[i]
      /\ Append(q, m)[Len(q) + 1] = m
  BY LenProperties, AppendProperties
<1>2. \A i \in DOMAIN Append(q, m) : i \in DOMAIN q \/ i = Len(q) + 1
  BY <1>1
<1>3. Len(q) + 1 \in DOMAIN Append(q, m) /\ DOMAIN q \subseteq DOMAIN Append(q, m)
  BY <1>1
<1>. QED  BY <1>1, <1>2, <1>3 DEF Elements

LEMMA ConcatElements ==
  ASSUME NEW S, NEW q \in Seq(S), NEW r \in Seq(S)
  PROVE  Elements(q \o r) = Elements(q) \cup Elements(r)
<1>1. /\ Len(q) \in Nat /\ Len(r) \in Nat /\ DOMAIN q = 1..Len(q) /\ DOMAIN r = 1..Len(r)
      /\ DOMAIN (q \o r) = 1..(Len(q) + Len(r))
      /\ \A i \in 1..Len(q) : (q \o r)[i] = q[i]
      /\ \A i \in 1..Len(r) : (q \o r)[Len(q) + i] = r[i]
  <2>1. q \o r \in Seq(S) /\ Len(q \o r) = Len(q) + Len(r)
    BY ConcatProperties
  <2>2. /\ Len(q) \in Nat /\ Len(r) \in Nat /\ DOMAIN q = 1..Len(q) /\ DOMAIN r = 1..Len(r)
        /\ DOMAIN (q \o r) = 1..(Len(q) + Len(r))
    BY <2>1, LenProperties
  <2>3. \A i \in 1..(Len(q) + Len(r)) : (q \o r)[i] = IF i <= Len(q) THEN q[i] ELSE r[i - Len(q)]
    BY ConcatProperties
  <2>4. \A i \in 1..Len(r) : /\ Len(q) + i \in 1..(Len(q) + Len(r)) /\ ~(Len(q) + i <= Len(q))
                             /\ (Len(q) + i) - Len(q) = i
    BY <2>2
  <2>. QED  BY <2>2, <2>3, <2>4
<1>2. ASSUME NEW m \in Elements(q \o r) PROVE m \in Elements(q) \cup Elements(r)
  <2>1. PICK i \in DOMAIN (q \o r) : m = (q \o r)[i]
    BY DEF Elements
  <2>2. i \in DOMAIN q \/ (i - Len(q) \in DOMAIN r /\ Len(q) + (i - Len(q)) = i)
    BY <1>1
  <2>. QED  BY <1>1, <2>1, <2>2 DEF Elements
<1>3. ASSUME NEW m \in Elements(q) PROVE m \in Elements(q \o r)
  <2>1. PICK i \in DOMAIN q : m = q[i]
    BY <1>3 DEF Elements
  <2>2. i \in DOMAIN (q \o r)
    BY <1>1
  <2>. QED  BY <1>1, <2>1, <2>2 DEF Elements
<1>4. ASSUME NEW m \in Elements(r) PROVE m \in Elements(q \o r)
  <2>1. PICK i \in DOMAIN r : m = r[i]
    BY <1>4 DEF Elements
  <2>2. Len(q) + i \in DOMAIN (q \o r)
    BY <1>1
  <2>. QED  BY <1>1, <2>1, <2>2 DEF Elements
<1>. QED  BY <1>2, <1>3, <1>4

(* One user has one request for a key.                                     *)
LEMMA OursByKey ==
  ASSUME NEW m \in Ours, NEW n \in Ours, Key(m) = Key(n)
  PROVE  m = n
<1>1. m.url = n.url /\ m.depth = n.depth
  BY DEF Key
<1>. QED  BY <1>1 DEF Ours

(* What the seeder, the engine and the worker ask for in the name of the   *)
(* one user.                                                               *)
LEMMA OursAsked ==
  /\ Primary \in Identities /\ Ours \subseteq Request
  /\ Elements(SeedRequests(Primary)) \subseteq Ours
  /\ \A m \in Ours : /\ Elements(NextRequests(m, Primary)) \subseteq Ours
                     /\ Elements(Children(m)) \subseteq Ours
<1>0. Primary \in Identities
  BY IdentityAssumption
<1>1. Ours \subseteq Request
  BY <1>0 DEF Ours, Request
<1>3. \A s \in Seq(Request) : (\A i \in DOMAIN s : s[i].user = Primary) => Elements(s) \subseteq Ours
  <2>1. \A s \in Seq(Request) : \A i \in DOMAIN s : s[i] \in Request
    BY ElementOfSeq, LenProperties
  <2>2. \A r \in Request : r.user = Primary => r \in Ours
    BY DEF Request, Ours
  <2>. QED  BY <2>1, <2>2 DEF Elements
<1>4. Elements(SeedRequests(Primary)) \subseteq Ours
  <2>1. SeedRequests(Primary) \in Seq(Request)
    BY <1>0, SeedRequestsType
  <2>2. \A i \in DOMAIN SeedRequests(Primary) : SeedRequests(Primary)[i].user = Primary
    BY DEF SeedRequests
  <2>. QED  BY <1>3, <2>1, <2>2
<1>5. ASSUME NEW m \in Ours
      PROVE  Elements(NextRequests(m, Primary)) \subseteq Ours /\ Elements(Children(m)) \subseteq Ours
  <2>1. m \in Request /\ m.url \in Urls /\ m.depth \in Nat /\ m.user = Primary
    BY <1>1, <1>5 DEF Ours
  <2>2. NextRequests(m, Primary) \in Seq(Request) /\ Children(m) \in Seq(Request)
    BY <1>0, <2>1, NextRequestsType, ChildrenType DEF Response, Request
  <2>3. \A i \in DOMAIN NextRequests(m, Primary) : NextRequests(m, Primary)[i].user = Primary
    BY DEF NextRequests, Requests
  <2>4. \A i \in DOMAIN Children(m) : Children(m)[i].user = Primary
    <3>1. /\ \A i \in DOMAIN Pages(m) : Pages(m)[i].user = Primary
          /\ \A i \in DOMAIN Neighbours(m) : Neighbours(m)[i].user = Primary
      BY <2>1 DEF Pages, Neighbours, Requests
    <3>2. Pages(m) \in Seq(Request) /\ Neighbours(m) \in Seq(Request)
      BY <2>1, ChildrenType DEF Response, Request
    <3>. QED  BY <3>1, <3>2, ConcatProperties, LenProperties DEF Children
  <2>. QED  BY <1>3, <2>2, <2>3, <2>4
<1>. QED  BY <1>0, <1>1, <1>4, <1>5

-----------------------------------------------------------------------------
(* The kinds of steps.  A step that goes wrong brings nothing new, and it  *)
(* shows: the run is not clean after it.                                   *)

Shrinks ==
  /\ Elements(requests') \subseteq Elements(requests)
  /\ \A p \in Callers : Elements(todo'[p]) \subseteq Elements(todo[p])
  /\ Elements(responses'["follow_links"]) \subseteq Elements(responses["follow_links"])
  /\ responses["follow_links"] = <<>> => responses'["follow_links"] = <<>>
  /\ Busy' => Busy /\ engine'.msg = engine.msg /\ engine'.user = engine.user
  /\ crawled' \subseteq crawled
  /\ ReleasedKeys' \subseteq ReleasedKeys \cup InFlight
  /\ seedUsers' \subseteq seedUsers
  /\ KeepsTokenFiles

GoesWrong == Shrinks /\ ~Clean'

(* A step about stores, retries, tokens and bindings.                      *)
Quiet ==
  /\ UNCHANGED <<crawled, requests, todo, marked, seedUsers, runs, released, lost>>
  /\ responses'["follow_links"] = responses["follow_links"]
  /\ engine'.pc = engine.pc \/ (engine.pc \in Asking /\ engine'.pc \in Asking)
  /\ engine'.msg = engine.msg /\ engine'.user = engine.user
  /\ KeepsTokenFiles

LEMMA QuietShrinks == Quiet => Shrinks
BY DEF Quiet, Shrinks, Busy, ReleasedKeys, Asking

(* A roll-back and a loss are recorded.                                    *)
LEMMA ReleaseShows ==
  ASSUME NEW k, Release(k), runs' = runs, runs \in Nat
  PROVE  ~Clean' /\ ReleasedKeys' = ReleasedKeys \cup {k} /\ crawled' \subseteq crawled
<1>. DEFINE r == [key |-> k, run |-> runs]
<1>1. released' = released \cup {r} /\ r.key = k /\ r.run = runs
  BY DEF Release
<1>. HIDE DEF r
<1>2. ~(r.run < runs') /\ r \in released'
  BY <1>1
<1>3. ~Clean'
  BY <1>2 DEF Clean
<1>4. ReleasedKeys' = ReleasedKeys \cup {k}
  BY <1>1 DEF ReleasedKeys
<1>. QED  BY <1>3, <1>4 DEF Release

LEMMA LossShows ==
  ASSUME NEW place, NEW keys, NEW why, NEW k \in keys, LostAt(place, keys, why) \subseteq lost'
  PROVE  ~Clean'
<1>. DEFINE l == [at |-> place, key |-> k, why |-> why]
<1>1. l \in LostAt(place, keys, why)
  BY DEF LostAt
<1>. QED  BY <1>1 DEF Clean

LEMMA AbandonShrinks ==
  ASSUME TypeInv, NEW p \in Callers, NEW rest, Abandon(p, rest)
  PROVE  /\ \A q \in Callers : Elements(todo'[q]) \subseteq Elements(todo[q])
         /\ Busy' => Busy /\ engine'.msg = engine.msg /\ engine'.user = engine.user
         /\ seedUsers' \subseteq seedUsers
         /\ LostAt("make_api_call", KeysOf(rest), "exception") \subseteq lost'
         /\ p = "engine" => LostAt("make_api_call", {Key(engine.msg)}, "exception") \subseteq lost'
<1>1. \A q \in Callers : todo'[q] = IF q = p THEN <<>> ELSE todo[q]
  BY DEF Abandon, TypeInv, TypeOK
<1>2. \A q \in Callers : Elements(todo'[q]) \subseteq Elements(todo[q])
  BY <1>1, NoElements
<1>3. Busy' => Busy /\ engine'.msg = engine.msg /\ engine'.user = engine.user
  BY IdleType DEF Abandon, Busy
<1>. QED  BY <1>2, <1>3 DEF Abandon, LostAt

LEMMA FailureShows ==
  ASSUME TypeInv, Repeatable,
         \/ \E p \in Callers : RequestUrl_Fails(p)
         \/ Busy /\ GiveUp /\ UNCHANGED grant
         \/ Engine_Exception
         \/ \E s \in Stores : Worker_Exception(s)
         \/ FollowLinks_Exception
  PROVE  GoesWrong
<1>0. runs \in Nat
  BY DEF TypeInv, TypeOK
<1>1. ASSUME NEW p \in Callers, RequestUrl_Rollback(p) PROVE GoesWrong
  <2>1. /\ marked[p] /\ Release(Key(Head(todo[p]))) /\ Abandon(p, Tail(todo[p])) /\ runs' = runs
        /\ UNCHANGED <<requests, responses, grant>>
    BY <1>1 DEF RequestUrl_Rollback
  <2>2. Key(Head(todo[p])) \in InFlight
    BY <2>1 DEF InFlight
  <2>. QED  BY <1>0, <2>1, <2>2, ReleaseShows, AbandonShrinks DEF GoesWrong, Shrinks, KeepsTokenFiles
<1>2. ASSUME NEW p \in Callers, RequestUrl_NoRedis(p) PROVE GoesWrong
  <2>1. /\ todo[p] # <<>> /\ Abandon(p, todo[p])
        /\ UNCHANGED <<crawled, requests, responses, grant, released>>
    BY <1>2 DEF RequestUrl_NoRedis, InCall
  <2>2. Key(Head(todo[p])) \in KeysOf(todo[p])
    BY <2>1, TailKeys
  <2>3. ~Clean'
    BY <2>1, <2>2, LossShows, AbandonShrinks
  <2>. QED  BY <2>1, <2>3, AbandonShrinks DEF GoesWrong, Shrinks, KeepsTokenFiles, ReleasedKeys
<1>3. CASE Busy /\ GiveUp /\ UNCHANGED grant
  <2>1. /\ Release(Key(engine.msg)) /\ engine' = EngineIdle /\ runs' = runs
        /\ UNCHANGED <<requests, responses, todo, seedUsers, grant>>
    BY <1>3 DEF GiveUp
  <2>2. Key(engine.msg) \in InFlight /\ ~Busy'
    BY <1>3, <2>1, IdleType DEF InFlight, Busy
  <2>. QED  BY <1>0, <2>1, <2>2, ReleaseShows DEF GoesWrong, Shrinks, KeepsTokenFiles
<1>4. CASE Engine_Exception
  <2>1. /\ Abandon("engine", todo["engine"])
        /\ UNCHANGED <<crawled, requests, responses, grant, released>>
    BY <1>4 DEF Engine_Exception
  <2>2. ~Clean'
    BY <2>1, LossShows, AbandonShrinks DEF Callers
  <2>. QED  BY <2>1, <2>2, AbandonShrinks DEF GoesWrong, Shrinks, KeepsTokenFiles, ReleasedKeys, Callers
<1>5. CASE FollowLinks_Exception
  <2>1. /\ todo["follow_links"] # <<>> /\ Abandon("follow_links", todo["follow_links"])
        /\ UNCHANGED <<crawled, requests, responses, grant, released>>
    BY <1>5 DEF FollowLinks_Exception, InCall
  <2>2. Key(Head(todo["follow_links"])) \in KeysOf(todo["follow_links"])
    BY <2>1, TailKeys DEF Callers
  <2>3. ~Clean'
    BY <2>1, <2>2, LossShows, AbandonShrinks DEF Callers
  <2>. QED  BY <2>1, <2>3, AbandonShrinks DEF GoesWrong, Shrinks, KeepsTokenFiles, ReleasedKeys, Callers
<1>6. ASSUME NEW s \in Stores, Worker_Exception(s) PROVE GoesWrong
  <2>1. /\ LostAt(s, {Key(Head(responses[s]))}, "exception") \subseteq lost'
        /\ UNCHANGED <<crawled, requests, todo, engine, seedUsers, grant, released>>
        /\ responses'["follow_links"] = responses["follow_links"]
    BY <1>6 DEF Worker_Exception, TakeFrom, Stores, TypeInv, TypeOK
  <2>2. ~Clean'
    BY <2>1, LossShows
  <2>. QED  BY <2>1, <2>2 DEF GoesWrong, Shrinks, KeepsTokenFiles, ReleasedKeys, Busy
<1>. QED  BY <1>1, <1>2, <1>3, <1>4, <1>5, <1>6 DEF RequestUrl_Fails

(* The other steps, as they concern the run.                               *)
LEMMA StepKinds ==
  ASSUME TypeInv, Repeatable, OursOnly, [Next]_vars
  PROVE  \/ GoesWrong
         \/ Quiet
         \/ \E p \in Callers : RequestUrl(p)
         \/ Seeder_Start({Primary})
         \/ Seeder_NextUser(Primary)
         \/ Engine_Take \/ Engine_Http200 \/ Engine_FanOut
         \/ Worker_FollowLinks
<1>0. ASSUME NEW e, RetryWith(e), e.msg = engine.msg, e.user = engine.user, KeepsTokenFiles,
             e.pc = engine.pc \/ (engine.pc \in Asking /\ e.pc \in Asking)
      PROVE  Quiet
  BY <1>0 DEF RetryWith, Quiet
<1>1. CASE \E p \in Callers : RequestUrl(p) \/ RequestUrl_Fails(p)
  BY <1>1, FailureShows
<1>2. ASSUME NEW scope \in SeedScopes, Seeder_Start(scope) PROVE scope = {Primary}
  <2>1. KnownUsers = Users
    BY DEF KnownUsers, HasUser, OursOnly
  <2>2. CASE Users = {}
    <3>1. Primary = Legacy
      BY <2>2, IdentityAssumption DEF Identities
    <3>. QED  BY <1>2, <2>1, <2>2, <3>1 DEF SeedScopes
  <2>3. CASE Users # {}
    <3>1. Users = {Primary}
      BY <2>3 DEF Repeatable, OneUser
    <3>. QED  BY <1>2, <2>1, <3>1 DEF SeedScopes
  <2>. QED  BY <2>2, <2>3
<1>3. CASE Seeder
  <2>1. ASSUME NEW u \in Identities, Seeder_NextUser(u) PROVE u = Primary
    BY <2>1 DEF Seeder_NextUser, OursOnly
  <2>. QED  BY <1>2, <1>3, <2>1 DEF Seeder
<1>4. CASE Engine_Http500 \/ Engine_Http429
  <2>. DEFINE e5 == [engine EXCEPT !.n500 = @ + 1]
              e4 == [engine EXCEPT !.n429 = @ + 1]
  <2>1. /\ e5.pc = engine.pc /\ e5.msg = engine.msg /\ e5.user = engine.user
        /\ e4.pc = engine.pc /\ e4.msg = engine.msg /\ e4.user = engine.user
    BY DEF TypeInv, TypeOK
  <2>2. Busy /\ UNCHANGED grant /\ (GiveUp \/ RetryWith(e5) \/ RetryWith(e4))
    BY <1>4 DEF Engine_Http500, Engine_Http429, Busy
  <2>3. KeepsTokenFiles
    BY <2>2 DEF KeepsTokenFiles
  <2>. QED  BY <1>0, <2>1, <2>2, <2>3, FailureShows
<1>5. CASE Engine_OtherStatus \/ Engine_RefreshFails
  BY <1>5, FailureShows DEF Engine_OtherStatus, Engine_RefreshFails, Busy
<1>6. CASE Engine_Http401 \/ Engine_Refresh
  BY <1>0, <1>6, RefreshRetries
<1>7. CASE Tokens
  <2>1. ~ \E u \in Users : Grant_Forget(u)
    BY DEF Grant_Forget, Fault, Repeatable
  <2>2. PICK i \in Identities : Grant_Expire(i) \/ Grant_Revoke(i) \/ Grant_Login(i)
    BY <1>7, <2>1 DEF Tokens
  <2>3. /\ UNCHANGED <<crawled, requests, responses, todo, marked, engine, seedUsers, runs,
                       released, lost>>
        /\ \E g \in {"valid", "expired", "revoked"} : grant' = [grant EXCEPT ![i] = g]
    BY <2>2 DEF Grant_Expire, Grant_Revoke, Grant_Login, Grant_Set
  <2>4. KeepsTokenFiles
    BY <2>3 DEF KeepsTokenFiles, TypeInv, TypeOK, Identities
  <2>. QED  BY <2>3, <2>4 DEF Quiet
<1>8. CASE \E s \in Stores : Worker_Store(s)
  BY <1>8 DEF Worker_Store, TakeFrom, Stores, Quiet, KeepsTokenFiles, TypeInv, TypeOK
<1>9. CASE (\E q \in Queues : Consumer_Bind(q)) \/ Broker_Restart \/ UNCHANGED vars
  BY <1>9 DEF Consumer_Bind, Broker_Restart, vars, Quiet, KeepsTokenFiles
<1>10. CASE Failures /\ ~Broker_Restart
  <2>1. ~Fault("crash")
    BY DEF Fault, Repeatable
  <2>2. Engine_Exception \/ (\E s \in Stores : Worker_Exception(s)) \/ FollowLinks_Exception
    BY <1>10, <2>1 DEF Failures, Seeder_Crash, Engine_Crash, Worker_Crash
  <2>. QED  BY <2>2, FailureShows
<1>11. CASE Worker_FollowLinks \/ Engine_Take \/ Engine_Http200 \/ Engine_FanOut
  BY <1>11
<1>. QED
  BY <1>1, <1>3, <1>4, <1>5, <1>6, <1>7, <1>8, <1>9, <1>10, <1>11 DEF Next, Engine, Engine_Answer

(* request_url moves the head of the caller's list.                        *)
LEMMA RequestUrlMoves ==
  ASSUME TypeInv, OursOnly, NEW p \in Callers, RequestUrl(p)
  PROVE  /\ todo[p] # <<>> /\ Head(todo[p]) \in Ours
         /\ Elements(todo[p]) = {Head(todo[p])} \cup Elements(Tail(todo[p]))
         /\ Elements(requests) \subseteq Elements(requests')
         /\ Elements(requests') \subseteq Elements(requests) \cup {Head(todo[p])}
         /\ \A q \in Callers : Elements(todo'[q]) \subseteq Elements(todo[q])
         /\ crawled \subseteq crawled' /\ crawled' \subseteq crawled \cup {Key(Head(todo[p]))}
         /\ UNCHANGED <<responses, engine, seedUsers, grant, released, runs>>
<1>1. /\ todo[p] # <<>>
      /\ UNCHANGED <<responses, engine, seedUsers, grant, released, runs>>
      /\ crawled \subseteq crawled' /\ crawled' \subseteq crawled \cup {Key(Head(todo[p]))}
      /\ \A q \in Callers : todo'[q] = todo[q] \/ (q = p /\ todo'[q] = Tail(todo[p]))
      /\ requests' = requests \/ requests' = Append(requests, Head(todo[p]))
  BY DEF RequestUrl, RequestUrl_Skip, RequestUrl_Mark, RequestUrl_Publish, InCall, TypeInv,
       TypeOK, CallShape
<1>2. todo[p] \in Seq(Request) /\ requests \in Seq(Request) /\ Head(todo[p]) \in Request
  BY <1>1, HeadTailProperties DEF TypeInv, TypeOK
<1>3. Elements(todo[p]) = {Head(todo[p])} \cup Elements(Tail(todo[p]))
  BY <1>1, <1>2, TailElements
<1>4. Elements(Append(requests, Head(todo[p]))) = Elements(requests) \cup {Head(todo[p])}
  BY <1>2, AppendElements
<1>5. Head(todo[p]) \in Ours
  BY <1>3 DEF OursOnly
<1>. QED  BY <1>1, <1>3, <1>4, <1>5

(* The other steps that bring a request or a response somewhere.           *)
LEMMA NextUserMoves ==
  ASSUME TypeInv, Seeder_NextUser(Primary)
  PROVE  /\ todo["seeder"] = <<>> /\ ~marked["seeder"]
         /\ todo'["seeder"] = SeedRequests(Primary)
         /\ \A q \in Callers : q # "seeder" => todo'[q] = todo[q]
         /\ seedUsers' = seedUsers \ {Primary}
         /\ UNCHANGED <<requests, responses, engine, grant, released, runs, marked, lost>>
BY DEF Seeder_NextUser, TypeInv, TypeOK, CallShape, Callers

LEMMA TakeMoves ==
  ASSUME TypeInv, OursOnly, Engine_Take
  PROVE  /\ engine.pc = "idle" /\ engine'.pc = "get" /\ engine'.user = Primary
         /\ engine'.msg \in Ours
         /\ Elements(requests) = Elements(requests') \cup {engine'.msg}
         /\ UNCHANGED <<crawled, responses, todo, marked, seedUsers, grant, released, runs, lost>>
<1>1. /\ engine.pc = "idle" /\ requests # <<>> /\ requests' = Tail(requests)
      /\ engine'.pc = "get" /\ engine'.msg = Head(requests)
      /\ engine'.user = ResolveEffectiveUser(Head(requests).user)
      /\ UNCHANGED <<crawled, responses, todo, marked, seedUsers, grant, released, runs, lost>>
  BY DEF Engine_Take, EngineIdle
<1>2. Elements(requests) = {Head(requests)} \cup Elements(Tail(requests))
  BY <1>1, TailElements DEF TypeInv, TypeOK
<1>3. Head(requests) \in Ours /\ Head(requests).user = Primary
  BY <1>2 DEF OursOnly, Ours
<1>4. ResolveEffectiveUser(Primary) = Primary
  BY IdentityAssumption DEF ResolveEffectiveUser, HasUser, Identities, OursOnly
<1>. QED  BY <1>1, <1>2, <1>3, <1>4

LEMMA AnswerMoves ==
  ASSUME TypeInv, OursOnly, Engine_Http200
  PROVE  /\ engine.pc = "get" /\ engine'.pc = "respond" /\ engine.msg \in Ours
         /\ engine'.msg = engine.msg /\ engine'.user = engine.user
         /\ todo["engine"] = <<>> /\ ~marked["engine"]
         /\ todo'["engine"] = NextRequests(engine.msg, Primary)
         /\ \A q \in Callers : q # "engine" => todo'[q] = todo[q]
         /\ UNCHANGED <<crawled, requests, responses, seedUsers, grant, released, runs, marked,
                        lost>>
BY DEF Engine_Http200, TypeInv, TypeOK, CallShape, Callers, OursOnly, Busy

LEMMA FanOutMoves ==
  ASSUME TypeInv, OursOnly, Engine_FanOut
  PROVE  /\ engine.pc = "respond" /\ engine.msg \in Ours /\ todo["engine"] = <<>>
         /\ ~marked["engine"]
         /\ \/ /\ engine'.pc = "respond" /\ engine'.msg = engine.msg
               /\ engine'.user = engine.user
               /\ responses'["follow_links"] = responses["follow_links"]
            \/ /\ ~Busy'
               /\ Elements(responses'["follow_links"])
                    = Elements(responses["follow_links"]) \cup {engine.msg}
               /\ "follow_links" \in Enabled
            \/ /\ ~Busy' /\ responses'["follow_links"] = responses["follow_links"]
               /\ "follow_links" \notin Enabled \/ ~Clean'
         /\ lost \subseteq lost'
         /\ UNCHANGED <<crawled, requests, todo, seedUsers, grant, released, runs, marked>>
<1>. DEFINE sink == SinkOrder[engine.fan + 1]
<1>1. /\ engine.pc = "respond" /\ engine.msg \in Ours /\ engine.user = Primary
      /\ todo["engine"] = <<>> /\ ~marked["engine"] /\ lost \subseteq lost'
      /\ UNCHANGED <<crawled, requests, todo, seedUsers, grant, released, runs, marked>>
      /\ engine.fan \in 0..2
  BY DEF Engine_FanOut, TypeInv, TypeOK, CallShape, Callers, OursOnly, Busy
<1>2. EngineResponse = engine.msg
  BY <1>1 DEF EngineResponse, Ours
<1>3. Len(SinkOrder) = 3
  BY DEF SinkOrder
<1>4. responses["follow_links"] \in Seq(Request)
  BY DEF TypeInv, TypeOK, Sinks, Response, Request
<1>5. CASE engine.fan + 1 # 3
  <2>1. sink # "follow_links" /\ sink \in Sinks
    BY <1>1, <1>5 DEF SinkOrder, Sinks, Stores
  <2>2. responses'["follow_links"] = responses["follow_links"]
    BY <2>1 DEF Engine_FanOut, TypeInv, TypeOK, Sinks
  <2>3. engine' = [engine EXCEPT !.fan = @ + 1]
    BY <1>3, <1>5 DEF Engine_FanOut
  <2>4. engine'.pc = "respond" /\ engine'.msg = engine.msg /\ engine'.user = engine.user
    BY <1>1, <2>3 DEF TypeInv, TypeOK
  <2>. QED  BY <1>1, <2>2, <2>4
<1>6. CASE engine.fan + 1 = 3
  <2>1. sink = "follow_links"
    BY <1>6 DEF SinkOrder
  <2>2. ~Busy'
    BY <1>3, <1>6, IdleType DEF Engine_FanOut, Busy
  <2>3. CASE "follow_links" \in Enabled /\ bound["follow_links"]
    <3>1. responses'["follow_links"] = Append(responses["follow_links"], engine.msg)
      BY <1>2, <2>1, <2>3 DEF Engine_FanOut, TypeInv, TypeOK, Sinks
    <3>2. Elements(responses'["follow_links"]) = Elements(responses["follow_links"]) \cup {engine.msg}
      BY <1>1, <1>4, <3>1, AppendElements, OursAsked
    <3>. QED  BY <1>1, <2>2, <2>3, <3>2
  <2>4. CASE "follow_links" \in Enabled /\ ~bound["follow_links"]
    <3>1. LostAt("follow_links", {Key(EngineResponse)}, "unroutable") \subseteq lost'
      BY <2>1, <2>4 DEF Engine_FanOut
    <3>2. ~Clean'
      BY <3>1, LossShows
    <3>3. responses' = responses
      BY <2>1, <2>4 DEF Engine_FanOut
    <3>. QED  BY <1>1, <2>2, <3>2, <3>3
  <2>5. CASE "follow_links" \notin Enabled
    <3>1. responses' = responses
      BY <2>1, <2>5 DEF Engine_FanOut
    <3>. QED  BY <1>1, <2>2, <2>5, <3>1
  <2>. QED  BY <2>3, <2>4, <2>5
<1>. QED  BY <1>5, <1>6

LEMMA LinksMove ==
  ASSUME TypeInv, OursOnly, Worker_FollowLinks
  PROVE  \E m \in Ours :
           /\ todo["follow_links"] = <<>> /\ ~marked["follow_links"]
           /\ "follow_links" \in Enabled
           /\ Elements(responses["follow_links"]) = Elements(responses'["follow_links"]) \cup {m}
           /\ todo'["follow_links"] = Children(m)
           /\ \A q \in Callers : q # "follow_links" => todo'[q] = todo[q]
           /\ UNCHANGED <<crawled, requests, engine, seedUsers, grant, released, runs, marked, lost>>
<1>. DEFINE q == responses["follow_links"]
<1>1. /\ q # <<>> /\ responses'["follow_links"] = Tail(q)
      /\ todo["follow_links"] = <<>> /\ ~marked["follow_links"]
      /\ todo'["follow_links"] = Children(Head(q))
      /\ \A c \in Callers : c # "follow_links" => todo'[c] = todo[c]
      /\ UNCHANGED <<crawled, requests, engine, seedUsers, grant, released, runs, marked, lost>>
  BY DEF Worker_FollowLinks, TakeFrom, TypeInv, TypeOK, CallShape, Callers, Sinks
<1>2. Elements(q) = {Head(q)} \cup Elements(Tail(q))
  <2>1. q \in Seq(Response)
    BY DEF TypeInv, TypeOK, Sinks
  <2>. QED  BY <1>1, <2>1, TailElements
<1>3. Head(q) \in Ours /\ "follow_links" \in Enabled
  BY <1>1, <1>2 DEF OursOnly
<1>. QED  BY <1>1, <1>2, <1>3

-----------------------------------------------------------------------------
(* Everybody goes on working for the one user.                             *)

LEMMA OursInit == Repeatable /\ Init => OursOnly
BY NoElements, IdleType DEF Init, OursOnly, Busy, Identities, Callers, Sinks

LEMMA OursNext ==
  ASSUME TypeInv, Repeatable, OursOnly, [Next]_vars
  PROVE  OursOnly'
<1>1. CASE GoesWrong \/ Quiet
  <2>1. Shrinks
    BY <1>1, QuietShrinks DEF GoesWrong
  <2>. QED  BY <2>1 DEF Shrinks, OursOnly, KeepsTokenFiles
<1>2. ASSUME NEW p \in Callers, RequestUrl(p) PROVE OursOnly'
  <2>1. Head(todo[p]) \in Ours => Key(Head(todo[p])).set \in {Legacy, Primary}
    BY DEF Key, SetKey, Ours
  <2>. QED  BY <1>2, <2>1, RequestUrlMoves DEF OursOnly, Busy
<1>3. CASE Seeder_Start({Primary})
  BY <1>3 DEF Seeder_Start, OursOnly, Busy
<1>4. CASE Seeder_NextUser(Primary)
  <2>1. crawled' \subseteq crawled
    BY <1>4 DEF Seeder_NextUser
  <2>. QED  BY <1>4, <2>1, NextUserMoves, OursAsked DEF OursOnly, Busy
<1>5. CASE Engine_Take
  BY <1>5, TakeMoves DEF OursOnly, Busy
<1>6. CASE Engine_Http200
  BY <1>6, AnswerMoves, OursAsked DEF OursOnly, Busy
<1>7. CASE Engine_FanOut
  <2>1. engine.user = Primary /\ engine.msg \in Ours
    BY <1>7, FanOutMoves DEF OursOnly, Busy
  <2>. QED  BY <1>7, <2>1, FanOutMoves DEF OursOnly, Busy
<1>8. CASE Worker_FollowLinks
  <2>1. PICK m \in Ours :
          /\ "follow_links" \in Enabled
          /\ Elements(responses["follow_links"]) = Elements(responses'["follow_links"]) \cup {m}
          /\ todo'["follow_links"] = Children(m)
          /\ \A q \in Callers : q # "follow_links" => todo'[q] = todo[q]
          /\ UNCHANGED <<crawled, requests, engine, seedUsers, grant>>
    BY <1>8, LinksMove
  <2>. QED  BY <2>1, OursAsked DEF OursOnly, Busy
<1>. QED  BY <1>1, <1>2, <1>3, <1>4, <1>5, <1>6, <1>7, <1>8, StepKinds

(* Nothing is asked for that the seeds do not lead to.                     *)
LEMMA WithinShrinks ==
  ASSUME TypeInv, Shrinks, NEW S, Within(S)
  PROVE  Within(S)'
<1>1. /\ KeysOf(requests') \subseteq KeysOf(requests)
      /\ \A p \in Callers : KeysOf(todo'[p]) \subseteq KeysOf(todo[p])
      /\ KeysOf(responses'["follow_links"]) \subseteq KeysOf(responses["follow_links"])
  BY KeysOfElements DEF Shrinks
<1>2. InFlight \subseteq S
  <2>1. ASSUME NEW p \in Callers, marked[p] PROVE Key(Head(todo[p])) \in S
    <3>1. Key(Head(todo[p])) \in KeysOf(todo[p])
      BY <2>1, TailKeys DEF TypeInv, CallShape
    <3>. QED  BY <3>1 DEF Within
  <2>. QED  BY <2>1 DEF InFlight, Within
<1>. QED  BY <1>1, <1>2 DEF Within, Shrinks

LEMMA WithinNext ==
  ASSUME TypeInv, Repeatable, OursOnly, [Next]_vars,
         NEW S, Within(S), KeysOf(SeedRequests(Primary)) \subseteq S, Closed(S)
  PROVE  Within(S)'
<1>1. CASE GoesWrong \/ Quiet
  BY <1>1, QuietShrinks, WithinShrinks DEF GoesWrong
<1>2. ASSUME NEW p \in Callers, RequestUrl(p) PROVE Within(S)'
  <2>1. Key(Head(todo[p])) \in S
    BY <1>2, RequestUrlMoves, KeysOfElements DEF Within
  <2>2. ReleasedKeys' = ReleasedKeys
    BY <1>2, RequestUrlMoves DEF ReleasedKeys
  <2>. QED  BY <1>2, <2>1, <2>2, RequestUrlMoves, KeysOfElements DEF Within, Busy
<1>3. CASE Seeder_Start({Primary})
  BY <1>3 DEF Seeder_Start, Within, Busy, ReleasedKeys
<1>4. CASE Seeder_NextUser(Primary)
  <2>1. crawled' \subseteq crawled
    BY <1>4 DEF Seeder_NextUser
  <2>. QED  BY <1>4, <2>1, NextUserMoves DEF Within, Busy, ReleasedKeys
<1>5. CASE Engine_Take
  BY <1>5, TakeMoves, KeysOfElements DEF Within, Busy, ReleasedKeys
<1>6. CASE Engine_Http200
  <2>1. Key(engine.msg) \in S /\ engine.msg \in Ours
    BY <1>6, AnswerMoves DEF Within, Busy
  <2>2. NextKeys(engine.msg) \subseteq S
    BY <2>1 DEF Closed
  <2>. QED  BY <1>6, <2>1, <2>2, AnswerMoves DEF Within, Busy, ReleasedKeys, NextKeys
<1>7. CASE Engine_FanOut
  <2>1. Key(engine.msg) \in S
    BY <1>7, FanOutMoves DEF Within, Busy
  <2>. QED  BY <1>7, <2>1, FanOutMoves, KeysOfElements DEF Within, Busy, ReleasedKeys
<1>8. CASE Worker_FollowLinks
  <2>1. PICK m \in Ours :
          /\ "follow_links" \in Enabled
          /\ Elements(responses["follow_links"]) = Elements(responses'["follow_links"]) \cup {m}
          /\ todo'["follow_links"] = Children(m)
          /\ \A q \in Callers : q # "follow_links" => todo'[q] = todo[q]
          /\ UNCHANGED <<crawled, requests, engine, released>>
    BY <1>8, LinksMove
  <2>2. /\ Key(m) \in S /\ KeysOf(responses'["follow_links"]) \subseteq S
    BY <2>1, KeysOfElements DEF Within
  <2>3. KeysOf(Children(m)) \subseteq S
    BY <2>1, <2>2 DEF Closed, LinkKeys
  <2>. QED  BY <2>1, <2>2, <2>3 DEF Within, Busy, ReleasedKeys
<1>. QED  BY <1>1, <1>2, <1>3, <1>4, <1>5, <1>6, <1>7, <1>8, StepKinds

-----------------------------------------------------------------------------
(* What a caller has not marked yet stays in its list or gets marked.      *)

LEMMA RestStays ==
  ASSUME TypeInv, OursOnly, NEW p \in Callers, RequestUrl(p), NEW q \in Callers
  PROVE  KeysOf(Rest(q)) \subseteq crawled' \cup KeysOf(Rest(q)')
<1>1. CASE q # p
  <2>1. todo'[q] = todo[q] /\ marked'[q] = marked[q]
    BY <1>1 DEF RequestUrl, RequestUrl_Skip, RequestUrl_Mark, RequestUrl_Publish, TypeInv, TypeOK
  <2>. QED  BY <2>1 DEF Rest
<1>2. CASE q = p
  <2>1. KeysOf(todo[p]) = {Key(Head(todo[p]))} \cup KeysOf(Tail(todo[p]))
    BY RequestUrlMoves, TailKeys
  <2>2. CASE RequestUrl_Skip(p)
    <3>1. Key(Head(todo[p])) \in crawled
      <4>1. Head(todo[p]).depth \in Nat
        BY RequestUrlMoves DEF Ours
      <4>. QED  BY <2>2, <4>1 DEF RequestUrl_Skip, ShouldRequest, UrlIsNew
    <3>2. ~marked[p] /\ ~marked'[p] /\ todo'[p] = Tail(todo[p]) /\ crawled' = crawled
      BY <2>2 DEF RequestUrl_Skip, InCall, TypeInv, TypeOK
    <3>. QED  BY <1>2, <2>1, <3>1, <3>2 DEF Rest
  <2>3. CASE RequestUrl_Mark(p)
    <3>1. /\ ~marked[p] /\ marked'[p] /\ todo' = todo
          /\ crawled' = crawled \cup {Key(Head(todo[p]))}
      BY <2>3 DEF RequestUrl_Mark, InCall, TypeInv, TypeOK
    <3>. QED  BY <1>2, <2>1, <3>1 DEF Rest
  <2>4. CASE RequestUrl_Publish(p)
    <3>1. marked[p] /\ ~marked'[p] /\ todo'[p] = Tail(todo[p])
      BY <2>4 DEF RequestUrl_Publish, TypeInv, TypeOK
    <3>. QED  BY <1>2, <3>1 DEF Rest
  <2>. QED  BY <2>2, <2>3, <2>4 DEF RequestUrl
<1>. QED  BY <1>1, <1>2

(* A publish delivers the marked request, or the loss shows.               *)
LEMMA PublishKeeps ==
  ASSUME TypeInv, OursOnly, NEW p \in Callers, RequestUrl(p), Clean',
         NEW q \in Callers, marked[q]
  PROVE  \/ Head(todo[q]) \in Elements(requests')
         \/ marked'[q] /\ Head(todo'[q]) = Head(todo[q])
<1>1. CASE q # p
  BY <1>1 DEF RequestUrl, RequestUrl_Skip, RequestUrl_Mark, RequestUrl_Publish, TypeInv, TypeOK
<1>2. CASE q = p
  <2>1. RequestUrl_Publish(p)
    BY <1>2 DEF RequestUrl, RequestUrl_Skip, RequestUrl_Mark, InCall
  <2>2. CASE bound["make_api_call"]
    <3>1. requests' = Append(requests, Head(todo[p]))
      BY <2>1, <2>2 DEF RequestUrl_Publish
    <3>2. Head(todo[p]) \in Request /\ requests \in Seq(Request)
      BY RequestUrlMoves, OursAsked DEF TypeInv, TypeOK
    <3>. QED  BY <1>2, <3>1, <3>2, AppendElements
  <2>3. CASE ~bound["make_api_call"]
    <3>1. LostAt("make_api_call", {Key(Head(todo[p]))}, "unroutable") \subseteq lost'
      BY <2>1, <2>3 DEF RequestUrl_Publish
    <3>. QED  BY <3>1, LossShows
  <2>. QED  BY <2>2, <2>3
<1>. QED  BY <1>1, <1>2

(* No mark becomes a dead end.                                             *)
LEMMA RequestUrlGoesOn ==
  ASSUME TypeInv, OursOnly, GoesOn, Clean, NEW p \in Callers, RequestUrl(p), Clean',
         NEW m \in Ours, Live(Key(m))'
  PROVE  Pending(m)' \/ Followed(m)'
<1>1. /\ crawled \subseteq crawled' /\ engine' = engine /\ responses' = responses
      /\ seedUsers' = seedUsers /\ Elements(requests) \subseteq Elements(requests')
      /\ crawled' \subseteq crawled \cup {Key(Head(todo[p]))}
  BY RequestUrlMoves
<1>2. \A q \in Callers : KeysOf(Rest(q)) \subseteq crawled' \cup KeysOf(Rest(q)')
  BY RestStays
<1>3. CASE Key(m) \in crawled
  <2>1. Pending(m) \/ Followed(m)
    <3>1. Live(Key(m))
      BY <1>1, <1>3 DEF Live
    <3>. QED  BY <3>1 DEF GoesOn
  <2>2. CASE Followed(m)
    BY <1>1, <1>2, <2>2 DEF Followed, Callers
  <2>3. CASE Pending(m)
    <3>1. CASE m \in Elements(requests)
      BY <1>1, <3>1 DEF Pending
    <3>2. ASSUME NEW q \in Callers, marked[q], Head(todo[q]) = m PROVE Pending(m)'
      BY <3>2, PublishKeeps DEF Pending
    <3>3. CASE engine.pc \in Asking /\ engine.msg = m
      BY <1>1, <3>3 DEF Pending
    <3>4. CASE /\ engine.pc = "respond" /\ engine.msg = m
               /\ NextKeys(m) \subseteq crawled \cup KeysOf(Rest("engine"))
      BY <1>1, <1>2, <3>4 DEF Pending, Callers
    <3>. QED  BY <2>3, <3>1, <3>2, <3>3, <3>4 DEF Pending
  <2>. QED  BY <2>1, <2>2, <2>3
<1>4. CASE Key(m) \notin crawled
  <2>1. Key(m) = Key(Head(todo[p]))
    BY <1>1, <1>4 DEF Live
  <2>2. m = Head(todo[p])
    BY <2>1, OursByKey, RequestUrlMoves
  <2>3. RequestUrl_Mark(p)
    BY <1>4 DEF Live, RequestUrl, RequestUrl_Skip, RequestUrl_Publish
  <2>4. marked'[p] /\ todo' = todo
    BY <2>3 DEF RequestUrl_Mark, TypeInv, TypeOK
  <2>. QED  BY <2>2, <2>4 DEF Pending
<1>. QED  BY <1>3, <1>4

(* The catalog's pages lead to catalog pages.                              *)
LEMMA CatalogLeads ==
  ASSUME Repeatable, NEW m \in Ours, Primary # Legacy, Key(m).set = Legacy
  PROVE  \A k \in NextKeys(m) \cup LinkKeys(m) : k.set = Legacy
<1>1. m.url \in Urls \ MeUrls
  BY DEF Key, SetKey, Ours
<1>2. \A urls, d : (\A i \in DOMAIN urls : urls[i] \notin MeUrls)
                      => \A k \in KeysOf(Requests(urls, d, Primary)) : k.set = Legacy
  BY DEF KeysOf, Requests, Key, SetKey
<1>3. \A k \in NextKeys(m) : k.set = Legacy
  <2>1. CASE NextPage[m.url] = NoUrl
    BY <2>1, NoElements DEF NextKeys, NextRequests
  <2>2. CASE NextPage[m.url] # NoUrl
    BY <1>1, <1>2, <2>2 DEF NextKeys, NextRequests, Repeatable, CatalogIsShared
  <2>. QED  BY <2>1, <2>2
<1>4. m.user = Primary /\ m \in Response
  BY OursAsked DEF Ours, Request, Response
<1>5. \A k \in KeysOf(Pages(m)) : k.set = Legacy
  BY <1>1, <1>2, <1>4 DEF Pages, Repeatable, CatalogIsShared
<1>6. \A k \in KeysOf(Neighbours(m)) : k.set = Legacy
  <2>1. CASE m.depth <= 0
    BY <2>1, NoElements DEF Neighbours
  <2>2. CASE ~(m.depth <= 0)
    BY <1>1, <1>2, <1>4, <2>2 DEF Neighbours, Repeatable, CatalogIsShared
  <2>. QED  BY <2>1, <2>2
<1>7. KeysOf(Children(m)) = KeysOf(Pages(m)) \cup KeysOf(Neighbours(m))
  <2>1. Pages(m) \in Seq(Request) /\ Neighbours(m) \in Seq(Request)
    BY <1>4, ChildrenType
  <2>. QED  BY <2>1, ConcatElements, KeysOfElements DEF Children
<1>. QED  BY <1>3, <1>5, <1>6, <1>7 DEF LinkKeys

(* The reset of the user's marks leaves the catalog's, with what they lead *)
(* to; nothing is under way that it could make a dead end of.              *)
LEMMA NextUserGoesOn ==
  ASSUME TypeInv, Repeatable, OursOnly, GoesOn, Clean, Seeder_NextUser(Primary),
         NEW m \in Ours, Live(Key(m))'
  PROVE  Pending(m)' \/ Followed(m)'
<1>1. crawled' = {k \in crawled : k.set # Primary}
  BY DEF Seeder_NextUser, Repeatable
<1>2. Key(m) \in crawled /\ Key(m).set = Legacy /\ Primary # Legacy
  BY <1>1 DEF Live, Key, SetKey, Ours
<1>3. \A k \in NextKeys(m) \cup LinkKeys(m) : k.set = Legacy
  BY <1>2, CatalogLeads
<1>4. Pending(m) \/ Followed(m)
  BY <1>2 DEF GoesOn, Live
<1>5. /\ requests' = requests /\ responses' = responses /\ marked' = marked /\ engine' = engine
      /\ ~marked["seeder"]
      /\ \A q \in Callers : q # "seeder" => todo'[q] = todo[q]
      /\ Rest("engine")' = Rest("engine") /\ Rest("follow_links")' = Rest("follow_links")
  BY NextUserMoves DEF Rest, Callers
<1>6. \A k \in NextKeys(m) \cup LinkKeys(m) : k \in crawled => k \in crawled'
  BY <1>1, <1>2, <1>3
<1>7. CASE Followed(m)
  BY <1>5, <1>6, <1>7 DEF Followed
<1>8. CASE Pending(m)
  BY <1>5, <1>6, <1>8 DEF Pending
<1>. QED  BY <1>4, <1>7, <1>8

LEMMA GoesOnNext ==
  ASSUME TypeInv, Repeatable, OursOnly, GoesOn, [Next]_vars
  PROVE  GoesOn'
<1>. SUFFICES ASSUME Clean', NEW m \in Ours, Live(Key(m))'
              PROVE  Pending(m)' \/ Followed(m)'
  BY DEF GoesOn
<1>0. ASSUME UNCHANGED <<released, runs>> PROVE Clean
  <2>1. lost \subseteq lost'
    BY LostAndFollowed
  <2>. QED  BY <1>0, <2>1 DEF Clean
<1>a. ASSUME UNCHANGED <<crawled, seedUsers, released, runs>> PROVE Pending(m) \/ Followed(m)
  BY <1>0, <1>a DEF GoesOn, Live
<1>1. CASE GoesWrong
  BY <1>1 DEF GoesWrong
<1>2. CASE Quiet
  <2>1. Pending(m) \/ Followed(m)
    BY <1>2, <1>a DEF Quiet
  <2>2. Rest("engine")' = Rest("engine") /\ Rest("follow_links")' = Rest("follow_links")
    BY <1>2 DEF Quiet, Rest
  <2>. QED  BY <1>2, <2>1, <2>2 DEF Quiet, Pending, Followed, Asking
<1>3. ASSUME NEW p \in Callers, RequestUrl(p) PROVE Pending(m)' \/ Followed(m)'
  <2>1. Clean
    BY <1>0, <1>3, RequestUrlMoves
  <2>. QED  BY <1>3, <2>1, RequestUrlGoesOn
<1>4. CASE Seeder_Start({Primary})
  BY <1>4 DEF Seeder_Start, Repeatable, Live
<1>5. CASE Seeder_NextUser(Primary)
  <2>1. Clean
    BY <1>0, <1>5, NextUserMoves
  <2>. QED  BY <1>5, <2>1, NextUserGoesOn
<1>6. CASE Engine_Take
  <2>1. Pending(m) \/ Followed(m)
    BY <1>6, <1>a, TakeMoves
  <2>2. UNCHANGED <<crawled, responses, todo, marked>>
    BY <1>6, TakeMoves
  <2>3. Rest("engine")' = Rest("engine") /\ Rest("follow_links")' = Rest("follow_links")
    BY <2>2 DEF Rest
  <2>4. CASE Followed(m)
    BY <2>2, <2>3, <2>4 DEF Followed
  <2>5. CASE Pending(m)
    BY <1>6, <2>2, <2>3, <2>5, TakeMoves DEF Pending, Asking
  <2>. QED  BY <2>1, <2>4, <2>5
<1>7. CASE Engine_Http200
  <2>1. Pending(m) \/ Followed(m)
    BY <1>7, <1>a, AnswerMoves
  <2>2. /\ UNCHANGED <<crawled, requests, responses, marked>>
        /\ engine.pc = "get" /\ engine'.pc = "respond" /\ engine'.msg = engine.msg
        /\ todo["engine"] = <<>> /\ ~marked["engine"]
        /\ todo'["engine"] = NextRequests(engine.msg, Primary)
        /\ \A q \in Callers : q # "engine" => todo'[q] = todo[q]
    BY <1>7, AnswerMoves
  <2>3. /\ Rest("engine")' = NextRequests(engine.msg, Primary)
        /\ Rest("follow_links")' = Rest("follow_links")
    BY <2>2 DEF Rest, Callers
  <2>4. CASE Followed(m)
    BY <2>2, <2>3, <2>4 DEF Followed
  <2>5. CASE Pending(m)
    BY <2>2, <2>3, <2>5 DEF Pending, NextKeys
  <2>. QED  BY <2>1, <2>4, <2>5
<1>8. CASE Engine_FanOut
  <2>1. Pending(m) \/ Followed(m)
    BY <1>8, <1>a, FanOutMoves
  <2>2. /\ UNCHANGED <<crawled, requests, todo, marked>>
        /\ engine.pc = "respond" /\ todo["engine"] = <<>> /\ ~marked["engine"]
        /\ Elements(responses["follow_links"]) \subseteq Elements(responses'["follow_links"])
    BY <1>8, FanOutMoves
  <2>3. Rest("engine")' = <<>> /\ Rest("engine") = <<>> /\ Rest("follow_links")' = Rest("follow_links")
    BY <2>2 DEF Rest
  <2>4. CASE Followed(m)
    BY <2>2, <2>3, <2>4 DEF Followed
  <2>5. CASE Pending(m) /\ ~(engine.pc = "respond" /\ engine.msg = m)
    BY <2>2, <2>5 DEF Pending
  <2>6. CASE engine.msg = m /\ NextKeys(m) \subseteq crawled \cup KeysOf(Rest("engine"))
    <3>1. NextKeys(m) \subseteq crawled'
      BY <2>2, <2>3, <2>6, NoElements
    <3>2. CASE engine'.pc = "respond" /\ engine'.msg = engine.msg
      BY <2>6, <3>1, <3>2 DEF Pending
    <3>3. CASE m \in Elements(responses'["follow_links"])
      BY <3>1, <3>3 DEF Followed
    <3>4. CASE "follow_links" \notin Enabled
      BY <3>1, <3>4 DEF Followed, LinkKeys
    <3>. QED  BY <1>8, <2>6, <3>2, <3>3, <3>4, FanOutMoves
  <2>. QED  BY <2>1, <2>2, <2>4, <2>5, <2>6 DEF Pending, Asking
<1>9. CASE Worker_FollowLinks
  <2>0. PICK f \in Ours :
          /\ todo["follow_links"] = <<>> /\ ~marked["follow_links"]
          /\ Elements(responses["follow_links"]) = Elements(responses'["follow_links"]) \cup {f}
          /\ todo'["follow_links"] = Children(f)
          /\ \A q \in Callers : q # "follow_links" => todo'[q] = todo[q]
          /\ UNCHANGED <<crawled, requests, engine, seedUsers, released, runs, marked>>
    BY <1>9, LinksMove
  <2>1. Pending(m) \/ Followed(m)
    BY <1>a, <2>0
  <2>2. /\ Rest("follow_links")' = Children(f) /\ Rest("follow_links") = <<>>
        /\ Rest("engine")' = Rest("engine")
    BY <2>0 DEF Rest, Callers
  <2>3. CASE Pending(m)
    BY <2>0, <2>2, <2>3 DEF Pending
  <2>4. CASE Followed(m)
    <3>1. LinkKeys(f) \subseteq KeysOf(Children(f))
      BY DEF LinkKeys
    <3>. QED  BY <2>0, <2>2, <2>4, <3>1, NoElements DEF Followed
  <2>. QED  BY <2>1, <2>3, <2>4
<1>. QED  BY <1>1, <1>2, <1>3, <1>4, <1>5, <1>6, <1>7, <1>8, <1>9, StepKinds

(* The seeds are marked, or the seeder has them on its list.               *)
LEMMA SeedsNext ==
  ASSUME TypeInv, Repeatable, OursOnly, SeedsAsked, [Next]_vars
  PROVE  SeedsAsked'
<1>. SUFFICES ASSUME Clean', runs' # 0, Primary \notin seedUsers'
              PROVE  KeysOf(SeedRequests(Primary)) \subseteq crawled' \cup KeysOf(Rest("seeder")')
  BY DEF SeedsAsked
<1>1. ASSUME UNCHANGED <<released, runs, seedUsers>>, crawled \subseteq crawled',
             KeysOf(Rest("seeder")) \subseteq crawled' \cup KeysOf(Rest("seeder")')
      PROVE  KeysOf(SeedRequests(Primary)) \subseteq crawled' \cup KeysOf(Rest("seeder")')
  <2>1. Clean
    <3>1. lost \subseteq lost'
      BY LostAndFollowed
    <3>. QED  BY <1>1, <3>1 DEF Clean
  <2>. QED  BY <1>1, <2>1 DEF SeedsAsked
<1>2. ASSUME NEW p \in Callers, RequestUrl(p)
      PROVE  KeysOf(SeedRequests(Primary)) \subseteq crawled' \cup KeysOf(Rest("seeder")')
  BY <1>1, <1>2, RequestUrlMoves, RestStays DEF Callers
<1>3. CASE Seeder_NextUser(Primary)
  <2>1. Rest("seeder")' = SeedRequests(Primary)
    BY <1>3, NextUserMoves DEF Rest
  <2>. QED  BY <2>1
<1>4. CASE Seeder_Start({Primary})
  BY <1>4 DEF Seeder_Start
<1>5. ASSUME UNCHANGED <<crawled, marked, released, runs, seedUsers>>,
             todo'["seeder"] = todo["seeder"]
      PROVE  KeysOf(SeedRequests(Primary)) \subseteq crawled' \cup KeysOf(Rest("seeder")')
  <2>1. Rest("seeder")' = Rest("seeder")
    BY <1>5 DEF Rest
  <2>. QED  BY <1>1, <1>5, <2>1
<1>6. CASE Quiet
  BY <1>5, <1>6 DEF Quiet
<1>7. CASE Engine_Take \/ Engine_Http200 \/ Engine_FanOut
  BY <1>5, <1>7, TakeMoves, AnswerMoves, FanOutMoves DEF Callers
<1>8. CASE Worker_FollowLinks
  BY <1>5, <1>8, LinksMove DEF Callers
<1>9. CASE GoesWrong
  BY <1>9 DEF GoesWrong
<1>. QED  BY <1>2, <1>3, <1>4, <1>6, <1>7, <1>8, <1>9, StepKinds

LEMMA RetryInit == Repeatable /\ Init => RetryInv
<1>. SUFFICES ASSUME Repeatable, Init PROVE RetryInv
  OBVIOUS
<1>1. OursOnly
  BY OursInit
<1>2. Reachable
  BY NoElements, IdleType DEF Init, Reachable, Within, ReleasedKeys, Busy, Callers, Sinks
<1>3. GoesOn /\ SeedsAsked
  BY DEF Init, GoesOn, Live, SeedsAsked
<1>. QED  BY <1>1, <1>2, <1>3 DEF RetryInv

LEMMA RetryNext == TypeInv /\ Repeatable /\ RetryInv /\ [Next]_vars => RetryInv'
<1>. SUFFICES ASSUME TypeInv, Repeatable, RetryInv, [Next]_vars PROVE RetryInv'
  OBVIOUS
<1>1. OursOnly' /\ GoesOn' /\ SeedsAsked'
  BY OursNext, GoesOnNext, SeedsNext DEF RetryInv
<1>2. ASSUME NEW S \in SUBSET Keys, KeysOf(SeedRequests(Primary)) \subseteq S, Closed(S)
      PROVE  Within(S)'
  BY <1>2, WithinNext DEF RetryInv, Reachable
<1>3. Reachable'
  BY <1>2 DEF Reachable
<1>. QED  BY <1>1, <1>3 DEF RetryInv

(* At the end of a clean run the marks are closed under "leads to".        *)
LEMMA RetryHolds == TypeInv /\ RetryInv /\ MarksAccounted => RetriedAfterReauthorization
<1>. SUFFICES ASSUME TypeInv, RetryInv, MarksAccounted, Drained, lost = {},
                     \A r \in released : r.run < runs, NEW r \in released
              PROVE  r.key \in DoneKeys
  BY DEF RetriedAfterReauthorization, ReleasedKeys
<1>1. /\ seedUsers = {} /\ ~Busy /\ requests = <<>> /\ responses["follow_links"] = <<>>
      /\ \A p \in Callers : todo[p] = <<>> /\ ~marked[p] /\ Rest(p) = <<>>
  BY DEF Drained, SeederIdle, TypeInv, CallShape, Rest, Sinks
<1>2. Clean /\ runs # 0
  BY DEF Clean, TypeInv, TypeOK
<1>3. KeysOf(SeedRequests(Primary)) \subseteq crawled
  BY <1>1, <1>2, NoElements DEF RetryInv, SeedsAsked, Callers
<1>4. Closed(crawled)
  <2>. SUFFICES ASSUME NEW m \in Ours, Key(m) \in crawled
                PROVE  NextKeys(m) \cup LinkKeys(m) \subseteq crawled
    BY DEF Closed
  <2>1. Pending(m) \/ Followed(m)
    BY <1>1, <1>2 DEF RetryInv, GoesOn, Live
  <2>2. ~Pending(m)
    BY <1>1, NoElements DEF Pending, Busy, Asking
  <2>. QED  BY <1>1, <2>1, <2>2, NoElements DEF Followed, Callers
<1>5. r.key \in crawled
  <2>1. Within(crawled)
    BY <1>3, <1>4 DEF RetryInv, Reachable, TypeInv, TypeOK
  <2>. QED  BY <2>1 DEF Within, ReleasedKeys
<1>6. InFlight = {} /\ LostKeys = {}
  BY <1>1, NoElements DEF InFlight, LostKeys
<1>. QED  BY <1>5, <1>6 DEF MarksAccounted

(* What was rolled back is fetched by a later run of the seeder in which   *)
(* nothing goes wrong: that run marks the seeds and, of each request it    *)
(* fetches, the next page and the links, so the marks it ends with are     *)
(* closed under "leads to" and hold whatever was ever reached.             *)
THEOREM RolledBackIsRetried ==
  ASSUME Repeatable
  PROVE  Spec => []RetriedAfterReauthorization
<1>1. Init => RetryInv
  BY RetryInit
<1>2. TypeInv /\ RetryInv /\ [Next]_vars => RetryInv'
  BY RetryNext
<1>3. Init => MarksAccounted
  BY DEF Init, MarksAccounted
<1>. QED
  BY <1>1, <1>2, <1>3, RetryHolds, TypeInit, TypeNext, AccountedNext, PTL DEF Spec

-----------------------------------------------------------------------------
(* CrawlPipeline implements KeyLifecycle when no run of the seeder resets  *)
(* the sets: what is under way is marked, in one place only and not done,  *)
(* and what is done is marked.                                             *)

(* A step of KeyLifecycle, or none.                                        *)
LifeStep == [Lifecycle!Next]_<<InFlight, DoneKeys, Stranded>>

(* Requests that end without being fetched become new or stranded.         *)
LEMMA LifeFails ==
  ASSUME DoneKeys' = DoneKeys, InFlight' \subseteq InFlight,
         crawled' \subseteq crawled, crawled \ crawled' \subseteq InFlight
  PROVE  LifeStep
<1>1. Stranded \subseteq Stranded'
  BY DEF Stranded
<1>2. Stranded' \subseteq Stranded \cup (InFlight \ InFlight')
  BY DEF Stranded
<1>. QED  BY <1>1, <1>2 DEF LifeStep, Lifecycle!Next, Lifecycle!Fail

(* A key that is marked and put under way was new.                         *)
LEMMA LifeRequests ==
  ASSUME DedupInv, NEW k, k \notin crawled, crawled' = crawled \cup {k},
         InFlight' = InFlight \cup {k}, DoneKeys' = DoneKeys
  PROVE  LifeStep
<1>1. k \notin InFlight \cup DoneKeys \cup Stranded
  BY DEF DedupInv, InFlightIsFresh, DoneMarked, Stranded
<1>2. Stranded' = Stranded
  BY DEF Stranded
<1>. QED
  BY <1>1, <1>2 DEF LifeStep, Lifecycle!Next, Lifecycle!Request, Lifecycle!Known

(* A key that is fetched and fanned out was under way.                     *)
LEMMA LifeFetches ==
  ASSUME NEW k, k \in InFlight, crawled' = crawled,
         InFlight' = InFlight \ {k}, DoneKeys' = DoneKeys \cup {k}
  PROVE  LifeStep
<1>1. Stranded' = Stranded
  BY DEF Stranded
<1>. QED  BY <1>1 DEF LifeStep, Lifecycle!Next, Lifecycle!Fetch

-----------------------------------------------------------------------------
(* A step that starts nothing, and takes marks only of what is under way.  *)
LEMMA LifeShrinks ==
  ASSUME NEW n \in Nat, Leaves(requests, requests', n),
         \A p \in Callers : marked'[p] => marked[p] /\ Head(todo'[p]) = Head(todo[p]),
         Busy' => Busy /\ engine'.msg = engine.msg,
         done' = done, crawled' \subseteq crawled, crawled \ crawled' \subseteq InFlight
  PROVE  LifeStep
<1>1. KeysOf(requests') \subseteq KeysOf(requests)
  BY DEF KeysOf, Leaves
<1>2. InFlight' \subseteq InFlight
  BY <1>1 DEF InFlight
<1>3. DoneKeys' = DoneKeys
  BY DEF DoneKeys
<1>. QED  BY <1>2, <1>3, LifeFails

LEMMA LifeKept ==
  ASSUME TypeInv, requests' = requests,
         \A p \in Callers : marked'[p] => marked[p] /\ Head(todo'[p]) = Head(todo[p]),
         Busy' => Busy /\ engine'.msg = engine.msg,
         done' = done, crawled' \subseteq crawled, crawled \ crawled' \subseteq InFlight
  PROVE  LifeStep
<1>1. Leaves(requests, requests', 0)
  BY LeavesAll DEF TypeInv
<1>. QED  BY <1>1, LifeShrinks

LEMMA LifeRequestUrl ==
  ASSUME TypeInv, DedupInv, NEW p \in Callers, RequestUrl(p) \/ RequestUrl_Fails(p)
  PROVE  LifeStep
<1>. DEFINE m == Head(todo[p])
<1>1. CASE RequestUrl_Skip(p)
  BY <1>1, LifeKept DEF RequestUrl_Skip, InCall, Busy, TypeInv, TypeOK
<1>2. CASE RequestUrl_Mark(p)
  <2>1. /\ Key(m) \notin crawled /\ crawled' = crawled \cup {Key(m)}
        /\ \A q \in Callers : marked'[q] <=> marked[q] \/ q = p
        /\ UNCHANGED <<requests, todo, engine, done>>
    BY <1>2 DEF RequestUrl_Mark, ShouldRequest, UrlIsNew, TypeInv, TypeOK
  <2>2. InFlight' = InFlight \cup {Key(m)} /\ DoneKeys' = DoneKeys
    BY <2>1 DEF InFlight, Busy, DoneKeys
  <2>. QED  BY <2>1, <2>2, LifeRequests
<1>3. CASE RequestUrl_Publish(p)
  <2>1. /\ marked[p]
        /\ \A q \in Callers : marked'[q] <=> marked[q] /\ q # p
        /\ \A q \in Callers : marked'[q] => todo'[q] = todo[q]
        /\ UNCHANGED <<crawled, engine, done>>
        /\ requests' = Append(requests, m) \/ requests' = requests
    BY <1>3 DEF RequestUrl_Publish, TypeInv, TypeOK
  <2>2. CASE requests' = requests
    BY <2>1, <2>2, LifeKept DEF Busy
  <2>3. CASE requests' = Append(requests, m)
    <3>1. requests \in Seq(Request) /\ m \in Request
      BY <2>1, HeadTailProperties DEF TypeInv, TypeOK, CallShape
    <3>2. /\ Len(requests) \in Nat /\ DOMAIN requests = 1..Len(requests)
          /\ DOMAIN requests' = 1..(Len(requests) + 1)
          /\ \A i \in 1..Len(requests) : requests'[i] = requests[i]
          /\ requests'[Len(requests) + 1] = m
      BY <2>3, <3>1, LenProperties, AppendProperties
    <3>3. KeysOf(requests') = KeysOf(requests) \cup {Key(m)}
      BY <3>2 DEF KeysOf
    <3>4. InFlight' \subseteq InFlight /\ DoneKeys' = DoneKeys
      BY <2>1, <3>3 DEF InFlight, Busy, DoneKeys
    <3>. QED  BY <2>1, <3>4, LifeFails
  <2>. QED  BY <2>1, <2>2, <2>3
<1>4. CASE RequestUrl_Rollback(p)
  <2>1. /\ Key(m) \in InFlight /\ crawled' = crawled \ {Key(m)}
        /\ UNCHANGED <<requests, done>>
        /\ Abandon(p, Tail(todo[p]))
    BY <1>4 DEF RequestUrl_Rollback, Release, InFlight
  <2>2. crawled' \subseteq crawled /\ crawled \ crawled' \subseteq InFlight
    BY <2>1
  <2>. QED  BY <2>1, <2>2, AbandonEnds, LifeKept
<1>5. CASE RequestUrl_NoRedis(p)
  BY <1>5, AbandonEnds, LifeKept DEF RequestUrl_NoRedis
<1>. QED  BY <1>1, <1>2, <1>3, <1>4, <1>5 DEF RequestUrl, RequestUrl_Fails

LEMMA LifeSeeder ==
  ASSUME TypeInv, NoReset, Seeder \/ Seeder_Crash
  PROVE  LifeStep
<1>1. ASSUME NEW scope, Seeder_Start(scope) PROVE LifeStep
  BY <1>1, LifeKept DEF Seeder_Start, NoReset, Busy
<1>2. ASSUME NEW u, Seeder_NextUser(u) PROVE LifeStep
  <2>1. ~marked["seeder"]
    BY <1>2 DEF Seeder_NextUser, TypeInv, CallShape, Callers
  <2>. QED  BY <1>2, <2>1, LifeKept DEF Seeder_NextUser, NoReset, Busy, TypeInv, TypeOK
<1>3. CASE Seeder_Crash
  BY <1>3, LifeKept DEF Seeder_Crash, Busy, TypeInv, TypeOK
<1>. QED  BY <1>1, <1>2, <1>3 DEF Seeder

LEMMA LifeGiveUp ==
  ASSUME TypeInv, Busy, GiveUp
  PROVE  LifeStep
<1>1. /\ crawled' = crawled \ {Key(engine.msg)} /\ engine' = EngineIdle
      /\ UNCHANGED <<requests, todo, marked, done>>
  BY DEF GiveUp, Release
<1>2. ~Busy'
  BY <1>1, IdleType DEF Busy
<1>3. crawled' \subseteq crawled /\ crawled \ crawled' \subseteq InFlight
  BY <1>1 DEF InFlight
<1>. QED  BY <1>1, <1>2, <1>3, LifeKept

LEMMA LifeEngine ==
  ASSUME TypeInv, DedupInv, Engine
  PROVE  LifeStep
<1>1. CASE Engine_Take
  <2>. DEFINE m == Head(requests)
  <2>1. /\ ~Busy /\ Busy' /\ engine'.msg = m
        /\ UNCHANGED <<crawled, todo, marked, done>>
        /\ requests # <<>> /\ requests' = Tail(requests)
    BY <1>1 DEF Engine_Take, Busy, EngineIdle
  <2>2. Leaves(requests, requests', 1) /\ 1 \in DOMAIN requests /\ m = requests[1]
    BY <2>1, TailLeaves DEF TypeInv, TypeOK
  <2>3. KeysOf(requests') \subseteq KeysOf(requests) /\ Key(m) \in KeysOf(requests)
    BY <2>2 DEF KeysOf, Leaves
  <2>4. InFlight' \subseteq InFlight /\ DoneKeys' = DoneKeys
    BY <2>1, <2>3 DEF InFlight, DoneKeys
  <2>. QED  BY <2>1, <2>4, LifeFails
<1>2. ASSUME NEW e, RetryWith(e), engine.pc \in Asking, e.pc \in Asking, e.msg = engine.msg
      PROVE  LifeStep
  BY <1>2, LifeKept DEF RetryWith, Busy, Asking
<1>3. CASE Engine_Http500 \/ Engine_Http429
  <2>1. engine.pc = "get" /\ Busy
    BY <1>3 DEF Engine_Http500, Engine_Http429, Busy
  <2>. DEFINE e5 == [engine EXCEPT !.n500 = @ + 1]
              e4 == [engine EXCEPT !.n429 = @ + 1]
  <2>2. /\ e5.pc = "get" /\ e5.msg = engine.msg
        /\ e4.pc = "get" /\ e4.msg = engine.msg
    BY <2>1 DEF TypeInv, TypeOK
  <2>3. GiveUp \/ RetryWith(e5) \/ RetryWith(e4)
    BY <1>3 DEF Engine_Http500, Engine_Http429
  <2>. QED  BY <1>2, <2>1, <2>2, <2>3, LifeGiveUp DEF Asking
<1>4. CASE Engine_OtherStatus \/ Engine_RefreshFails
  BY <1>4, LifeGiveUp DEF Engine_OtherStatus, Engine_RefreshFails, Busy
<1>5. CASE Engine_Http401 \/ Engine_Refresh
  BY <1>2, <1>5, RefreshRetries
<1>6. CASE Engine_Http200
  <2>1. ~marked["engine"]
    BY <1>6 DEF Engine_Http200, TypeInv, CallShape, Callers
  <2>2. Busy /\ engine'.msg = engine.msg
    BY <1>6 DEF Engine_Http200, Busy, TypeInv, TypeOK
  <2>. QED  BY <1>6, <2>1, <2>2, LifeKept DEF Engine_Http200, TypeInv, TypeOK
<1>7. CASE Engine_FanOut
  <2>1. Busy /\ UNCHANGED <<crawled, requests, todo, marked>>
    BY <1>7 DEF Engine_FanOut, Busy
  <2>2. CASE engine' = [engine EXCEPT !.fan = @ + 1] /\ done' = done
    <3>1. engine'.msg = engine.msg
      BY <2>2 DEF TypeInv, TypeOK
    <3>. QED  BY <2>1, <2>2, <3>1, LifeKept
  <2>3. CASE engine' = EngineIdle /\ done' = done \cup {[req |-> engine.msg, user |-> engine.user]}
    <3>1. ~Busy' /\ DoneKeys' = DoneKeys \cup {Key(engine.msg)}
      <4>. DEFINE now == [req |-> engine.msg, user |-> engine.user]
      <4>1. ~Busy' /\ now.req = engine.msg /\ done' = done \cup {now}
        BY <2>3, IdleType DEF Busy
      <4>. HIDE DEF now
      <4>. QED  BY <4>1 DEF DoneKeys
    <3>2. Key(engine.msg) \in InFlight /\ InFlight' = InFlight \ {Key(engine.msg)}
      BY <2>1, <3>1 DEF InFlight, DedupInv, NoDuplicateInFlight
    <3>. QED  BY <2>1, <3>1, <3>2, LifeFetches
  <2>. QED  BY <1>7, <2>2, <2>3 DEF Engine_FanOut
<1>. QED  BY <1>1, <1>3, <1>4, <1>5, <1>6, <1>7 DEF Engine, Engine_Answer

(* The workers, the crashes and the environment start nothing.             *)
LEMMA LifeOthers ==
  ASSUME TypeInv,
         \/ \E s \in Stores : Worker_Store(s) \/ Worker_Exception(s)
         \/ Worker_FollowLinks
         \/ \E q \in Queues : Consumer_Bind(q)
         \/ Tokens
         \/ Engine_Exception \/ FollowLinks_Exception
         \/ \E n \in 0..Len(requests) : Engine_Crash(n)
         \/ \E s \in Sinks : \E n \in 0..Len(responses[s]) : Worker_Crash(s, n)
         \/ Broker_Restart
  PROVE  LifeStep
<1>1. ASSUME UNCHANGED <<crawled, requests, todo, marked, engine, done>>
      PROVE  LifeStep
  BY <1>1, LifeKept DEF Busy
<1>2. CASE \/ \E s \in Stores : Worker_Store(s) \/ Worker_Exception(s)
           \/ \E q \in Queues : Consumer_Bind(q)
           \/ Broker_Restart
  BY <1>1, <1>2 DEF Worker_Store, Worker_Exception, Consumer_Bind, Broker_Restart
<1>3. CASE Tokens
  BY <1>1, <1>3 DEF Tokens, Grant_Expire, Grant_Revoke, Grant_Login, Grant_Forget, Grant_Set
<1>4. CASE Worker_FollowLinks
  <2>1. ~marked["follow_links"]
    BY <1>4 DEF Worker_FollowLinks, TypeInv, CallShape, Callers
  <2>. QED  BY <1>4, <2>1, LifeKept DEF Worker_FollowLinks, Busy, TypeInv, TypeOK
<1>5. CASE Engine_Exception \/ FollowLinks_Exception
  BY <1>5, AbandonEnds, LifeKept DEF Engine_Exception, FollowLinks_Exception, Callers
<1>6. ASSUME NEW n \in 0..Len(requests), Engine_Crash(n) PROVE LifeStep
  <2>1. Leaves(requests, requests', n) /\ n \in Nat
    BY <1>6, AfterFirstLeaves, LenProperties DEF Engine_Crash, TypeInv, TypeOK
  <2>2. /\ ~Busy' /\ UNCHANGED <<crawled, done>>
        /\ \A p \in Callers : marked'[p] => marked[p] /\ Head(todo'[p]) = Head(todo[p])
    BY <1>6, IdleType DEF Engine_Crash, Busy, TypeInv, TypeOK
  <2>. QED  BY <2>1, <2>2, LifeShrinks
<1>7. ASSUME NEW s \in Sinks, NEW n, Worker_Crash(s, n) PROVE LifeStep
  BY <1>7, LifeKept DEF Worker_Crash, Busy, TypeInv, TypeOK
<1>. QED  BY <1>2, <1>3, <1>4, <1>5, <1>6, <1>7

LEMMA LifeNext == TypeInv /\ DedupInv /\ NoReset /\ [Next]_vars => LifeStep
<1>. SUFFICES ASSUME TypeInv, DedupInv, NoReset, [Next]_vars PROVE LifeStep
  OBVIOUS
<1>1. CASE UNCHANGED vars
  BY <1>1, LifeKept DEF vars, Busy
<1>2. CASE Next
  BY <1>2, LifeRequestUrl, LifeSeeder, LifeEngine, LifeOthers DEF Next, Failures
<1>. QED  BY <1>1, <1>2

LEMMA LifeInit == Init => Lifecycle!Init
<1>. SUFFICES ASSUME Init PROVE Lifecycle!Init
  OBVIOUS
<1>1. /\ DOMAIN requests = {} /\ done = {} /\ crawled = {} /\ ~Busy
      /\ \A p \in Callers : ~marked[p]
  BY IdleType DEF Init, Busy
<1>2. InFlight = {} /\ DoneKeys = {} /\ Stranded = {}
  BY <1>1 DEF InFlight, DoneKeys, KeysOf, Stranded
<1>. QED  BY <1>2 DEF Lifecycle!Init

(* Without resets, every key lives as KeyLifecycle says, whichever of the  *)
(* three callers of request_url moves it and whatever fails: it is         *)
(* requested while new, and what is fetched or stranded stays so.          *)
THEOREM LifecycleImplemented ==
  ASSUME NoReset
  PROVE  Spec => KeysLiveOnce
<1>1. TypeInv /\ DedupInv /\ [Next]_vars => DedupInv'
  BY DedupNext
<1>2. TypeInv /\ DedupInv /\ [Next]_vars => [Lifecycle!Next]_<<InFlight, DoneKeys, Stranded>>
  BY LifeNext DEF LifeStep
<1>. QED
  BY <1>1, <1>2, TypeInit, TypeNext, DedupInit, LifeInit, PTL
     DEF Spec, KeysLiveOnce, Lifecycle!Spec
=============================================================================
