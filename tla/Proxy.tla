------------------------------ MODULE Proxy ------------------------------
(***************************************************************************)
(* The request handlers of proxy.cpp.  Every accepted connection has a     *)
(* thread of its own that handles one request: process_request and what it *)
(* calls.  The threads share the response cache, module Cache, whose steps *)
(* interleave with the handlers' own, and talk to origin servers that      *)
(* change their resources, answer late, or do not answer.                  *)
(*                                                                         *)
(* A response is abstracted to what the handlers decide by: the resource,  *)
(* the version of its content, the Date header, the time the proxy         *)
(* received it and the lifetime its headers give it.                       *)
(***************************************************************************)
EXTENDS Integers, Sequences

CONSTANTS
  Threads, Keys, Nodes, head, tail, Capacity, NULL, Dangling, \* as in Cache
  Requests,   \* requests clients send: [method, uri, noCache, noStore, slack]
  Reading,    \* those of clients that read what they are sent
  Kinds,      \* kinds of answers origins give
  Lifetimes,  \* freshness lifetimes: numbers, Never or Bad
  Answering,  \* the URIs whose origin always answers in the end
  MaxClock,   \* bound: time passes no further
  MaxVersion  \* bound: number of versions a resource goes through

Clock == 0 .. MaxClock
Versions == 1 .. MaxVersion

\* No explicit lifetime, or no-cache; a lifetime that std::stol throws on.
Never == -1
Bad == -2

Response ==
  [key : Keys, ver : Versions, date : Clock, rtime : Clock, life : Lifetimes]

\* What origins answer: 200 and cacheable, 200 and not to be stored, chunked,
\* 304, another status, and a message the parser does not accept (recv has
\* returned only a part of it, for one).
AllKinds == {"ok", "private", "chunked", "notmodified", "error", "garbled"}

ASSUME RequestsAssumption ==
  Requests \subseteq [method : {"GET", "POST", "CONNECT"}, uri : Keys,
                      noCache : BOOLEAN, noStore : BOOLEAN, slack : Int]
ASSUME KindsAssumption == Kinds \subseteq AllKinds
ASSUME LifetimesAssumption == Lifetimes \subseteq Nat \cup {Never, Bad}
ASSUME AnsweringAssumption == Answering \subseteq Keys /\ Reading \subseteq Requests
ASSUME BoundsAssumption == MaxClock \in Nat /\ MaxVersion \in Nat \ {0}
ASSUME CacheAssumption == \* those of module Cache
  /\ Capacity \in Nat
  /\ head # tail /\ {head, tail} \cap Nodes = {}
  /\ NULL # Dangling /\ {NULL, Dangling} \cap (Nodes \cup {head, tail}) = {}
ASSUME NullAssumption ==
  NULL \notin Threads \cup Requests \cup Response \cup [kind : Kinds, resp : Response]

VARIABLES
  response_map, buckets, size, list, live, key, value, mtx, pc, uri, arg, ref, fault,
  older,  \* the cache
  clock,  \* time(0), and the clock of the origins
  since,  \* for each URI, when each of its versions became the current one
  stage,  \* where each thread is in its handler
  req,    \* the request each thread handles
  cond,   \* the version a conditional request under way names, or 0
  in,     \* the answer an origin has sent to each thread, until it is used
  reply,  \* the response sent to each client, until the handler returns
  floor   \* history: the reply may not have been outdated before this time

C == INSTANCE Cache WITH Responses <- Response, AllocFails <- FALSE

cacheVars == <<response_map, buckets, size, list, live, key, value, mtx, pc,
               uri, arg, ref, fault, older>>
handlerVars == <<stage, req, cond, in, reply, floor>>
vars == <<cacheVars, clock, since, handlerVars>>

Stages ==
  {"recv", "lookup", "decide", "connect", "await", "freshen", "stamp",
   "serve", "reply", "relay", "tunnel", "log"}

Current(k) == Len(since[k])

\* The thread is in validation(), with the pointer get_response returned.
Validating(t) == pc[t] = "holding"

---------------------------------------------------------------------------
(* Freshness *)

Largest(a, b) == IF a > b THEN a ELSE b

BugCalculateAge(r) == clock - r.rtime

calculate_age(r) == Largest(0, r.rtime - r.date) + clock - r.rtime

is_fresh(r, q) == r.life \in Nat /\ r.life + q.slack > calculate_age(r)

---------------------------------------------------------------------------
Init ==
  /\ C!Init
  /\ clock = 0
  /\ since = [k \in Keys |-> <<0>>]
  /\ stage = [t \in Threads |-> "recv"]
  /\ req = [t \in Threads |-> NULL]
  /\ cond = [t \in Threads |-> 0]
  /\ in = [t \in Threads |-> NULL]
  /\ reply = [t \in Threads |-> NULL]
  /\ floor = [t \in Threads |-> 0]

(* The environment *)

Tick ==
  /\ clock < MaxClock
  /\ clock' = clock + 1
  /\ UNCHANGED <<cacheVars, since, handlerVars>>

\* The resource changes at its origin.
OriginUpdate(k) ==
  /\ Current(k) < MaxVersion
  /\ since' = [since EXCEPT ![k] = Append(@, clock)]
  /\ UNCHANGED <<cacheVars, clock, handlerVars>>

\* The origin answers with the current version; it answers 304 only to a
\* conditional request that names this version.  (Lifetimes matter where they
\* can come into the cache.)
OriginAnswer(t) ==
  /\ stage[t] = "await"
  /\ in[t] = NULL
  /\ \E kind \in Kinds, life \in Lifetimes :
       /\ kind = "notmodified" => cond[t] = Current(req[t].uri)
       /\ kind \in {"error", "garbled"} => life = CHOOSE l \in Lifetimes : TRUE
       /\ in' = [in EXCEPT ![t] =
                   [kind |-> kind,
                    resp |-> [key |-> req[t].uri, ver |-> Current(req[t].uri),
                              date |-> clock, rtime |-> 0, life |-> life]]]
  /\ cond' = [cond EXCEPT ![t] = 0]
  /\ UNCHANGED <<cacheVars, clock, since, stage, req, reply, floor>>

---------------------------------------------------------------------------
(* How a handler moves *)

Go(t, from, to) == stage[t] = from /\ stage' = [stage EXCEPT ![t] = to]

\* The handler returns: its variables are gone, and with them the pointer it
\* may have got from the cache.  In its place a new one may start.
Return(t) ==
  /\ stage' = [stage EXCEPT ![t] = "recv"]
  /\ req' = [req EXCEPT ![t] = NULL]
  /\ cond' = [cond EXCEPT ![t] = 0]
  /\ in' = [in EXCEPT ![t] = NULL]
  /\ reply' = [reply EXCEPT ![t] = NULL]
  /\ floor' = [floor EXCEPT ![t] = 0]
  /\ IF Validating(t) THEN C!Release(t) ELSE UNCHANGED cacheVars
  /\ UNCHANGED <<clock, since>>

\* An exception reaches process_request, which logs it and returns.
Throw(t) == Return(t)

\* The handler reads the response it found in the cache after that has gone.
Deleted(t, at) ==
  /\ stage[t] = at
  /\ C!UseDeleted(t)
  /\ UNCHANGED <<clock, since, handlerVars>>

---------------------------------------------------------------------------
(* process_request *)

\* recv, parse, dispatch on the method.
ReceiveRequest(t, q) ==
  /\ Go(t, "recv", IF q.method = "GET" THEN "lookup" ELSE "connect")
  /\ req' = [req EXCEPT ![t] = q]
  /\ floor' = [floor EXCEPT ![t] = clock]
  /\ UNCHANGED <<cacheVars, clock, since, cond, in, reply>>

\* The connection closes without a request, the request does not parse, or
\* its method is not supported.
RejectRequest(t) ==
  /\ stage[t] = "recv"
  /\ Throw(t)

---------------------------------------------------------------------------
(* http_get *)

GetMiss(t) ==
  /\ Go(t, "lookup", "connect")
  /\ C!GetMiss(t, req[t].uri)
  /\ UNCHANGED <<clock, since, req, cond, in, reply, floor>>

GetHit(t) ==
  /\ Go(t, "lookup", "decide")
  /\ C!GetFind(t, req[t].uri)
  /\ UNCHANGED <<clock, since, req, cond, in, reply, floor>>

GetRace(t) ==
  /\ stage[t] = "lookup"
  /\ C!GetRace(t)
  /\ UNCHANGED <<clock, since, handlerVars>>

\* The steps of a cache call that has begun.
InCache(t) ==
  /\ stage[t] \in {"decide", "reply"}
  /\ C!GetStep(t) \/ C!AddStep(t)
  /\ UNCHANGED <<clock, since, handlerVars>>

\* "in cache, requires validation".
NeedValidation(t) ==
  /\ Go(t, "decide", "connect")
  /\ C!UseResponse(t)
  /\ LET r == value[ref[t]]
     IN  r.life # Bad /\ (~is_fresh(r, req[t]) \/ req[t].noCache)
  /\ UNCHANGED <<clock, since, req, cond, in, reply, floor>>

\* "in cache, valid".
Valid(t) ==
  /\ Go(t, "decide", "serve")
  /\ C!UseResponse(t)
  /\ LET r == value[ref[t]]
     IN  /\ is_fresh(r, req[t]) /\ ~req[t].noCache
         /\ floor' = [floor EXCEPT ![t] = clock - (r.life + req[t].slack) + 1]
  /\ UNCHANGED <<clock, since, req, cond, in, reply>>

\* The lifetime of the cached response cannot be computed.
DecideThrows(t) ==
  /\ stage[t] = "decide"
  /\ pc[t] = "holding" /\ ref[t] # Dangling
  /\ value[ref[t]].life = Bad
  /\ Throw(t)

\* send_response_in_cache: the response is read again, and sent.  Here and
\* below, a handler in "log" is in send_to until it goes on, which it need
\* never do if its client does not read.
Serve(t) ==
  /\ Go(t, "serve", "log")
  /\ C!UseResponse(t)
  /\ reply' = [reply EXCEPT ![t] = value[ref[t]]]
  /\ UNCHANGED <<clock, since, req, cond, in, floor>>

\* log_respond_to_clinet, which reads the response once more; the end.
LogResponding(t) ==
  /\ stage[t] = "log"
  /\ Validating(t) => ref[t] # Dangling
  /\ Return(t)

---------------------------------------------------------------------------
(* connect_to_server, one_round_trip *)

\* No Host header, no such host, connection refused, or a broken connection.
ConnectionFails(t) ==
  /\ stage[t] \in {"connect", "await", "relay", "reply"}
  /\ pc[t] \in {"idle", "holding"}
  /\ Throw(t)

\* The connection is made and the request sent: as it came, or the
\* conditional one, built only now from the response found in the cache.
SendRequest(t) ==
  /\ Go(t, "connect", "await")
  /\ req[t].method # "CONNECT"
  /\ IF Validating(t)
     THEN /\ C!UseResponse(t)
          /\ cond' = [cond EXCEPT ![t] = value[ref[t]].ver]
     ELSE UNCHANGED <<cacheVars, cond>>
  /\ UNCHANGED <<clock, since, req, in, reply, floor>>

OpenTunnel(t) ==
  /\ Go(t, "connect", "tunnel")
  /\ req[t].method = "CONNECT"
  /\ UNCHANGED <<cacheVars, clock, since, req, cond, in, reply, floor>>

\* An answer that does not parse, of which nothing is passed on.
GarbledAnswer(t) ==
  /\ stage[t] = "await" /\ in[t] # NULL
  /\ in[t].kind = "garbled" /\ req[t].method = "GET"
  /\ Throw(t)

---------------------------------------------------------------------------
(* get_from_server, after the round trip *)

Fetched(t) == req[t].method = "GET" /\ ~Validating(t) /\ in[t] # NULL

response_may_store(a) == a.kind = "ok"

MayStore(t) == response_may_store(in[t]) /\ ~req[t].noStore

FetchChunked(t) ==
  /\ Go(t, "await", "relay")
  /\ Fetched(t) /\ in[t].kind = "chunked"
  /\ reply' = [reply EXCEPT ![t] = in[t].resp]
  /\ UNCHANGED <<cacheVars, clock, since, req, cond, in, floor>>

\* The expiry time is computed for the log before the response is stored.
ExpiryThrows(t) ==
  /\ stage[t] = "await"
  /\ Fetched(t) /\ MayStore(t) /\ in[t].resp.life = Bad
  /\ Throw(t)

FetchStore(t) ==
  /\ Go(t, "await", "reply")
  /\ Fetched(t) /\ MayStore(t) /\ in[t].resp.life # Bad
  /\ C!AddCall(t, req[t].uri, [in[t].resp EXCEPT !.rtime = clock])
  /\ UNCHANGED <<clock, since, req, cond, in, reply, floor>>

FetchNoStore(t) ==
  /\ Go(t, "await", "reply")
  /\ Fetched(t) /\ in[t].kind \notin {"chunked", "garbled"} /\ ~MayStore(t)
  /\ UNCHANGED <<cacheVars, clock, since, req, cond, in, reply, floor>>

SendReply(t) ==
  /\ Go(t, "reply", "log")
  /\ pc[t] = "idle"
  /\ reply' = [reply EXCEPT ![t] = in[t].resp]
  /\ in' = [in EXCEPT ![t] = NULL]
  /\ UNCHANGED <<cacheVars, clock, since, req, cond, floor>>

\* chunked_transfer, until the server closes the connection.
RelayEnds(t) ==
  /\ stage[t] = "relay"
  /\ Return(t)

---------------------------------------------------------------------------
(* validation, after the round trip *)

Validated(t) == Validating(t) /\ in[t] # NULL

BugNotModified(t) ==
  /\ Go(t, "await", "freshen")
  /\ Validated(t) /\ in[t].kind \notin {"garbled", "error"}
  /\ UNCHANGED <<cacheVars, clock, since, req, cond, in, reply, floor>>

NotModified(t) ==
  /\ Go(t, "await", "freshen")
  /\ Validated(t) /\ in[t].kind = "notmodified"
  /\ UNCHANGED <<cacheVars, clock, since, req, cond, in, reply, floor>>

\* freshen_headers overwrites the headers in place ...
Freshen(t) ==
  /\ Go(t, "freshen", "stamp")
  /\ ref[t] # Dangling
  /\ C!Freshen(t, [value[ref[t]] EXCEPT !.date = in[t].resp.date,
                                        !.life = in[t].resp.life])
  /\ UNCHANGED <<clock, since, req, cond, in, reply, floor>>

\* ... and the time of the response is set after that.
Stamp(t) ==
  /\ Go(t, "stamp", "serve")
  /\ ref[t] # Dangling
  /\ C!Freshen(t, [value[ref[t]] EXCEPT !.rtime = clock])
  /\ in' = [in EXCEPT ![t] = NULL]
  /\ UNCHANGED <<clock, since, req, cond, reply, floor>>

\* Another thread reads, or writes, the headers that this one is writing.
FreshenRace(t) ==
  /\ stage[t] = "freshen"
  /\ \E u \in Threads \ {t} :
       /\ ref[u] = ref[t] /\ ref[t] # Dangling /\ Validating(u)
       /\ stage[u] \in {"decide", "connect", "serve", "freshen", "log"}
  /\ C!Fail("race")
  /\ UNCHANGED <<clock, since, handlerVars>>

\* 200: the new response replaces the old one, whatever its headers allow.
Modified(t) ==
  /\ Go(t, "await", "reply")
  /\ Validated(t) /\ in[t].kind \in {"ok", "private", "chunked"}
  /\ C!AddCall(t, req[t].uri, [in[t].resp EXCEPT !.rtime = clock])
  /\ UNCHANGED <<clock, since, req, cond, in, reply, floor>>

\* Any other status is passed on.
ServerError(t) ==
  /\ Go(t, "await", "reply")
  /\ Validated(t) /\ in[t].kind = "error"
  /\ C!Release(t)
  /\ UNCHANGED <<clock, since, req, cond, in, reply, floor>>

---------------------------------------------------------------------------
(* http_post: the answer is sent before it is parsed *)

PostReply(t) ==
  /\ Go(t, "await", "log")
  /\ req[t].method = "POST" /\ in[t] # NULL
  /\ reply' = [reply EXCEPT ![t] = in[t].resp]
  /\ UNCHANGED <<cacheVars, clock, since, req, cond, in, floor>>

PostGarbled(t) ==
  /\ stage[t] = "log"
  /\ req[t].method = "POST" /\ in[t].kind = "garbled"
  /\ Throw(t)

(* http_connect: see module Tunnel for the forwarding of messages *)

TunnelCloses(t) ==
  /\ stage[t] = "tunnel"
  /\ Return(t)

---------------------------------------------------------------------------
\* Steps that a handler takes by itself.
Handle(t) ==
  \/ GetMiss(t) \/ GetHit(t) \/ InCache(t)
  \/ NeedValidation(t) \/ Valid(t) \/ DecideThrows(t)
  \/ \E at \in {"decide", "freshen", "stamp", "serve"} : Deleted(t, at)
  \/ Serve(t) \/ GarbledAnswer(t)
  \/ FetchChunked(t) \/ ExpiryThrows(t) \/ FetchStore(t) \/ FetchNoStore(t)
  \/ SendReply(t)
  \/ NotModified(t) \/ Freshen(t) \/ Stamp(t) \/ Modified(t) \/ ServerError(t)
  \/ PostReply(t)

\* Steps after connect and send to a server have returned.
Connected(t) == SendRequest(t) \/ Deleted(t, "connect")

\* Steps after send_to has returned, because the client has read.
Sent(t) == LogResponding(t) \/ PostGarbled(t) \/ Deleted(t, "log")

\* Other steps that wait for a client or a server, accidents, and races.
Happen(t) ==
  \/ RejectRequest(t) \/ ConnectionFails(t)
  \/ \E q \in Requests : ReceiveRequest(t, q)
  \/ OriginAnswer(t) \/ RelayEnds(t) \/ OpenTunnel(t) \/ TunnelCloses(t)
  \/ GetRace(t) \/ FreshenRace(t)

Undefined == fault # "none" /\ UNCHANGED vars

Next ==
  \/ /\ fault = "none"
     /\ \/ Tick
        \/ \E k \in Keys : OriginUpdate(k)
        \/ \E t \in Threads :
             Handle(t) \/ Connected(t) \/ Sent(t) \/ Happen(t)
  \/ Undefined

Spec == Init /\ [][Next]_vars

\* The steps of a handler that are taken in the end if they can be: its own,
\* those of a peer known to take part, and those that wait for such a peer.
\* Origins of the URIs in Answering accept connections and requests, answer,
\* and end chunked answers; clients of the requests in Reading read.  Other
\* origins and clients, and tunnels, need never do anything: connect, recv and
\* send_to block for as long as they like.
GoesOn(t) ==
  \/ Handle(t)
  \/ (Connected(t) \/ OriginAnswer(t)) /\ req[t].uri \in Answering
  \/ Sent(t) /\ req[t] \in Reading
  \/ RelayEnds(t) /\ req[t].uri \in Answering /\ req[t] \in Reading

\* The scheduler runs every thread that can go on, and a thread that finds the
\* mutex free again and again gets it in the end, however many requests come.
\* (No two disjuncts of GoesOn are enabled in one stage.)
FairSpec ==
  /\ Spec
  /\ \A t \in Threads : /\ WF_vars(fault = "none" /\ GoesOn(t))
                        /\ SF_vars(fault = "none" /\ InCache(t))
---------------------------------------------------------------------------
(* Properties *)

TypeOK ==
  /\ clock \in Clock
  /\ \A k \in Keys : Current(k) \in Versions
  /\ stage \in [Threads -> Stages]
  /\ \A t \in Threads :
       /\ req[t] \in Requests \cup {NULL}
       /\ cond[t] \in Versions \cup {0}
       /\ reply[t] \in Response \cup {NULL}
       /\ in[t] # NULL => in[t].kind \in Kinds /\ in[t].resp \in Response

\* A handler is inside a call of the cache only at the two places that call
\* it, so no thread holds the cache's mutex while it waits for the network.
CallsNested ==
  \A t \in Threads :
    /\ pc[t] \notin {"idle", "holding"} => stage[t] \in {"decide", "reply"}
    /\ stage[t] \in {"freshen", "stamp", "serve"} => Validating(t)

\* Version v of the resource at k was current at time c or later.
CurrentSince(k, v, c) == v < Current(k) => since[k][v + 1] >= c

(***************************************************************************)
(* Every entry is filed under the URI it answers, and its version was      *)
(* still current at the origin at the time its Date header gives, also     *)
(* after other requests have freshened it through pointers they got before *)
(* a round trip (proxy.cpp:326-337).                                       *)
(***************************************************************************)
EntriesConfirmed ==
  \A k \in C!InMap :
    LET r == value[response_map[k]]
    IN  r.key = k /\ CurrentSince(k, r.ver, r.date)

Inv == TypeOK /\ CallsNested /\ EntriesConfirmed

(***************************************************************************)
(* A client gets the resource it asked for, and not an outdated version of *)
(* it: what was fetched or validated was current at some time after the    *)
(* client connected, what was taken from the cache was so no longer ago    *)
(* than its lifetime, plus what the client's max-stale adds, allows        *)
(* (proxy.cpp:88-112, 156-197, 309-346, 401-530).                          *)
(***************************************************************************)
ReplyNotStale ==
  \A t \in Threads :
    reply[t] # NULL =>
      /\ reply[t].key = req[t].uri
      /\ CurrentSince(reply[t].key, reply[t].ver, floor[t])

(***************************************************************************)
(* A handler whose origin answers and whose client reads comes to its end, *)
(* whatever other clients and origins do or do not do: handlers wait for   *)
(* each other only for the cache's mutex, and that is always released, by  *)
(* a handler that then waits for its own client for ever, too              *)
(* (proxy.cpp:42-83, 573-602).                                             *)
(***************************************************************************)
EveryRequestEnds ==
  \A t \in Threads :
    (/\ stage[t] # "recv" /\ req[t] \in Reading
     /\ req[t].method # "CONNECT" /\ req[t].uri \in Answering)
      ~> (stage[t] = "recv" \/ fault # "none")

(***************************************************************************)
(* testcases.txt cases 5 and 6 say of no-store and private responses that  *)
(* they are "not cacheable", as the comment at proxy.cpp:241 says of what  *)
(* response_may_store rejects; nor is a response the client said no-store  *)
(* of (proxy.cpp:297).                                                     *)
(***************************************************************************)
OnlyStorableStored ==
  \A t \in Threads : pc[t] \in C!InAdd \cup {"add_lock"} => MayStore(t)

(***************************************************************************)
(* proxy.cpp:350 says of the response that freshen_headers changes:        *)
(* "the response in cache".                                                *)
(***************************************************************************)
FreshensCachedResponse ==
  \A t \in Threads :
    stage[t] = "freshen" =>
      response_map[req[t].uri] # NULL /\ ref[t] = response_map[req[t].uri]
===========================================================================
