------------------------------ MODULE Server ------------------------------
(***************************************************************************)
(* The process: the listening socket main asks for, the accept loop, a     *)
(* detached thread per connection, and the table of file descriptors they  *)
(* all share with the log (main.cpp, proxy::start, process_request and the *)
(* socket calls below it).                                                 *)
(*                                                                         *)
(* The kernel gives out the lowest free number, so a number one thread     *)
(* closes may at once be another thread's.  What handlers decide and send  *)
(* is left to module Proxy; here each path of a handler is a sequence of   *)
(* socket calls, log lines, calls of the cache, waits for a peer, and      *)
(* closes.  An exception closes what guard objects own, is caught in       *)
(* process_request, and is logged there.                                   *)
(*                                                                         *)
(* A call of the cache is one step, as nothing waits inside of it (module  *)
(* Cache has the steps); what matters here is that its mutex stays locked  *)
(* for good when operator new throws between lock and unlock.              *)
(***************************************************************************)
EXTENDS Naturals

CONSTANTS
  Handlers,       \* the connection threads the system allows at a time
  Main,           \* the thread that accepts connections
  MaxDescriptors, \* the limit on open files, standard streams left out
  MaxAddresses,   \* how many addresses getaddrinfo gives for the listener
  Backlog,        \* bound: connections that wait to be accepted
  AllocFails,     \* whether operator new may throw
  NULL            \* no descriptor, no thread

Threads == Handlers \cup {Main}
Descriptors == 1 .. MaxDescriptors

ASSUME MaxAssumption ==
  MaxDescriptors \in Nat /\ MaxAddresses \in Nat /\ Backlog \in Nat
ASSUME AllocFailsAssumption == AllocFails \in BOOLEAN
ASSUME DistinctAssumption ==
  /\ Main \notin Handlers
  /\ NULL \notin Threads \cup Descriptors

VARIABLES
  mtx, at, log_f, \* the log
  cache_mtx, \* the cache's mutex: "free", or left "locked" by an exception
  file,      \* what each descriptor refers to
  listener,  \* main's descriptor of the listening socket
  new_fd,    \* the connection just accepted
  main,      \* where the main thread is
  addresses, \* addresses not yet tried for the listener, until there is one
  pending,   \* connections that wait to be accepted
  stage,     \* where each handler is
  method,    \* of the request it handles, while that needs a server
  client_fd, \* its connection to the client
  server_fd  \* its connection to the server

L == INSTANCE Log

logVars == <<mtx, at, log_f>>
mainVars == <<listener, new_fd, main, addresses, pending>>
handlerVars == <<stage, method, client_fd, server_fd>>
vars == <<logVars, cache_mtx, file, mainVars, handlerVars>>

Files == {"free", "listener", "client", "server", "log"}
Methods == {"GET", "POST", "CONNECT"}
MainStages == {"socket", "accept", "spawn", "exited", "terminated"}
Stages ==
  {"idle", "recv", "dispatch", "lookup", "connect", "request", "remote",
   "relay", "tunnel", "tunnelled", "store", "add", "replace", "note",
   "reply", "send", "close", "unwind", "caught"}

Full == \A d \in Descriptors : file[d] # "free"

\* Descriptor d is the one the kernel gives out next.
Lowest(d) ==
  file[d] = "free" /\ \A e \in Descriptors : file[e] = "free" => d <= e

\* All calls that take a descriptor, and all that give it back.
Take(d, kind) == Lowest(d) /\ file' = [file EXCEPT ![d] = kind]
BackTo(f, d) == IF d = NULL THEN f ELSE [f EXCEPT ![d] = "free"]

Init ==
  /\ L!Init
  /\ cache_mtx = "free"
  /\ file = [d \in Descriptors |-> "free"]
  /\ listener = NULL
  /\ new_fd = NULL
  /\ main = "socket"
  /\ addresses = MaxAddresses
  /\ pending = 0
  /\ stage = [t \in Handlers |-> "idle"]
  /\ method = [t \in Handlers |-> NULL]
  /\ client_fd = [t \in Handlers |-> NULL]
  /\ server_fd = [t \in Handlers |-> NULL]

---------------------------------------------------------------------------
(* main: create_tcp_listener_fd *)

\* The process ends, by returning from main or by std::terminate: the kernel
\* closes all its descriptors.
Exit(how) ==
  /\ main' = how
  /\ cache_mtx' = "free"
  /\ file' = [d \in Descriptors |-> "free"]
  /\ listener' = NULL
  /\ new_fd' = NULL
  /\ addresses' = 0
  /\ pending' = 0
  /\ stage' = [t \in Handlers |-> "idle"]
  /\ method' = [t \in Handlers |-> NULL]
  /\ client_fd' = [t \in Handlers |-> NULL]
  /\ server_fd' = [t \in Handlers |-> NULL]
  /\ mtx' = NULL
  /\ at' = [t \in Threads |-> "idle"]
  /\ log_f' = [t \in Threads |-> NULL]

\* socket and bind succeed, listen follows.
Listen ==
  /\ main = "socket" /\ addresses > 0
  /\ \E d \in Descriptors : Take(d, "listener") /\ listener' = d
  /\ main' = "accept"
  /\ addresses' = 0
  /\ UNCHANGED <<logVars, cache_mtx, new_fd, pending, handlerVars>>

\* bind fails, and the next address is tried: the socket stays open.
BindFails ==
  /\ main = "socket" /\ addresses > 0
  /\ \E d \in Descriptors : Take(d, "listener")
  /\ addresses' = addresses - 1
  /\ UNCHANGED <<logVars, cache_mtx, listener, new_fd, main, pending, handlerVars>>

\* No address, no descriptor, or listen fails: EXIT_FAILURE.
StartFails ==
  /\ main = "socket"
  /\ Exit("exited")

---------------------------------------------------------------------------
(* proxy::start *)

MainReady == main = "accept" /\ at[Main] \in {"idle", "threw"}

\* A client connects.
ClientConnects ==
  /\ main \in {"accept", "spawn"}
  /\ pending < Backlog
  /\ pending' = pending + 1
  /\ UNCHANGED <<logVars, cache_mtx, file, listener, new_fd, main, addresses, handlerVars>>

Accept ==
  /\ MainReady
  /\ pending > 0
  /\ \E d \in Descriptors : Take(d, "client") /\ new_fd' = d
  /\ pending' = pending - 1
  /\ main' = "spawn"
  /\ UNCHANGED <<logVars, cache_mtx, listener, addresses, handlerVars>>

\* accept returns -1: at once if no descriptor is free, whether or not a
\* connection waits; or because the client has gone.
AcceptFails ==
  /\ MainReady
  /\ \/ Full /\ UNCHANGED pending
     \/ ~Full /\ pending > 0 /\ pending' = pending - 1
  /\ L!Call(Main)
  /\ UNCHANGED <<cache_mtx, file, listener, new_fd, main, addresses, handlerVars>>

BugSpawn(t) ==
  /\ main = "spawn"
  /\ stage[t] = "idle"
  /\ stage' = [stage EXCEPT ![t] = "recv"]
  /\ client_fd' = [client_fd EXCEPT ![t] = new_fd]
  /\ main' = "accept"
  /\ UNCHANGED <<logVars, cache_mtx, file, listener, new_fd, addresses, pending, method,
                 server_fd>>

Spawn(t) ==
  /\ main = "spawn"
  /\ stage[t] = "idle"
  /\ stage' = [stage EXCEPT ![t] = "recv"]
  /\ client_fd' = [client_fd EXCEPT ![t] = new_fd]
  /\ new_fd' = NULL
  /\ main' = "accept"
  /\ UNCHANGED <<logVars, cache_mtx, file, listener, addresses, pending, method, server_fd>>

\* "new may fail", or std::thread throws: the exception is caught, but no
\* guard owns the connection yet.
SpawnFails ==
  /\ main = "spawn"
  /\ AllocFails \/ \A t \in Handlers : stage[t] # "idle"
  /\ new_fd' = NULL
  /\ main' = "accept"
  /\ UNCHANGED <<logVars, cache_mtx, file, listener, addresses, pending, handlerVars>>

---------------------------------------------------------------------------
(* How a handler moves *)

\* It is not inside a call of log_id.
Ready(t, from) == stage[t] = from /\ at[t] = "idle"

Go(t, from, to) == Ready(t, from) /\ stage' = [stage EXCEPT ![t] = to]

\* The method, which is forgotten when nothing depends on it any more.
Routed(t, to, m) ==
  method' = [method EXCEPT ![t] =
               IF to \in {"connect", "request", "remote"} THEN m ELSE NULL]

\* It goes on, and nothing else happens; or it logs a line first.
Step(t, from, to) ==
  /\ Go(t, from, to)
  /\ Routed(t, to, method[t])
  /\ UNCHANGED <<logVars, cache_mtx, file, mainVars, client_fd, server_fd>>

LogStep(t, from, to) ==
  /\ Go(t, from, to)
  /\ Routed(t, to, method[t])
  /\ L!Call(t)
  /\ UNCHANGED <<cache_mtx, file, mainVars, client_fd, server_fd>>

---------------------------------------------------------------------------
(* process_request *)

\* recv returns and the request parses: log_new_request.
ReceiveRequest(t) == LogStep(t, "recv", "dispatch")

\* "ERROR no request received".
NoRequest(t) == LogStep(t, "recv", "close")

\* "ERROR method not supported".
Unsupported(t) == LogStep(t, "dispatch", "close")

\* http_get: get_response finds an entry, and waits for the cache's mutex.
Found(t) == Step(t, "dispatch", "lookup")

\* It is fresh ("in cache, valid"), ...
CacheHit(t) == cache_mtx = "free" /\ LogStep(t, "lookup", "reply")

\* ... or a server is needed ("in cache, requires validation"), ...
NeedValidation(t) ==
  /\ cache_mtx = "free"
  /\ Go(t, "lookup", "connect")
  /\ Routed(t, "connect", "GET")
  /\ L!Call(t)
  /\ UNCHANGED <<cache_mtx, file, mainVars, client_fd, server_fd>>

\* ... as it is if nothing is found ("not in cache"), and by http_post and
\* http_connect.
NeedServer(t, m) ==
  /\ Go(t, "dispatch", "connect")
  /\ Routed(t, "connect", m)
  /\ IF m = "GET" THEN L!Call(t) ELSE UNCHANGED logVars
  /\ UNCHANGED <<cache_mtx, file, mainVars, client_fd, server_fd>>

---------------------------------------------------------------------------
(* connect_to_server *)

\* connect fails: connect_to_host returns -1 and leaves its socket open.
ConnectRefused(t) ==
  /\ Go(t, "connect", "unwind")
  /\ Routed(t, "unwind", NULL)
  /\ \E d \in Descriptors : Take(d, "server")
  /\ UNCHANGED <<logVars, cache_mtx, mainVars, client_fd, server_fd>>

\* "Requesting ...": logged before the caller's guard owns the descriptor.
Connect(t) ==
  /\ Go(t, "connect", "request")
  /\ \E d \in Descriptors :
       Take(d, "server") /\ server_fd' = [server_fd EXCEPT ![t] = d]
  /\ L!Call(t)
  /\ UNCHANGED <<cache_mtx, mainVars, method, client_fd>>

\* The guard owns the descriptor.  http_send_200ok logs before it sends.
Guard(t) ==
  IF method[t] = "CONNECT"
  THEN LogStep(t, "request", "tunnel")
  ELSE Step(t, "request", "remote")

---------------------------------------------------------------------------
(* After the round trip *)

\* get_from_server and validation: "Receive ...".
Answered(t) ==
  /\ method[t] = "GET"
  /\ LogStep(t, "remote", "store")

\* "NOTE chunked transfer coding", and chunked_transfer until the server
\* closes the connection.
Chunked(t) ==
  /\ method[t] = "GET"
  /\ LogStep(t, "remote", "relay")

RelayEnds(t) == Step(t, "relay", "close")

\* get_from_server: "cached, ...", and then it is, or "not cacheable ...".
Fetched(t) == LogStep(t, "store", "add") \/ LogStep(t, "store", "reply")

\* validation: 304; 200, logged, put in the cache and then sent; any other
\* status.
NotModified(t) == Step(t, "store", "reply")
Modified(t) == LogStep(t, "store", "replace")
ServerError(t) == LogStep(t, "store", "note")
Responding(t) == LogStep(t, "note", "send")

\* add_response, when the cache's mutex is free, ...
Add(t) ==
  /\ cache_mtx = "free"
  /\ Step(t, "add", "reply") \/ Step(t, "replace", "send")

\* ... and when new throws between lock and unlock (for validation, if the
\* entry has been evicted in the meantime).
AddThrows(t) ==
  /\ cache_mtx = "free" /\ AllocFails
  /\ Go(t, "add", "unwind") \/ Go(t, "replace", "unwind")
  /\ cache_mtx' = "locked"
  /\ UNCHANGED <<logVars, file, mainVars, method, client_fd, server_fd>>

\* send_to, and "Responding ...".
Reply(t) == LogStep(t, "reply", "close")
Send(t) == Step(t, "send", "close")

\* http_post.
Posted(t) ==
  /\ method[t] = "POST"
  /\ LogStep(t, "remote", "close")

\* http_connect: the end of http_connect_forward_messages.
TunnelEnds(t) == Step(t, "tunnel", "tunnelled")

\* An exception: an allocation fails, a lifetime is not a number, or
\* connect_to_host had no address or no descriptor; ...
Throw(t) ==
  \/ \E from \in {"dispatch", "connect", "store", "add", "replace"} :
       Step(t, from, "unwind")
  \/ cache_mtx = "free" /\ Step(t, "lookup", "unwind")

\* ... or a peer breaks off, or sends a message that does not parse.
Broken(t) ==
  \E from \in {"recv", "remote", "relay", "tunnel", "reply", "send"} :
    Step(t, from, "unwind")

---------------------------------------------------------------------------
(* The guards' destructors: the server's first *)

Closing(t, S) == stage[t] \in S /\ at[t] \in {"idle", "threw"}

CloseServer(t) ==
  /\ Closing(t, {"close", "unwind", "tunnelled"})
  /\ server_fd[t] # NULL
  /\ file' = BackTo(file, server_fd[t])
  /\ server_fd' = [server_fd EXCEPT ![t] = NULL]
  /\ UNCHANGED <<logVars, cache_mtx, mainVars, stage, method, client_fd>>

\* "Tunnel closed".
TunnelClosed(t) ==
  /\ server_fd[t] = NULL
  /\ LogStep(t, "tunnelled", "close")

\* process_request returns ...
CloseClient(t) ==
  /\ Closing(t, {"close"})
  /\ server_fd[t] = NULL
  /\ file' = BackTo(file, client_fd[t])
  /\ client_fd' = [client_fd EXCEPT ![t] = NULL]
  /\ stage' = [stage EXCEPT ![t] = "idle"]
  /\ UNCHANGED <<logVars, cache_mtx, mainVars, method, server_fd>>

BugCatch(t) ==
  /\ Closing(t, {"unwind"})
  /\ file' = BackTo(file, client_fd[t])
  /\ client_fd' = [client_fd EXCEPT ![t] = NULL]
  /\ server_fd' = [server_fd EXCEPT ![t] = NULL]
  /\ stage' = [stage EXCEPT ![t] = "caught"]
  /\ L!Call(t)
  /\ UNCHANGED <<cache_mtx, mainVars, method>>

\* ... or catches the exception, and logs it.
Catch(t) ==
  /\ Closing(t, {"unwind"})
  /\ server_fd[t] = NULL
  /\ file' = BackTo(file, client_fd[t])
  /\ client_fd' = [client_fd EXCEPT ![t] = NULL]
  /\ stage' = [stage EXCEPT ![t] = "caught"]
  /\ L!Call(t)
  /\ UNCHANGED <<cache_mtx, mainVars, method, server_fd>>

Caught(t) == Step(t, "caught", "idle")

---------------------------------------------------------------------------
(* log_id *)

OpenLog(t) ==
  /\ \/ \E d \in Descriptors : Take(d, "log") /\ L!Open(t, d)
     \/ Full /\ L!Open(t, NULL) /\ UNCHANGED file
  /\ UNCHANGED <<cache_mtx, mainVars, handlerVars>>

WriteLog(t) ==
  /\ L!Close(t)
  /\ file' = BackTo(file, log_f[t])
  /\ UNCHANGED <<cache_mtx, mainVars, handlerVars>>

\* log_id throws: in a handler the exception is caught like any other, but
\* the descriptor of the server has no owner yet while "Requesting ..." is
\* logged, ...
LogThrows(t) ==
  /\ L!Throw(t)
  /\ stage[t] # "caught"
  /\ stage' = [stage EXCEPT ![t] = "unwind"]
  /\ Routed(t, "unwind", NULL)
  /\ server_fd' = IF stage[t] = "request" THEN [server_fd EXCEPT ![t] = NULL]
                  ELSE server_fd
  /\ UNCHANGED <<cache_mtx, file, mainVars, client_fd>>

\* ... and while an exception is logged nothing catches another:
\* process_request is noexcept.
Terminate(t) ==
  /\ AllocFails
  /\ mtx = NULL
  /\ at[t] = "lock" /\ stage[t] = "caught"
  /\ Exit("terminated")

\* The accept loop goes on, and holds the mutex for good.
MainLogThrows ==
  /\ L!Throw(Main)
  /\ UNCHANGED <<cache_mtx, file, mainVars, handlerVars>>

---------------------------------------------------------------------------
\* Steps a handler takes by itself.
Handle(t) ==
  \/ Unsupported(t) \/ Found(t) \/ CacheHit(t) \/ NeedValidation(t)
  \/ \E m \in Methods : NeedServer(t, m)
  \/ ConnectRefused(t) \/ Connect(t) \/ Guard(t)
  \/ Fetched(t) \/ NotModified(t) \/ Modified(t) \/ ServerError(t) \/ Responding(t)
  \/ Add(t) \/ AddThrows(t)
  \/ CloseServer(t) \/ TunnelClosed(t) \/ CloseClient(t) \/ Catch(t) \/ Caught(t)
  \/ Throw(t)

\* Steps that wait for a client or a server.
Await(t) ==
  \/ ReceiveRequest(t) \/ NoRequest(t)
  \/ Answered(t) \/ Chunked(t) \/ Posted(t) \/ RelayEnds(t) \/ TunnelEnds(t)
  \/ Reply(t) \/ Send(t) \/ Broken(t)

InLog(t) == OpenLog(t) \/ WriteLog(t)

Start == Listen \/ BindFails \/ StartFails

AcceptLoop == Accept \/ AcceptFails \/ SpawnFails \/ \E t \in Handlers : Spawn(t)

\* Nothing is possible any more when main has exited.
Next ==
  \/ Start \/ AcceptLoop \/ ClientConnects \/ MainLogThrows
  \/ \E t \in Threads : InLog(t)
  \/ \E t \in Handlers : Handle(t) \/ Await(t) \/ LogThrows(t) \/ Terminate(t)

Spec == Init /\ [][Next]_vars

\* The scheduler runs every thread that can go on, and a thread that finds a
\* mutex free again and again gets it in the end.  connect fails in the end
\* if it does not succeed; else clients and servers need never do anything.
FairSpec ==
  /\ Spec
  /\ SF_vars(AcceptLoop \/ InLog(Main))
  /\ \A t \in Handlers : SF_vars(Handle(t) \/ InLog(t))
---------------------------------------------------------------------------
(* Properties *)

TypeOK ==
  /\ file \in [Descriptors -> Files]
  /\ cache_mtx \in {"free", "locked"}
  /\ listener \in Descriptors \cup {NULL}
  /\ new_fd \in Descriptors \cup {NULL}
  /\ main \in MainStages
  /\ addresses \in 0 .. MaxAddresses
  /\ pending \in 0 .. Backlog
  /\ stage \in [Handlers -> Stages]
  /\ method \in [Handlers -> Methods \cup {NULL}]
  /\ client_fd \in [Handlers -> Descriptors \cup {NULL}]
  /\ server_fd \in [Handlers -> Descriptors \cup {NULL}]

\* Where a handler is tells which connections it has.
Connected ==
  {"request", "remote", "relay", "tunnel", "store", "add", "replace", "note", "send"}
Unconnected == {"idle", "recv", "dispatch", "lookup", "connect", "caught"}

Over == main \in {"exited", "terminated"}

StagesOK ==
  /\ main = "spawn" <=> new_fd # NULL
  /\ main \in {"accept", "spawn"} <=> listener # NULL
  /\ \A t \in Handlers :
       /\ client_fd[t] = NULL <=> stage[t] \in {"idle", "caught"}
       /\ stage[t] \in Connected => server_fd[t] # NULL
       /\ stage[t] \in Unconnected => server_fd[t] = NULL
       /\ stage[t] = "idle" => at[t] = "idle"
       /\ at[t] = "threw" => stage[t] = "unwind"
       /\ Over => stage[t] = "idle"

(***************************************************************************)
(* Every descriptor a thread goes on to use is open, is what the thread    *)
(* takes it for, and is no other thread's, although numbers are reused as  *)
(* soon as they are closed (proxy.hpp:95-103 and all that close or move a  *)
(* descriptor).                                                            *)
(***************************************************************************)
OwnDescriptors ==
  /\ listener # NULL => file[listener] = "listener"
  /\ new_fd # NULL => file[new_fd] = "client"
  /\ \A t \in Handlers :
       /\ client_fd[t] # NULL => file[client_fd[t]] = "client" /\ client_fd[t] # new_fd
       /\ server_fd[t] # NULL => file[server_fd[t]] = "server"
       /\ \A u \in Handlers \ {t} :
            /\ client_fd[t] # NULL => client_fd[t] # client_fd[u]
            /\ server_fd[t] # NULL => server_fd[t] # server_fd[u]
  /\ \A t \in Threads : log_f[t] # NULL => file[log_f[t]] = "log"

Inv == TypeOK /\ L!LogOK /\ StagesOK /\ OwnDescriptors

\* Open descriptors that nothing will ever close.
Lost ==
  {d \in Descriptors :
     /\ file[d] # "free"
     /\ d \notin {listener, new_fd}
     /\ \A t \in Handlers : d \notin {client_fd[t], server_fd[t]}
     /\ \A t \in Threads : d # log_f[t]}

(***************************************************************************)
(* Descriptors are lost in four places only: a socket that could not be    *)
(* bound, a connection whose thread could not be created, a socket whose   *)
(* connect was refused, and a connection to a server for which the log     *)
(* line fails (Socket_connection.cpp:47 and 96, proxy.cpp:22 and 235).     *)
(* Every other path of a handler, by whatever exceptions, closes each      *)
(* descriptor it opened.                                                   *)
(***************************************************************************)
LostOnlyThere ==
  [][Lost' # Lost =>
       \/ Over' \/ BindFails \/ SpawnFails
       \/ \E t \in Handlers :
            ConnectRefused(t) \/ (LogThrows(t) /\ stage[t] = "request")]_vars

\* Blocked in recv, poll or send.
Waiting(t) ==
  at[t] = "idle" /\ stage[t] \in {"recv", "remote", "relay", "tunnel", "reply", "send"}

\* An allocation has failed between a lock and an unlock.
Stuck == L!Stuck \/ cache_mtx = "locked"

(***************************************************************************)
(* A handler gets on again and again to its end, or to where it waits for  *)
(* a client or a server: it never waits for other handlers for good, as    *)
(* long as no allocation has failed while a mutex was locked               *)
(* (proxy.cpp:42-83, 622-634, cache.cpp:28-60).                            *)
(***************************************************************************)
HandlersProceed ==
  \A t \in Handlers : []<>(stage[t] = "idle" \/ Waiting(t) \/ Stuck \/ Over)

(***************************************************************************)
(* Again and again a connection is accepted, or none waits, or the table   *)
(* of descriptors is full: no handler, no failed accept, and not even a    *)
(* cache locked for good, stops the accept loop, as long as log_id has not *)
(* thrown (proxy.cpp:15-35).                                               *)
(***************************************************************************)
ConnectionsAccepted ==
  []<>(main = "spawn" \/ pending = 0 \/ Full \/ L!Stuck \/ Over)

===========================================================================
