--------------------------- MODULE ServerProofs ---------------------------
(***************************************************************************)
(* Proofs about module Server, for every set of handlers and every number  *)
(* of descriptors, addresses and waiting connections.                      *)
(***************************************************************************)
EXTENDS Server, TLAPS

USE DEF Threads

\* A handler may go from one stage to another while it keeps its connections.
Passes(from, to) ==
  /\ from # "idle" /\ to \in Stages \ {"caught"}
  /\ from = "caught" <=> to = "idle"
  /\ to \in Connected => from \in Connected
  /\ to \in Unconnected => from \in Unconnected

---------------------------------------------------------------------------
(* Steps that leave all descriptors alone *)

\* A call of log_id only changes where the caller is, from "idle" or "threw".
LEMMA CallOK ==
  ASSUME Inv, NEW t \in Threads, L!Call(t)
  PROVE  /\ L!LogOK'
         /\ log_f' = log_f
         /\ at' = [at EXCEPT ![t] = "lock"]
  BY DEF Inv, L!LogOK, L!Call, L!Points

\* Who owns what depends on the descriptors only.
LEMMA SameDescriptors ==
  ASSUME Inv, UNCHANGED <<file, listener, new_fd, client_fd, server_fd, log_f>>
  PROVE  OwnDescriptors'
  BY DEF Inv, OwnDescriptors

\* A handler goes on, with or without a line in the log (the actions made of
\* Step and LogStep, and the choice of a method).
LEMMA PassesInv ==
  ASSUME Inv, NEW t \in Handlers, NEW from, NEW to, NEW m \in Methods \cup {NULL},
         Passes(from, to),
         Go(t, from, to),
         Routed(t, to, m),
         UNCHANGED logVars \/ (L!Call(t) /\ to # "idle"),
         UNCHANGED <<cache_mtx, file, mainVars, client_fd, server_fd>>
  PROVE  Inv'
<1>1. TypeOK'
  BY DEF Inv, TypeOK, Go, Routed, mainVars, Passes
<1>2. /\ L!LogOK' /\ log_f' = log_f
      /\ at' = at \/ (at' = [at EXCEPT ![t] = "lock"] /\ to # "idle")
  BY CallOK DEF Inv, L!LogOK, logVars
<1>3. OwnDescriptors'
  BY <1>2, SameDescriptors DEF mainVars
<1>4. StagesOK'
  <2>1. /\ stage \in [Handlers -> Stages] /\ stage[t] = from /\ at[t] = "idle"
        /\ stage' = [stage EXCEPT ![t] = to]
        /\ at \in [Threads -> L!Points]
    BY DEF Inv, TypeOK, L!LogOK, Go, Ready
  <2>2. ASSUME NEW u \in Handlers
        PROVE  /\ client_fd'[u] = NULL <=> stage'[u] \in {"idle", "caught"}
               /\ stage'[u] \in Connected => server_fd'[u] # NULL
               /\ stage'[u] \in Unconnected => server_fd'[u] = NULL
               /\ stage'[u] = "idle" => at'[u] = "idle"
               /\ at'[u] = "threw" => stage'[u] = "unwind"
               /\ Over' => stage'[u] = "idle"
    <3>1. CASE u = t
      BY <1>2, <2>1, <3>1 DEF Inv, StagesOK, Over, Passes, mainVars, Unconnected, Connected
    <3>2. CASE u # t
      BY <1>2, <2>1, <3>2 DEF Inv, StagesOK, Over, mainVars
    <3> QED
      BY <3>1, <3>2
  <2> QED
    BY <2>2 DEF Inv, StagesOK, Over, mainVars
<1> QED
  BY <1>1, <1>2, <1>3, <1>4 DEF Inv

LEMMA StepInv ==
  ASSUME Inv, NEW t \in Handlers, NEW from, NEW to, Passes(from, to),
         Step(t, from, to) \/ (LogStep(t, from, to) /\ to # "idle")
  PROVE  Inv'
<1>1. method[t] \in Methods \cup {NULL}
  BY DEF Inv, TypeOK
<1> QED
  BY <1>1, PassesInv DEF Step, LogStep
---------------------------------------------------------------------------
(* The process starts and ends *)

LEMMA InitInv == Init => Inv
  BY MaxAssumption, DistinctAssumption
  DEF Init, Inv, TypeOK, StagesOK, Over, OwnDescriptors, L!Init, L!LogOK, L!Points, Files,
      MainStages, Stages, Connected

\* Whatever ends the process leaves no descriptor to anyone.
LEMMA ExitInv ==
  ASSUME Inv, NEW how \in {"exited", "terminated"}, Exit(how)
  PROVE  Inv'
  BY MaxAssumption, DistinctAssumption
  DEF Exit, Inv, TypeOK, StagesOK, Over, OwnDescriptors, L!LogOK, L!Points, Files,
      MainStages, Stages, Connected

\* create_tcp_listener_fd.
LEMMA StartInv == ASSUME Inv, Start PROVE Inv'
<1>1. CASE Listen
  <2>1. PICK d \in Descriptors : Take(d, "listener") /\ listener' = d
    BY <1>1 DEF Listen
  <2>2. file[d] = "free" /\ file' = [file EXCEPT ![d] = "listener"]
    BY <2>1 DEF Take, Lowest
  <2>3. TypeOK'
    BY <1>1, <2>1, <2>2, MaxAssumption
    DEF Inv, TypeOK, Listen, Files, MainStages, handlerVars
  <2>4. L!LogOK' /\ log_f' = log_f /\ at' = at
    BY <1>1 DEF Inv, L!LogOK, Listen, logVars
  <2>5. StagesOK'
    BY <1>1, <2>1, <2>4, DistinctAssumption DEF Inv, StagesOK, Over, Listen, handlerVars
  <2>6. OwnDescriptors'
    BY <1>1, <2>1, <2>2, <2>4 DEF Inv, TypeOK, OwnDescriptors, Listen, handlerVars
  <2> QED
    BY <2>3, <2>4, <2>5, <2>6 DEF Inv
<1>2. CASE BindFails
  <2>1. PICK d \in Descriptors : Take(d, "listener")
    BY <1>2 DEF BindFails
  <2>2. file[d] = "free" /\ file' = [file EXCEPT ![d] = "listener"]
    BY <2>1 DEF Take, Lowest
  <2>3. TypeOK'
    BY <1>2, <2>2, MaxAssumption DEF Inv, TypeOK, BindFails, Files, handlerVars
  <2>4. L!LogOK' /\ log_f' = log_f /\ at' = at
    BY <1>2 DEF Inv, L!LogOK, BindFails, logVars
  <2>5. StagesOK'
    BY <1>2, <2>4 DEF Inv, StagesOK, Over, BindFails, handlerVars
  <2>6. OwnDescriptors'
    BY <1>2, <2>2, <2>4 DEF Inv, TypeOK, OwnDescriptors, BindFails, handlerVars
  <2> QED
    BY <2>3, <2>4, <2>5, <2>6 DEF Inv
<1>3. CASE StartFails
  BY <1>3, ExitInv DEF StartFails
<1> QED
  BY <1>1, <1>2, <1>3 DEF Start

---------------------------------------------------------------------------
(* The accept loop *)

LEMMA AcceptInv == ASSUME Inv, Accept PROVE Inv'
<1>1. PICK d \in Descriptors : Take(d, "client") /\ new_fd' = d
  BY DEF Accept
<1>2. file[d] = "free" /\ file' = [file EXCEPT ![d] = "client"]
  BY <1>1 DEF Take, Lowest
<1>3. TypeOK'
  BY <1>1, <1>2, MaxAssumption DEF Inv, TypeOK, Accept, Files, MainStages, handlerVars
<1>4. L!LogOK' /\ log_f' = log_f /\ at' = at
  BY DEF Inv, L!LogOK, Accept, logVars
<1>5. StagesOK'
  BY <1>1, <1>4, DistinctAssumption DEF Inv, StagesOK, Over, Accept, MainReady, handlerVars
<1>6. OwnDescriptors'
  BY <1>1, <1>2, <1>4 DEF Inv, TypeOK, OwnDescriptors, Accept, handlerVars
<1> QED
  BY <1>3, <1>4, <1>5, <1>6 DEF Inv

\* accept fails, or a connection joins those that wait.
LEMMA QueueInv == ASSUME Inv, AcceptFails \/ ClientConnects PROVE Inv'
<1>1. UNCHANGED <<file, listener, new_fd, main, addresses, handlerVars>>
  BY DEF AcceptFails, ClientConnects
<1>2. TypeOK'
  BY <1>1, MaxAssumption DEF Inv, TypeOK, AcceptFails, ClientConnects, handlerVars
<1>3. /\ L!LogOK' /\ log_f' = log_f
      /\ \A u \in Handlers : at'[u] = at[u]
  <2>1. CASE AcceptFails
    BY <2>1, CallOK, DistinctAssumption DEF AcceptFails, Inv, L!LogOK
  <2>2. CASE ClientConnects
    BY <2>2 DEF ClientConnects, Inv, L!LogOK, logVars
  <2> QED
    BY <2>1, <2>2
<1>4. StagesOK'
  BY <1>1, <1>3 DEF Inv, StagesOK, Over, handlerVars
<1>5. OwnDescriptors'
  BY <1>1, <1>3, SameDescriptors DEF handlerVars
<1> QED
  BY <1>2, <1>3, <1>4, <1>5 DEF Inv

\* The connection just accepted becomes the new handler's, and no other's.
LEMMA SpawnInv == ASSUME Inv, NEW t \in Handlers, Spawn(t) PROVE Inv'
<1>1. TypeOK'
  BY DEF Inv, TypeOK, Spawn, MainStages, Stages
<1>2. L!LogOK' /\ log_f' = log_f /\ at' = at
  BY DEF Inv, L!LogOK, Spawn, logVars
<1>3. StagesOK'
  BY <1>2 DEF Inv, TypeOK, StagesOK, Over, Spawn, Connected, Unconnected
<1>4. OwnDescriptors'
  BY <1>2 DEF Inv, TypeOK, OwnDescriptors, Spawn
<1> QED
  BY <1>1, <1>2, <1>3, <1>4 DEF Inv

LEMMA SpawnFailsInv == ASSUME Inv, SpawnFails PROVE Inv'
<1>1. TypeOK'
  BY DEF Inv, TypeOK, SpawnFails, MainStages, handlerVars
<1>2. L!LogOK' /\ log_f' = log_f /\ at' = at
  BY DEF Inv, L!LogOK, SpawnFails, logVars
<1>3. StagesOK'
  BY <1>2 DEF Inv, StagesOK, Over, SpawnFails, handlerVars
<1>4. OwnDescriptors'
  BY <1>2 DEF Inv, OwnDescriptors, SpawnFails, handlerVars
<1> QED
  BY <1>1, <1>2, <1>3, <1>4 DEF Inv
---------------------------------------------------------------------------
(* Connections to servers, and the guards *)

\* The socket that connect refused is nobody's.
LEMMA ConnectRefusedInv == ASSUME Inv, NEW t \in Handlers, ConnectRefused(t) PROVE Inv'
<1>1. PICK d \in Descriptors : Take(d, "server")
  BY DEF ConnectRefused
<1>2. file[d] = "free" /\ file' = [file EXCEPT ![d] = "server"]
  BY <1>1 DEF Take, Lowest
<1>3. TypeOK'
  BY <1>2 DEF Inv, TypeOK, ConnectRefused, Go, Routed, Files, Stages, mainVars
<1>4. L!LogOK' /\ log_f' = log_f /\ at' = at
  BY DEF Inv, L!LogOK, ConnectRefused, logVars
<1>5. StagesOK'
  BY <1>4 DEF Inv, TypeOK, StagesOK, Over, ConnectRefused, Go, Ready, mainVars, Connected,
              Unconnected
<1>6. OwnDescriptors'
  BY <1>2, <1>4 DEF Inv, TypeOK, OwnDescriptors, ConnectRefused, mainVars
<1> QED
  BY <1>3, <1>4, <1>5, <1>6 DEF Inv

LEMMA ConnectInv == ASSUME Inv, NEW t \in Handlers, Connect(t) PROVE Inv'
<1>1. PICK d \in Descriptors :
        Take(d, "server") /\ server_fd' = [server_fd EXCEPT ![t] = d]
  BY DEF Connect
<1>2. file[d] = "free" /\ file' = [file EXCEPT ![d] = "server"]
  BY <1>1 DEF Take, Lowest
<1>3. TypeOK'
  BY <1>1, <1>2 DEF Inv, TypeOK, Connect, Go, Files, Stages, mainVars
<1>4. L!LogOK' /\ log_f' = log_f /\ at' = [at EXCEPT ![t] = "lock"]
  BY CallOK DEF Connect
<1>5. StagesOK'
  BY <1>1, <1>4, DistinctAssumption
  DEF Inv, TypeOK, StagesOK, Over, Connect, Go, Ready, mainVars, Connected, Unconnected,
      L!LogOK
<1>6. OwnDescriptors'
  BY <1>1, <1>2, <1>4 DEF Inv, TypeOK, OwnDescriptors, Connect, mainVars
<1> QED
  BY <1>3, <1>4, <1>5, <1>6 DEF Inv

LEMMA CloseServerInv == ASSUME Inv, NEW t \in Handlers, CloseServer(t) PROVE Inv'
<1>1. file' = [file EXCEPT ![server_fd[t]] = "free"]
  BY DEF CloseServer, BackTo
<1>2. TypeOK'
  BY <1>1 DEF Inv, TypeOK, CloseServer, Files, mainVars
<1>3. L!LogOK' /\ log_f' = log_f /\ at' = at
  BY DEF Inv, L!LogOK, CloseServer, logVars
<1>4. StagesOK'
  BY <1>3 DEF Inv, TypeOK, StagesOK, Over, CloseServer, Closing, mainVars, Connected,
              Unconnected
<1>5. OwnDescriptors'
  BY <1>1, <1>3 DEF Inv, TypeOK, OwnDescriptors, CloseServer, mainVars
<1> QED
  BY <1>2, <1>3, <1>4, <1>5 DEF Inv

LEMMA CloseClientInv == ASSUME Inv, NEW t \in Handlers, CloseClient(t) PROVE Inv'
<1>1. client_fd[t] # NULL
  BY DEF CloseClient, Closing, Inv, StagesOK
<1>2. file' = [file EXCEPT ![client_fd[t]] = "free"]
  BY <1>1 DEF CloseClient, BackTo
<1>3. TypeOK'
  BY <1>2 DEF Inv, TypeOK, CloseClient, Files, Stages, mainVars
<1>4. L!LogOK' /\ log_f' = log_f /\ at' = at
  BY DEF Inv, L!LogOK, CloseClient, logVars
<1>5. StagesOK'
  BY <1>4 DEF Inv, TypeOK, StagesOK, Over, CloseClient, Closing, mainVars, Connected,
              Unconnected
<1>6. OwnDescriptors'
  BY <1>1, <1>2, <1>4 DEF Inv, TypeOK, OwnDescriptors, CloseClient, mainVars
<1> QED
  BY <1>3, <1>4, <1>5, <1>6 DEF Inv

LEMMA CatchInv == ASSUME Inv, NEW t \in Handlers, Catch(t) PROVE Inv'
<1>1. client_fd[t] # NULL
  BY DEF Catch, Closing, Inv, StagesOK
<1>2. file' = [file EXCEPT ![client_fd[t]] = "free"]
  BY <1>1 DEF Catch, BackTo
<1>3. TypeOK'
  BY <1>2 DEF Inv, TypeOK, Catch, Files, Stages, mainVars
<1>4. L!LogOK' /\ log_f' = log_f /\ at' = [at EXCEPT ![t] = "lock"]
  BY CallOK DEF Catch
<1>5. StagesOK'
  BY <1>4 DEF Inv, TypeOK, StagesOK, Over, Catch, Closing, mainVars, Connected, Unconnected,
              L!LogOK
<1>6. OwnDescriptors'
  BY <1>1, <1>2, <1>4 DEF Inv, TypeOK, OwnDescriptors, Catch, mainVars
<1> QED
  BY <1>3, <1>4, <1>5, <1>6 DEF Inv

---------------------------------------------------------------------------
(* The log *)

LEMMA OpenLogInv == ASSUME Inv, NEW t \in Threads, OpenLog(t) PROVE Inv'
<1>1. PICK d \in Descriptors \cup {NULL} :
        /\ L!Open(t, d)
        /\ \/ d = NULL /\ file' = file
           \/ file[d] = "free" /\ file' = [file EXCEPT ![d] = "log"]
  BY DEF OpenLog, Take, Lowest
<1>2. /\ UNCHANGED <<cache_mtx, mainVars, handlerVars>>
      /\ log_f' = [log_f EXCEPT ![t] = d]
      /\ at' = [at EXCEPT ![t] = "write"] /\ at[t] = "lock"
  BY <1>1 DEF OpenLog, L!Open, L!Goto
<1>3. TypeOK'
  BY <1>1, <1>2 DEF Inv, TypeOK, Files, mainVars, handlerVars
<1>4. L!LogOK'
  BY <1>1, <1>2, DistinctAssumption DEF Inv, L!LogOK, L!Open, L!Points
<1>5. StagesOK'
  BY <1>2 DEF Inv, StagesOK, Over, mainVars, handlerVars, L!LogOK
<1>6. OwnDescriptors'
  BY <1>1, <1>2, DistinctAssumption
  DEF Inv, TypeOK, OwnDescriptors, mainVars, handlerVars, L!LogOK
<1> QED
  BY <1>3, <1>4, <1>5, <1>6 DEF Inv

LEMMA WriteLogInv == ASSUME Inv, NEW t \in Threads, WriteLog(t) PROVE Inv'
<1>1. /\ UNCHANGED <<cache_mtx, mainVars, handlerVars>>
      /\ log_f' = [log_f EXCEPT ![t] = NULL]
      /\ at' = [at EXCEPT ![t] = "idle"] /\ at[t] = "write"
      /\ mtx' = NULL
  BY DEF WriteLog, L!Close, L!Goto
<1>2. \/ log_f[t] = NULL /\ file' = file
      \/ log_f[t] \in Descriptors /\ file' = [file EXCEPT ![log_f[t]] = "free"]
  BY DEF WriteLog, BackTo, Inv, L!LogOK
<1>3. TypeOK'
  BY <1>1, <1>2 DEF Inv, TypeOK, Files, mainVars, handlerVars
<1>4. L!LogOK'
  BY <1>1, DistinctAssumption DEF Inv, L!LogOK, L!Points
<1>5. StagesOK'
  BY <1>1 DEF Inv, StagesOK, Over, mainVars, handlerVars, L!LogOK
<1>6. \A u \in Threads \ {t} : log_f[u] = NULL
  BY <1>1, DistinctAssumption DEF Inv, L!LogOK
<1>7. OwnDescriptors'
  BY <1>1, <1>2, <1>6 DEF Inv, TypeOK, OwnDescriptors, mainVars, handlerVars, L!LogOK
<1> QED
  BY <1>3, <1>4, <1>5, <1>7 DEF Inv

LEMMA LogThrowsInv == ASSUME Inv, NEW t \in Handlers, LogThrows(t) PROVE Inv'
<1>1. /\ log_f' = log_f
      /\ at' = [at EXCEPT ![t] = "threw"] /\ at[t] = "lock"
      /\ stage' = [stage EXCEPT ![t] = "unwind"]
      /\ server_fd' = server_fd \/ server_fd' = [server_fd EXCEPT ![t] = NULL]
      /\ UNCHANGED <<file, mainVars, client_fd>>
      /\ stage[t] # "caught"
  BY DEF LogThrows, L!Throw, L!Goto
<1>2. TypeOK'
  BY <1>1 DEF Inv, TypeOK, LogThrows, Routed, Stages, mainVars
<1>3. L!LogOK'
  BY DistinctAssumption DEF Inv, L!LogOK, LogThrows, L!Throw, L!Goto, L!Points
<1>4. StagesOK'
  BY <1>1, DistinctAssumption DEF Inv, TypeOK, StagesOK, Over, mainVars, Connected,
     Unconnected, L!LogOK
<1>5. OwnDescriptors'
  BY <1>1 DEF Inv, TypeOK, OwnDescriptors, mainVars
<1> QED
  BY <1>2, <1>3, <1>4, <1>5 DEF Inv

LEMMA MainLogThrowsInv == ASSUME Inv, MainLogThrows PROVE Inv'
<1>1. /\ UNCHANGED <<cache_mtx, file, mainVars, handlerVars, log_f>>
      /\ \A u \in Handlers : at'[u] = at[u]
  BY DistinctAssumption DEF MainLogThrows, L!Throw, L!Goto, Inv, L!LogOK
<1>2. TypeOK'
  BY <1>1 DEF Inv, TypeOK, mainVars, handlerVars
<1>3. L!LogOK'
  BY DistinctAssumption DEF Inv, L!LogOK, MainLogThrows, L!Throw, L!Goto, L!Points
<1>4. StagesOK'
  BY <1>1 DEF Inv, StagesOK, Over, mainVars, handlerVars
<1>5. OwnDescriptors'
  BY <1>1, SameDescriptors DEF mainVars, handlerVars
<1> QED
  BY <1>2, <1>3, <1>4, <1>5 DEF Inv
---------------------------------------------------------------------------
(* The cache *)

\* Whatever add_response leaves behind, the connections are closed.
LEMMA AddThrowsInv == ASSUME Inv, NEW t \in Handlers, AddThrows(t) PROVE Inv'
<1>1. PICK from \in {"add", "replace"} :
        /\ stage[t] = from /\ at[t] = "idle" /\ stage' = [stage EXCEPT ![t] = "unwind"]
        /\ UNCHANGED <<logVars, file, mainVars, method, client_fd, server_fd>>
        /\ cache_mtx' = "locked"
  BY DEF AddThrows, Go, Ready
<1>2. TypeOK'
  BY <1>1 DEF Inv, TypeOK, Stages, mainVars
<1>3. L!LogOK' /\ log_f' = log_f /\ at' = at
  BY <1>1 DEF Inv, L!LogOK, logVars
<1>4. StagesOK'
  BY <1>1, <1>3 DEF Inv, TypeOK, StagesOK, Over, Connected, Unconnected, mainVars
<1>5. OwnDescriptors'
  BY <1>1, <1>3, SameDescriptors DEF mainVars
<1> QED
  BY <1>2, <1>3, <1>4, <1>5 DEF Inv

---------------------------------------------------------------------------
(* All steps *)

LEMMA HandleInv == ASSUME Inv, NEW t \in Handlers, Handle(t) PROVE Inv'
<1> USE DEF Passes, Stages, Connected, Unconnected
<1>1. CASE Unsupported(t) \/ Found(t) \/ CacheHit(t)
  BY <1>1, StepInv DEF Unsupported, Found, CacheHit
<1>2. ASSUME NEW m \in Methods, NeedServer(t, m) PROVE Inv'
  <2>1. /\ Go(t, "dispatch", "connect")
        /\ Routed(t, "connect", m)
        /\ UNCHANGED logVars \/ L!Call(t)
        /\ UNCHANGED <<cache_mtx, file, mainVars, client_fd, server_fd>>
    BY <1>2 DEF NeedServer
  <2>2. Passes("dispatch", "connect")
    OBVIOUS
  <2> QED
    BY <2>1, <2>2, PassesInv
<1>9. CASE NeedValidation(t)
  <2>1. /\ Go(t, "lookup", "connect")
        /\ Routed(t, "connect", "GET") /\ "GET" \in Methods
        /\ L!Call(t)
        /\ UNCHANGED <<cache_mtx, file, mainVars, client_fd, server_fd>>
    BY <1>9 DEF NeedValidation, Methods
  <2>2. Passes("lookup", "connect")
    OBVIOUS
  <2> QED
    BY <2>1, <2>2, PassesInv
<1>10. CASE Add(t)
  BY <1>10, StepInv DEF Add
<1>11. CASE AddThrows(t)
  BY <1>11, AddThrowsInv
<1>3. CASE ConnectRefused(t) \/ Connect(t)
  BY <1>3, ConnectRefusedInv, ConnectInv
<1>4. CASE Guard(t)
  BY <1>4, StepInv DEF Guard
<1>5. CASE Fetched(t) \/ NotModified(t) \/ Modified(t)
  BY <1>5, StepInv DEF Fetched, NotModified, Modified
<1>6. CASE ServerError(t) \/ Responding(t) \/ TunnelClosed(t) \/ Caught(t)
  BY <1>6, StepInv DEF ServerError, Responding, TunnelClosed, Caught
<1>7. CASE CloseServer(t) \/ CloseClient(t) \/ Catch(t)
  BY <1>7, CloseServerInv, CloseClientInv, CatchInv
<1>8. CASE Throw(t)
  BY <1>8, StepInv DEF Throw
<1> QED
  BY <1>1, <1>2, <1>3, <1>4, <1>5, <1>6, <1>7, <1>8, <1>9, <1>10, <1>11 DEF Handle

LEMMA AwaitInv == ASSUME Inv, NEW t \in Handlers, Await(t) PROVE Inv'
<1> USE DEF Passes, Stages, Connected, Unconnected
<1>1. CASE ReceiveRequest(t) \/ NoRequest(t)
  BY <1>1, StepInv DEF ReceiveRequest, NoRequest
<1>2. CASE Answered(t) \/ Chunked(t) \/ Posted(t)
  BY <1>2, StepInv DEF Answered, Chunked, Posted
<1>3. CASE RelayEnds(t) \/ TunnelEnds(t) \/ Reply(t) \/ Send(t)
  BY <1>3, StepInv DEF RelayEnds, TunnelEnds, Reply, Send
<1>4. CASE Broken(t)
  BY <1>4, StepInv DEF Broken
<1> QED
  BY <1>1, <1>2, <1>3, <1>4 DEF Await

LEMMA NextInv == Inv /\ [Next]_vars => Inv'
<1> SUFFICES ASSUME Inv, [Next]_vars PROVE Inv'
  OBVIOUS
<1>1. CASE Start
  BY <1>1, StartInv
<1>2. CASE AcceptLoop \/ ClientConnects
  BY <1>2, AcceptInv, QueueInv, SpawnInv, SpawnFailsInv DEF AcceptLoop
<1>3. CASE MainLogThrows
  BY <1>3, MainLogThrowsInv
<1>4. ASSUME NEW t \in Threads, InLog(t) PROVE Inv'
  BY <1>4, OpenLogInv, WriteLogInv DEF InLog
<1>5. ASSUME NEW t \in Handlers, Handle(t) \/ Await(t) PROVE Inv'
  BY <1>5, HandleInv, AwaitInv
<1>6. ASSUME NEW t \in Handlers, LogThrows(t) PROVE Inv'
  BY <1>6, LogThrowsInv
<1>7. ASSUME NEW t \in Handlers, Terminate(t) PROVE Inv'
  BY <1>7, ExitInv DEF Terminate
<1>8. CASE UNCHANGED vars
  <2>1. UNCHANGED <<cache_mtx, file, mainVars, handlerVars, mtx, at, log_f>>
    BY <1>8 DEF vars, logVars
  <2> QED
    BY <2>1 DEF Inv, TypeOK, StagesOK, Over, OwnDescriptors, L!LogOK, mainVars, handlerVars
<1> QED
  BY <1>1, <1>2, <1>3, <1>4, <1>5, <1>6, <1>7, <1>8 DEF Next

\* For any number of handlers, descriptors and waiting connections, whatever
\* is allocated or not: a descriptor that a thread goes on to use is open, of
\* the kind it takes it for, and its own (main.cpp, proxy.cpp:12-142,
\* Socket_connection.cpp, proxy.hpp:95-103).
THEOREM ServerInvariant == Spec => []Inv
  BY InitInv, NextInv, PTL DEF Spec
---------------------------------------------------------------------------
(* Lost descriptors *)

\* Steps that change neither the table nor who owns what lose nothing.
LEMMA SameLost ==
  ASSUME UNCHANGED <<file, listener, new_fd, client_fd, server_fd, log_f>>
  PROVE  Lost' = Lost
  BY DEF Lost

\* A descriptor that is taken has an owner from then on, one that changes
\* hands keeps one, and one that its owner gives up is closed.
LEMMA TakenAndGiven ==
  ASSUME Inv,
         \/ Listen \/ Accept
         \/ \E t \in Handlers : Spawn(t) \/ Connect(t) \/ CloseServer(t)
                                \/ CloseClient(t) \/ Catch(t)
         \/ \E t \in Threads : OpenLog(t) \/ WriteLog(t)
  PROVE  Lost' = Lost
<1>1. CASE Listen
  <2>1. /\ listener = NULL
        /\ listener' \in Descriptors /\ file[listener'] = "free"
        /\ file' = [file EXCEPT ![listener'] = "listener"]
        /\ UNCHANGED <<new_fd, client_fd, server_fd, log_f>>
    BY <1>1 DEF Listen, Take, Lowest, Inv, StagesOK, Over, logVars, handlerVars
  <2> QED
    BY <2>1, DistinctAssumption DEF Lost, Inv, TypeOK
<1>2. CASE Accept
  <2>1. /\ new_fd = NULL
        /\ new_fd' \in Descriptors /\ file[new_fd'] = "free"
        /\ file' = [file EXCEPT ![new_fd'] = "client"]
        /\ UNCHANGED <<listener, client_fd, server_fd, log_f>>
    BY <1>2 DEF Accept, MainReady, Take, Lowest, Inv, StagesOK, Over, logVars, handlerVars
  <2> QED
    BY <2>1, DistinctAssumption DEF Lost, Inv, TypeOK
<1>3. ASSUME NEW t \in Handlers, Spawn(t) PROVE Lost' = Lost
  <2>1. /\ client_fd[t] = NULL
        /\ client_fd' = [client_fd EXCEPT ![t] = new_fd]
        /\ new_fd' = NULL
        /\ UNCHANGED <<file, listener, server_fd, log_f>>
    BY <1>3 DEF Spawn, Inv, StagesOK, Over, logVars
  <2> QED
    BY <2>1, DistinctAssumption DEF Lost, Inv, TypeOK
<1>4. ASSUME NEW t \in Handlers, Connect(t) PROVE Lost' = Lost
  <2>1. PICK d \in Descriptors :
          Take(d, "server") /\ server_fd' = [server_fd EXCEPT ![t] = d]
    BY <1>4 DEF Connect
  <2>2. /\ server_fd[t] = NULL
        /\ file[d] = "free" /\ file' = [file EXCEPT ![d] = "server"]
        /\ UNCHANGED <<listener, new_fd, client_fd, log_f>>
    BY <1>4, <2>1, CallOK
    DEF Connect, Take, Lowest, Inv, StagesOK, Over, Go, Ready, Unconnected, mainVars
  <2> QED
    BY <2>1, <2>2, DistinctAssumption DEF Lost, Inv, TypeOK
<1>5. ASSUME NEW t \in Handlers, CloseServer(t) PROVE Lost' = Lost
  <2>1. /\ server_fd[t] \in Descriptors
        /\ server_fd' = [server_fd EXCEPT ![t] = NULL]
        /\ file' = [file EXCEPT ![server_fd[t]] = "free"]
        /\ UNCHANGED <<listener, new_fd, client_fd, log_f>>
    BY <1>5 DEF CloseServer, BackTo, Inv, TypeOK, logVars, mainVars
  <2> QED
    BY <2>1, DistinctAssumption DEF Lost, Inv, TypeOK
<1>6. ASSUME NEW t \in Handlers, CloseClient(t) \/ Catch(t) PROVE Lost' = Lost
  <2>1. /\ client_fd[t] \in Descriptors
        /\ client_fd' = [client_fd EXCEPT ![t] = NULL]
        /\ file' = [file EXCEPT ![client_fd[t]] = "free"]
        /\ UNCHANGED <<listener, new_fd, server_fd, log_f>>
    BY <1>6, CallOK
    DEF CloseClient, Catch, Closing, BackTo, Inv, TypeOK, StagesOK, Over, logVars, mainVars
  <2> QED
    BY <2>1, DistinctAssumption DEF Lost, Inv, TypeOK
<1>7. ASSUME NEW t \in Threads, OpenLog(t) PROVE Lost' = Lost
  <2>1. PICK d \in Descriptors \cup {NULL} :
          /\ L!Open(t, d)
          /\ \/ d = NULL /\ file' = file
             \/ file[d] = "free" /\ file' = [file EXCEPT ![d] = "log"]
    BY <1>7 DEF OpenLog, Take, Lowest
  <2>2. /\ log_f[t] = NULL
        /\ log_f' = [log_f EXCEPT ![t] = d]
        /\ UNCHANGED <<listener, new_fd, client_fd, server_fd>>
    BY <1>7, <2>1 DEF OpenLog, L!Open, L!Goto, Inv, L!LogOK, mainVars, handlerVars
  <2> QED
    BY <2>1, <2>2, DistinctAssumption DEF Lost, Inv, TypeOK, L!LogOK
<1>8. ASSUME NEW t \in Threads, WriteLog(t) PROVE Lost' = Lost
  <2>1. /\ log_f' = [log_f EXCEPT ![t] = NULL]
        /\ \/ log_f[t] = NULL /\ file' = file
           \/ log_f[t] \in Descriptors /\ file' = [file EXCEPT ![log_f[t]] = "free"]
        /\ UNCHANGED <<listener, new_fd, client_fd, server_fd>>
    BY <1>8 DEF WriteLog, L!Close, BackTo, Inv, L!LogOK, mainVars, handlerVars
  <2> QED
    BY <2>1, DistinctAssumption DEF Lost, Inv, TypeOK, L!LogOK
<1> QED
  BY <1>1, <1>2, <1>3, <1>4, <1>5, <1>6, <1>7, <1>8

\* A handler that stays on its way has the same connections.
LEMMA HandlerLost ==
  ASSUME Inv, NEW t \in Handlers, Handle(t) \/ Await(t), ~ConnectRefused(t)
  PROVE  Lost' = Lost
<1> DEFINE SameHands ==
      UNCHANGED <<file, listener, new_fd, client_fd, server_fd, log_f>>
<1>1. ASSUME NEW from, NEW to, Step(t, from, to) \/ LogStep(t, from, to) PROVE SameHands
  BY <1>1, CallOK DEF Step, LogStep, logVars, mainVars
<1>2. CASE \E m \in Methods : NeedServer(t, m)
  BY <1>2, CallOK, SameLost DEF NeedServer, logVars, mainVars
<1>3. CASE Connect(t) \/ CloseServer(t) \/ CloseClient(t) \/ Catch(t)
  BY <1>3, TakenAndGiven
<1>4. CASE Await(t)
  BY <1>1, <1>4, SameLost
  DEF Await, ReceiveRequest, NoRequest, Answered, Chunked, Posted, RelayEnds,
      TunnelEnds, Reply, Send, Broken
<1>5. CASE \/ Unsupported(t) \/ CacheHit(t) \/ Guard(t) \/ Fetched(t) \/ NotModified(t)
           \/ Modified(t) \/ ServerError(t) \/ Responding(t) \/ TunnelClosed(t)
           \/ Caught(t) \/ Throw(t) \/ Found(t) \/ Add(t)
  BY <1>1, <1>5, SameLost
  DEF Unsupported, CacheHit, Guard, Fetched, NotModified, Modified, ServerError,
      Responding, TunnelClosed, Caught, Throw, Found, Add
<1>6. CASE NeedValidation(t) \/ AddThrows(t)
  BY <1>6, CallOK, SameLost DEF NeedValidation, AddThrows, logVars, mainVars
<1> QED
  BY <1>2, <1>3, <1>4, <1>5, <1>6 DEF Handle

LEMMA LogThrowsLost ==
  ASSUME Inv, NEW t \in Handlers, LogThrows(t), stage[t] # "request"
  PROVE  Lost' = Lost
  BY SameLost DEF LogThrows, L!Throw, mainVars

\* Whatever is thrown wherever: descriptors are lost by the end of the process
\* or in the four places, and nowhere else (Socket_connection.cpp:47 and 96,
\* proxy.cpp:22 and 235).
THEOREM DescriptorsLost == Spec => LostOnlyThere
<1> DEFINE There ==
      \/ Over' \/ BindFails \/ SpawnFails
      \/ \E t \in Handlers :
           ConnectRefused(t) \/ (LogThrows(t) /\ stage[t] = "request")
<1>1. Inv /\ [Next]_vars => [Lost' # Lost => There]_vars
  <2> SUFFICES ASSUME Inv, Next, ~There PROVE Lost' = Lost
    OBVIOUS
  <2>1. CASE Start
    BY <2>1, TakenAndGiven DEF Start, StartFails, Exit, Over
  <2>2. CASE AcceptLoop
    <3>1. CASE AcceptFails
      BY <3>1, CallOK, SameLost DEF AcceptFails, handlerVars
    <3> QED
      BY <2>2, <3>1, TakenAndGiven DEF AcceptLoop
  <2>3. CASE ClientConnects
    BY <2>3, SameLost DEF ClientConnects, logVars, handlerVars
  <2>4. CASE MainLogThrows
    BY <2>4, SameLost DEF MainLogThrows, L!Throw, mainVars, handlerVars
  <2>5. ASSUME NEW t \in Threads, InLog(t) PROVE Lost' = Lost
    BY <2>5, TakenAndGiven DEF InLog
  <2>6. ASSUME NEW t \in Handlers, Handle(t) \/ Await(t) PROVE Lost' = Lost
    BY <2>6, HandlerLost
  <2>7. ASSUME NEW t \in Handlers, LogThrows(t) PROVE Lost' = Lost
    BY <2>7, LogThrowsLost
  <2>8. ASSUME NEW t \in Handlers, Terminate(t) PROVE Lost' = Lost
    BY <2>8 DEF Terminate, Exit, Over
  <2> QED
    BY <2>1, <2>2, <2>3, <2>4, <2>5, <2>6, <2>7, <2>8 DEF Next
<1> QED
  BY <1>1, ServerInvariant, PTL DEF Spec, LostOnlyThere
===========================================================================
