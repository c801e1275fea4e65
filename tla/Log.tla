-------------------------------- MODULE Log --------------------------------
(***************************************************************************)
(* log_id of proxy.cpp: the threads append lines to one file under a mutex *)
(* that no guard object releases.  The file is opened and closed for every *)
(* line, so every line needs a file descriptor; without one the line is    *)
(* lost.  The steps are composed by module Server, which has the table of  *)
(* descriptors.                                                            *)
(***************************************************************************)
CONSTANTS
  Threads,     \* all threads that log
  Descriptors, \* file descriptors
  AllocFails,  \* whether operator new may throw
  NULL         \* no thread, no descriptor

VARIABLES
  mtx,  \* the thread that holds the mutex, or NULL
  at,   \* where each thread is in its call of log_id
  log_f \* the descriptor of each thread's ofstream, or NULL

logVars == <<mtx, at, log_f>>

Points == {"idle", "lock", "write", "threw"}

Init ==
  /\ mtx = NULL
  /\ at = [t \in Threads |-> "idle"]
  /\ log_f = [t \in Threads |-> NULL]

Goto(t, from, to) == at[t] = from /\ at' = [at EXCEPT ![t] = to]

\* The call.  A thread that calls again after log_id has thrown waits for a
\* mutex that it holds itself.
Call(t) ==
  /\ at[t] \in {"idle", "threw"}
  /\ at' = [at EXCEPT ![t] = "lock"]
  /\ UNCHANGED <<mtx, log_f>>

\* lock, and log_f.open, which takes descriptor d, or NULL: then it has failed,
\* without throwing.  (No other thread can tell when, between the two, it
\* was kept out.)
Open(t, d) ==
  /\ mtx = NULL
  /\ Goto(t, "lock", "write")
  /\ mtx' = t
  /\ log_f' = [log_f EXCEPT ![t] = d]

\* The stream's buffer cannot be allocated: the exception leaves log_id
\* between lock and unlock.  The ofstream's destructor closes the file.
Throw(t) ==
  /\ AllocFails
  /\ mtx = NULL
  /\ Goto(t, "lock", "threw")
  /\ mtx' = t
  /\ UNCHANGED log_f

BugClose(t) ==
  /\ Goto(t, "write", "idle")
  /\ mtx' = IF log_f[t] = NULL THEN mtx ELSE NULL
  /\ log_f' = [log_f EXCEPT ![t] = NULL]

\* The line is written if there is a file, which is closed; unlock.
Close(t) ==
  /\ Goto(t, "write", "idle")
  /\ mtx' = NULL
  /\ log_f' = [log_f EXCEPT ![t] = NULL]

\* log_id has thrown: the mutex is held for good.
Stuck == \E t \in Threads : mtx = t /\ at[t] \in {"threw", "lock"}

\* The mutex is held by the thread between lock and unlock, or by the one
\* in which log_id threw, whatever that does next.
LogOK ==
  /\ mtx \in Threads \cup {NULL}
  /\ at \in [Threads -> Points]
  /\ log_f \in [Threads -> Descriptors \cup {NULL}]
  /\ \A t \in Threads :
       /\ at[t] \in {"write", "threw"} => mtx = t
       /\ at[t] # "write" => log_f[t] = NULL
===========================================================================
