---------------------------- MODULE Timestamps ----------------------------
(***************************************************************************)
(* The times in the log lines: get_current_time, and the expiry time of    *)
(* get_from_server.  Both hand a time to gmtime and the result to asctime, *)
(* and copy the text into the message, before log_id takes its mutex.  The *)
(* results of gmtime and asctime are in buffers that all threads share.    *)
(***************************************************************************)
EXTENDS Naturals

CONSTANTS
  Threads,   \* connection threads
  Lifetimes, \* freshness lifetimes
  MaxClock,  \* bound: time passes no further
  Torn,      \* the contents of a buffer read or written by two threads at once
  NULL       \* no time

VARIABLES
  clock,  \* time(0)
  tm,     \* the struct tm that gmtime returns a pointer to
  text,   \* the characters that asctime returns a pointer to
  at,     \* where each thread is
  line,   \* which line each thread composes, "request" or "expires"
  asked,  \* the time_t each thread wants in its message
  message \* the time in each thread's message

vars == <<clock, tm, text, at, line, asked, message>>

Init ==
  /\ clock = 0
  /\ tm = 0
  /\ text = 0
  /\ at = [t \in Threads |-> "idle"]
  /\ line = [t \in Threads |-> NULL]
  /\ asked = [t \in Threads |-> NULL]
  /\ message = [t \in Threads |-> NULL]

Tick ==
  /\ clock < MaxClock
  /\ clock' = clock + 1
  /\ UNCHANGED <<tm, text, at, line, asked, message>>

Goto(t, from, to) == at[t] = from /\ at' = [at EXCEPT ![t] = to]

\* get_current_time, for the line about a new request.
AskNow(t) ==
  /\ Goto(t, "idle", "gmtime")
  /\ line' = [line EXCEPT ![t] = "request"]
  /\ asked' = [asked EXCEPT ![t] = clock]
  /\ UNCHANGED <<clock, tm, text, message>>

\* "cached, expires at ".
AskExpiry(t) ==
  /\ Goto(t, "idle", "gmtime")
  /\ line' = [line EXCEPT ![t] = "expires"]
  /\ \E life \in Lifetimes : asked' = [asked EXCEPT ![t] = clock + life]
  /\ UNCHANGED <<clock, tm, text, message>>

\* What a thread leaves or finds in a buffer while another may be at a step
\* that writes it: v, or a mixture.
Racy(t, v, writing) ==
  {v} \cup {Torn : u \in {u \in Threads \ {t} : at[u] = writing}}

Gmtime(t) ==
  /\ Goto(t, "gmtime", "asctime")
  /\ tm' \in Racy(t, asked[t], "gmtime")
  /\ UNCHANGED <<clock, text, line, asked, message>>

Asctime(t) ==
  /\ Goto(t, "asctime", "copy")
  /\ text' \in UNION {Racy(t, v, "asctime") : v \in Racy(t, tm, "gmtime")}
  /\ UNCHANGED <<clock, tm, line, asked, message>>

\* std::string copies the text.
Copy(t) ==
  /\ Goto(t, "copy", "log")
  /\ \E v \in Racy(t, text, "asctime") : message' = [message EXCEPT ![t] = v]
  /\ UNCHANGED <<clock, tm, text, line, asked>>

\* log_id writes the message.
Logged(t) ==
  /\ Goto(t, "log", "idle")
  /\ line' = [line EXCEPT ![t] = NULL]
  /\ asked' = [asked EXCEPT ![t] = NULL]
  /\ message' = [message EXCEPT ![t] = NULL]
  /\ UNCHANGED <<clock, tm, text>>

Next ==
  \/ Tick
  \/ \E t \in Threads :
       AskNow(t) \/ AskExpiry(t) \/ Gmtime(t) \/ Asctime(t) \/ Copy(t) \/ Logged(t)

Spec == Init /\ [][Next]_vars
---------------------------------------------------------------------------
(***************************************************************************)
(* testcases.txt:23 and 50 say of the line "cached, expires at ..." that   *)
(* it shows the expiration time correctly: the time in such a line is the  *)
(* one that its thread computed.                                           *)
(***************************************************************************)
ExpiryShownCorrectly ==
  \A t \in Threads :
    at[t] = "log" /\ line[t] = "expires" => message[t] = asked[t]
===========================================================================
