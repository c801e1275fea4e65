----------------------------- MODULE MCProxy -----------------------------
(* Small instances of Proxy for TLC. *)
EXTENDS Proxy, TLC

Request(m, k, noCache, noStore, slack) ==
  [method |-> m, uri |-> k, noCache |-> noCache, noStore |-> noStore,
   slack |-> slack]

PlainGets == {Request("GET", k, FALSE, FALSE, 0) : k \in Keys}

\* With Cache-Control: max-stale of one time unit.
PatientGets == {Request("GET", k, FALSE, FALSE, 1) : k \in Keys}

\* Every method, and a client that wants neither a cached response nor its
\* own to be cached.
AllRequests ==
  PlainGets
    \cup {Request("GET", k, TRUE, TRUE, 0) : k \in Answering}
    \cup {Request("POST", k, FALSE, FALSE, 0) : k \in Answering}
    \cup {Request("CONNECT", k, FALSE, FALSE, 0) : k \in Keys \ Answering}

\* Clients that ask the other origins do not read either.
SomeRead == {q \in AllRequests : q.uri \in Answering}

\* Fresh when just received, for a patient client, and never.
Lives == {0, Never}
AlwaysStale == {Never}
BadLives == {1, Bad}

Symmetry ==
  Permutations(Threads) \cup Permutations(Keys) \cup Permutations(Nodes)
===========================================================================
