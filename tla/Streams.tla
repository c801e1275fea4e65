------------------------------ MODULE Streams ------------------------------
(***************************************************************************)
(* What a CONNECT tunnel promises its two ends: a stream of bytes in each  *)
(* direction, the one to the client opened by the proxy's answer.  A byte  *)
(* is heard after all that were said before it, and none disappears but    *)
(* when its reader leaves or the tunnel ends.  When it ends because one    *)
(* end has no more to say, nothing of what that end said is lost, but      *)
(* to a reader that is interrupted: an end that has not said all when the  *)
(* tunnel ends, or not all of whose words were taken, may hear no more.    *)
(* No poll, no buffers, no loop: module Tunnel implements this one.        *)
(***************************************************************************)
EXTENDS Integers, Sequences

CONSTANT Answer \* the proxy's own first byte

VARIABLES
  state,  \* of the tunnel
  said,   \* for each end, how many bytes it has said
  pipe,   \* for each end, what is on the way to it
  heard,  \* for each end, what it has heard
  silent, \* the ends that say no more
  left    \* the ends that hear no more

streamVars == <<state, said, pipe, heard, silent, left>>

Client == 0
Both == {0, 1}
Opposite(e) == 1 - e

StreamsInit ==
  /\ state = "waiting"
  /\ said = [e \in Both |-> 0]
  /\ pipe = [e \in Both |-> <<>>]
  /\ heard = [e \in Both |-> <<>>]
  /\ silent = {}
  /\ left = {}

Open ==
  /\ state = "waiting"
  /\ state' = "open"
  /\ pipe' = [pipe EXCEPT ![Client] = <<Answer>>]
  /\ UNCHANGED <<said, heard, silent, left>>

Say(e) ==
  /\ state = "open" /\ e \notin silent
  /\ said' = [said EXCEPT ![e] = @ + 1]
  /\ pipe' = IF Opposite(e) \in left THEN pipe
             ELSE [pipe EXCEPT ![Opposite(e)] = Append(@, said'[e])]
  /\ UNCHANGED <<state, heard, silent, left>>

\* Also after the tunnel has ended.
Hear(e) ==
  /\ pipe[e] # <<>>
  /\ heard' = [heard EXCEPT ![e] = Append(@, Head(pipe[e]))]
  /\ pipe' = [pipe EXCEPT ![e] = Tail(@)]
  /\ UNCHANGED <<state, said, silent, left>>

Stop(e) ==
  /\ state = "open" /\ e \notin silent
  /\ silent' = silent \cup {e}
  /\ UNCHANGED <<state, said, pipe, heard, left>>

Leave(e) ==
  /\ state = "open" /\ e \notin left
  /\ left' = left \cup {e}
  /\ silent' = silent \cup {e}
  /\ pipe' = [pipe EXCEPT ![e] = <<>>]
  /\ UNCHANGED <<state, said, heard>>

\* The ends of S lose an end piece of what is on the way to them.
Cut(S) ==
  \E n \in 0 .. Len(pipe[0]), m \in 0 .. Len(pipe[1]) :
    /\ 0 \in S \/ n = Len(pipe[0])
    /\ 1 \in S \/ m = Len(pipe[1])
    /\ pipe' = [pipe EXCEPT ![0] = SubSeq(@, 1, n), ![1] = SubSeq(@, 1, m)]

End(S) ==
  /\ state' = "ended"
  /\ Cut(S)
  /\ UNCHANGED <<said, heard, silent, left>>

\* End e has said all: only what is on the way to e itself may be lost.
Close(e) == state = "open" /\ e \in silent /\ End({e})

Fail == state # "ended" /\ End(Both)

\* How many bytes the stream to end e has when its other end has said n.
Total(e, n) == n + IF e = Client THEN 1 ELSE 0

\* End e has more to say, or something that it said is lost.
Interrupted(e) ==
  LET o == Opposite(e)
  IN  e \notin silent \/ Len(heard[o]) + Len(pipe[o]) < Total(o, said[e])

Reset(e) ==
  /\ state = "ended" /\ e \notin left
  /\ Interrupted(e)
  /\ left' = left \cup {e}
  /\ silent' = silent \cup {e}
  /\ pipe' = [pipe EXCEPT ![e] = <<>>]
  /\ UNCHANGED <<state, said, heard>>

StreamsNext ==
  \/ Open \/ Fail
  \/ \E e \in Both : \/ Say(e) \/ Hear(e) \/ Stop(e) \/ Leave(e)
                     \/ Close(e) \/ Reset(e)

StreamsSpec == StreamsInit /\ [][StreamsNext]_streamVars
===========================================================================
