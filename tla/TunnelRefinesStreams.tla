----------------------- MODULE TunnelRefinesStreams -----------------------
(***************************************************************************)
(* The proof that the tunnel implements the two streams of module Streams, *)
(* under the refinement mapping of module Tunnel.                          *)
(*                                                                         *)
(* While the tunnel is open, what is on the way to an end is determined by *)
(* what the end has read and by its whole stream, which are the same       *)
(* before and after every step of the handler: so all of these stutter.    *)
(***************************************************************************)
EXTENDS TunnelProofs

\* The stream of end e, the answer included as soon as it is owed.
Owed(e) ==
  (IF e = 0 /\ stage # "connect" THEN <<OK>> ELSE <<>>) \o Said(Other(e))

Phase ==
  CASE stage = "connect" -> "waiting"
    [] stage \in Ended -> "ended"
    [] OTHER -> "open"

Way == [e \in Ends |-> OnTheWay(e)]

---------------------------------------------------------------------------
(* Sequences of bytes *)

LEMMA Cancel ==
  ASSUME NEW s \in Bytes, NEW t \in Bytes, NEW u \in Bytes, s \o t = s \o u
  PROVE  t = u
<1>1. Len(s) \in Nat /\ Len(t) \in Nat /\ Len(u) \in Nat
  BY LenProperties DEF Bytes
<1>2. /\ Len(s \o t) = Len(s) + Len(t)
      /\ \A k \in 1 .. Len(s) + Len(t) :
           (s \o t)[k] = IF k <= Len(s) THEN s[k] ELSE t[k - Len(s)]
  BY ConcatProperties DEF Bytes
<1>3. /\ Len(s \o u) = Len(s) + Len(u)
      /\ \A k \in 1 .. Len(s) + Len(u) :
           (s \o u)[k] = IF k <= Len(s) THEN s[k] ELSE u[k - Len(s)]
  BY ConcatProperties DEF Bytes
<1>4. Len(t) = Len(u)
  BY <1>1, <1>2, <1>3
<1>5. ASSUME NEW k \in 1 .. Len(t) PROVE t[k] = u[k]
  <2>1. Len(s) + k \in 1 .. Len(s) + Len(t) /\ ~(Len(s) + k <= Len(s))
        /\ (Len(s) + k) - Len(s) = k
    BY <1>1
  <2>2. (s \o t)[Len(s) + k] = t[k] /\ (s \o u)[Len(s) + k] = u[k]
    BY <1>2, <1>3, <1>4, <2>1
  <2> QED
    BY <2>2
<1> QED
  BY <1>4, <1>5, SeqEqual DEF Bytes

\* A sequence with a first part that is not empty starts as that part does.
LEMMA SameHead ==
  ASSUME NEW s \in Bytes, NEW t \in Bytes, s # <<>>, IsPrefix(s, t)
  PROVE  t # <<>> /\ Head(t) = Head(s)
<1>1. Len(s) \in Nat /\ Len(t) \in Nat /\ Len(s) # 0
  BY LenProperties, EmptySeq DEF Bytes
<1>2. Len(s) <= Len(t) /\ s[1] = t[1]
  <2>1. Len(s) <= Len(t) /\ \A n \in 1 .. Len(s) : s[n] = t[n]
    BY Prefix
  <2> QED
    BY <1>1, <2>1
<1>3. t # <<>>
  BY <1>1, <1>2, EmptySeq
<1> QED
  BY <1>2, <1>3

LEMMA CutPrefix ==
  ASSUME NEW s \in Bytes, NEW t \in Bytes, IsPrefix(s, t)
  PROVE  Len(s) \in 0 .. Len(t) /\ s = SubSeq(t, 1, Len(s))
<1>1. Len(s) \in Nat /\ Len(t) \in Nat
  BY LenProperties DEF Bytes
<1>2. Len(s) <= Len(t) /\ SubSeq(s, 1, Len(s)) = SubSeq(t, 1, Len(s))
  BY DEF IsPrefix
<1>3. SubSeq(s, 1, Len(s)) = s
  BY SubSeqFull DEF Bytes
<1> QED
  BY <1>1, <1>2, <1>3

---------------------------------------------------------------------------
(* What is on the way *)

LEMMA WayOfGone ==
  IInv => \A d \in Ends : d \in gone => OnTheWay(d) = <<>>
<1> SUFFICES ASSUME IInv, NEW e \in Ends, e \in gone
             PROVE  OnTheWay(e) = <<>>
  OBVIOUS
<1>1. outbox[e] = <<>>
  BY DEF IInv, StreamOK
<1> QED
  BY <1>1 DEF OnTheWay

LEMMA WayOfEnded ==
  \A d \in Ends : d \notin gone /\ stage \in Ended => OnTheWay(d) = outbox[d]
BY DEF OnTheWay

\* What is in the socket comes first; with what has been read before it, what is
\* on the way is all that is owed.
LEMMA WayOfOpen ==
  IInv => \A d \in Ends : d \notin gone /\ stage \notin Ended =>
            /\ OnTheWay(d) \in Bytes /\ IsPrefix(outbox[d], OnTheWay(d))
            /\ delivered[d] \o OnTheWay(d) = Owed(d)
<1> SUFFICES ASSUME IInv, NEW e \in Ends, e \notin gone, stage \notin Ended
             PROVE  /\ OnTheWay(e) \in Bytes /\ IsPrefix(outbox[e], OnTheWay(e))
                    /\ delivered[e] \o OnTheWay(e) = Owed(e)
  OBVIOUS
<1>0. SequencesOK /\ BeginningOK /\ Other(e) \in Ends
  BY TwoEnds DEF IInv
<1>f. PICK f \in Ends : f = Other(e)
  BY <1>0
<1>1. /\ InHand(f) \in Bytes /\ Said(f) \in Bytes
      /\ delivered[e] \in Bytes /\ outbox[e] \in Bytes /\ inbox[f] \in Bytes
  BY <1>0, BytesEverywhere, SaidIsBytes DEF SequencesOK
<1>d. PICK d \in Bytes : d = delivered[e]
  BY <1>1
<1>o. PICK o \in Bytes : o = outbox[e]
  BY <1>1
<1>h. PICK h \in Bytes : h = InHand(f)
  BY <1>1
<1>p. (d \o o) \o h = d \o (o \o h)
  BY Associates
<1>q. PICK q \in Bytes : q = o \o h /\ IsPrefix(o, q)
  <2>1. o \o h \in Bytes /\ IsPrefix(o, o \o h)
    BY Concatenated, PrefixGrows
  <2> QED
    BY <2>1
<1>n. PICK n \in Bytes : n = inbox[f]
  BY <1>1
<1>r. (d \o q) \o n = d \o (q \o n)
  BY Associates
<1>t. q \o n \in Bytes /\ IsPrefix(o, q \o n)
  BY <1>q, Concatenated, PrefixGrows
<1>s. PICK s \in Bytes : s = Said(f)
  BY <1>1
<1>a. PICK a \in Bytes : a = <<OK>>
  <2>1. <<OK>> \in Bytes
    BY DEF Bytes, OK
  <2> QED
    BY <2>1
<1>2. ((d \o o) \o h) \o n = Stream(e)
  BY <1>d, <1>o, <1>h, <1>n, <1>f DEF IInv, StreamOK, Passed
<1>3. CASE e = 0 /\ stage = "ok"
  <2>1. d = <<>> /\ o = <<>> /\ h = <<>>
    BY <1>0, <1>3, <1>d, <1>o, <1>h DEF BeginningOK, InHand
  <2>2. OnTheWay(e) = ((o \o a) \o h) \o n
    BY <1>3, <1>a, <1>o, <1>h, <1>n, <1>f DEF OnTheWay
  <2>3. Stream(e) = <<>> \o s /\ Owed(e) = a \o s
    BY <1>3, <1>a, <1>s, <1>f DEF Stream, Owed, Said
  <2>4. /\ <<>> \o a = a /\ a \o <<>> = a /\ <<>> \o n = n /\ <<>> \o s = s
        /\ <<>> \o <<>> = <<>>
    BY Concatenated
  <2>5. n = s /\ OnTheWay(e) = a \o n
    BY <1>2, <2>1, <2>2, <2>3, <2>4
  <2>6. a \o n \in Bytes /\ <<>> \in Bytes
    BY Concatenated
  <2>w. PICK w \in Bytes : w = a \o n
    BY <2>6
  <2>7. <<>> \o w = w /\ IsPrefix(<<>>, <<>> \o w)
    BY <2>6, Concatenated, PrefixGrows
  <2> QED
    BY <1>d, <1>o, <2>1, <2>3, <2>5, <2>w, <2>7
<1>4. CASE ~(e = 0 /\ stage = "ok")
  <2>1. OnTheWay(e) = ((o \o <<>>) \o h) \o n
    BY <1>4, <1>o, <1>h, <1>n, <1>f DEF OnTheWay
  <2>2. o \o <<>> = o
    BY Concatenated
  <2>3. Owed(e) = Stream(e)
    BY <1>4 DEF Owed, Stream, Said
  <2> QED
    BY <1>2, <1>d, <1>o, <2>1, <2>2, <2>3, <1>p, <1>q, <1>r, <1>t
<1> QED
  BY <1>3, <1>4

\* It is a sequence that starts with what is in the socket, whatever the stage.
LEMMA WayOK ==
  IInv => \A d \in Ends : OnTheWay(d) \in Bytes /\ IsPrefix(outbox[d], OnTheWay(d))
<1> SUFFICES ASSUME IInv, NEW e \in Ends
             PROVE  OnTheWay(e) \in Bytes /\ IsPrefix(outbox[e], OnTheWay(e))
  OBVIOUS
<1>o. PICK o \in Bytes : o = outbox[e]
  BY DEF IInv, SequencesOK
<1>1. o \o <<>> = o /\ IsPrefix(o, o \o <<>>) /\ <<>> \in Bytes
  BY Concatenated, PrefixGrows, EmptySeq DEF Bytes
<1>2. CASE e \in gone
  <2>1. o = <<>> /\ OnTheWay(e) = <<>>
    BY <1>2, <1>o, WayOfGone DEF IInv, StreamOK
  <2> QED
    BY <1>1, <1>o, <2>1
<1>3. CASE e \notin gone /\ stage \in Ended
  <2>1. OnTheWay(e) = o
    BY <1>3, <1>o, WayOfEnded
  <2> QED
    BY <1>1, <1>o, <2>1
<1>4. CASE e \notin gone /\ stage \notin Ended
  BY <1>4, WayOfOpen
<1> QED
  BY <1>2, <1>3, <1>4

\* A step that gives an end nothing to read, and nothing more to be owed, moves
\* bytes only along the way.
LEMMA WayKept ==
  ASSUME IInv, IInv', NEW e \in Ends, stage \notin Ended, stage' \notin Ended,
         delivered'[e] = delivered[e], Owed(e)' = Owed(e),
         e \in gone' <=> e \in gone
  PROVE  OnTheWay(e)' = OnTheWay(e)
<1>0. (\A d \in Ends : d \notin gone /\ stage \notin Ended =>
            /\ OnTheWay(d) \in Bytes /\ IsPrefix(outbox[d], OnTheWay(d))
            /\ delivered[d] \o OnTheWay(d) = Owed(d))'
  BY WayOfOpen, PTL
<1>g. (\A d \in Ends : d \in gone => OnTheWay(d) = <<>>)'
  BY WayOfGone, PTL
<1>1. CASE e \in gone
  BY <1>1, <1>g, WayOfGone
<1>2. CASE e \notin gone
  <2>1. /\ OnTheWay(e) \in Bytes /\ OnTheWay(e)' \in Bytes /\ delivered[e] \in Bytes
        /\ delivered[e] \o OnTheWay(e) = Owed(e)
        /\ delivered'[e] \o OnTheWay(e)' = Owed(e)'
    BY <1>0, <1>2, WayOfOpen DEF IInv, SequencesOK
  <2>d. PICK d \in Bytes : d = delivered[e]
    BY <2>1
  <2>w. PICK w \in Bytes : w = OnTheWay(e)
    BY <2>1
  <2>x. PICK x \in Bytes : x = OnTheWay(e)'
    BY <2>1
  <2>2. d \o w = d \o x
    BY <2>1, <2>d, <2>w, <2>x
  <2>3. w = x
    BY <2>2, Cancel
  <2> QED
    BY <2>3, <2>w, <2>x
<1> QED
  BY <1>1, <1>2

\* What is owed changes only when the tunnel opens and when the other end sends.
LEMMA SameOwed ==
  ASSUME NEW e \in Ends, sent' = sent, stage = "connect" <=> stage' = "connect"
  PROVE  Owed(e)' = Owed(e)
BY DEF Owed, Said

---------------------------------------------------------------------------
(* The steps of module Streams, in terms of the phase and the way *)

LEMMA IsOpen ==
  Promised!Open <=> /\ Phase = "waiting" /\ Phase' = "open"
                    /\ Way' = [Way EXCEPT ![0] = <<OK>>]
                    /\ UNCHANGED <<sent, delivered, eof, gone>>
BY DEF Promised!Open, Promised!Client, Phase, Way

LEMMA IsSay ==
  ASSUME NEW e \in Ends
  PROVE  Promised!Say(e) <=>
           /\ Phase = "open" /\ e \notin eof
           /\ sent' = [sent EXCEPT ![e] = @ + 1]
           /\ Way' = IF Other(e) \in gone THEN Way
                     ELSE [Way EXCEPT ![Other(e)] = Append(@, sent'[e])]
           /\ Phase' = Phase /\ UNCHANGED <<delivered, eof, gone>>
BY DEF Promised!Say, Promised!Opposite, Other, Phase, Way

LEMMA IsHear ==
  ASSUME NEW e \in Ends
  PROVE  Promised!Hear(e) <=>
           /\ Way[e] # <<>>
           /\ delivered' = [delivered EXCEPT ![e] = Append(@, Head(Way[e]))]
           /\ Way' = [Way EXCEPT ![e] = Tail(@)]
           /\ Phase' = Phase /\ UNCHANGED <<sent, eof, gone>>
BY DEF Promised!Hear, Phase, Way

LEMMA IsStop ==
  ASSUME NEW e \in Ends
  PROVE  Promised!Stop(e) <=>
           /\ Phase = "open" /\ e \notin eof
           /\ eof' = eof \cup {e}
           /\ Phase' = Phase /\ Way' = Way /\ UNCHANGED <<sent, delivered, gone>>
BY DEF Promised!Stop, Phase, Way

LEMMA IsLeave ==
  ASSUME NEW e \in Ends
  PROVE  Promised!Leave(e) <=>
           /\ Phase = "open" /\ e \notin gone
           /\ gone' = gone \cup {e} /\ eof' = eof \cup {e}
           /\ Way' = [Way EXCEPT ![e] = <<>>]
           /\ Phase' = Phase /\ UNCHANGED <<sent, delivered>>
BY DEF Promised!Leave, Phase, Way

LEMMA IsReset ==
  ASSUME NEW e \in Ends
  PROVE  Promised!Reset(e) <=>
           /\ Phase = "ended" /\ e \notin gone
           /\ \/ e \notin eof
              \/ Len(delivered[Other(e)]) + Len(Way[Other(e)])
                   < sent[e] + IF Other(e) = 0 THEN 1 ELSE 0
           /\ gone' = gone \cup {e} /\ eof' = eof \cup {e}
           /\ Way' = [Way EXCEPT ![e] = <<>>]
           /\ Phase' = Phase /\ UNCHANGED <<sent, delivered>>
BY DEF Promised!Reset, Promised!Interrupted, Promised!Total, Promised!Client,
       Promised!Opposite, Other, Phase, Way

LEMMA IsEnd ==
  ASSUME NEW S
  PROVE  Promised!End(S) <=>
           /\ Phase' = "ended"
           /\ \E n \in 0 .. Len(Way[0]), m \in 0 .. Len(Way[1]) :
                /\ 0 \in S \/ n = Len(Way[0])
                /\ 1 \in S \/ m = Len(Way[1])
                /\ Way' = [Way EXCEPT ![0] = SubSeq(@, 1, n), ![1] = SubSeq(@, 1, m)]
           /\ UNCHANGED <<sent, delivered, eof, gone>>
BY DEF Promised!End, Promised!Cut, Phase, Way

LEMMA IsFail == Promised!Fail <=> Phase # "ended" /\ Promised!End(Ends)
BY DEF Promised!Fail, Promised!Both, Phase, Ends

LEMMA IsClose ==
  ASSUME NEW e \in Ends
  PROVE  Promised!Close(e) <=> Phase = "open" /\ e \in eof /\ Promised!End({e})
BY DEF Promised!Close, Phase

LEMMA IsStutter ==
  UNCHANGED Promised!streamVars
    <=> UNCHANGED <<Phase, Way, sent, delivered, eof, gone>>
BY DEF Promised!streamVars, Phase, Way

---------------------------------------------------------------------------
(* Every step is one of these, or a stutter *)

LEMMA Phases ==
  /\ Phase = "waiting" <=> stage = "connect"
  /\ Phase = "ended" <=> stage \in Ended
  /\ Phase = "open" <=> stage \notin {"connect"} \cup Ended
BY DEF Phase, Ended

LEMMA SameWay ==
  ASSUME \A e \in Ends : OnTheWay(e)' = OnTheWay(e)
  PROVE  Way' = Way
BY DEF Way

LEMMA SamePhase ==
  ASSUME stage = "connect" <=> stage' = "connect",
         stage \in Ended <=> stage' \in Ended
  PROVE  Phase' = Phase
BY DEF Phase

\* The steps of the handler between the connect and the end.
LEMMA HandlerStutters ==
  ASSUME IInv, IInv', stage \notin {"connect"} \cup Ended,
         stage' \notin {"connect"} \cup Ended,
         UNCHANGED <<delivered, sent, eof, gone>>
  PROVE  UNCHANGED Promised!streamVars
<1>1. ASSUME NEW e \in Ends PROVE OnTheWay(e)' = OnTheWay(e)
  BY SameOwed, WayKept
<1> QED
  BY <1>1, SameWay, SamePhase, IsStutter

LEMMA ConnectOpens ==
  ASSUME IInv, IInv', Connect
  PROVE  Promised!Open
<1>0. /\ stage = "connect" /\ stage' = "ok" /\ BeginningOK /\ SequencesOK
      /\ UNCHANGED <<inbox, outbox, delivered, sent, eof, conn, gone>>
      /\ gone = {} /\ buffer = <<>>
      /\ \A e \in Ends : inbox[e] = <<>> /\ outbox[e] = <<>>
                         /\ delivered[e] = <<>> /\ sent[e] = 0
  BY DEF Connect, kernel, gone, IInv, BeginningOK, TypeOK
<1>1. Phase = "waiting" /\ Phase' = "open"
  BY <1>0 DEF Phase, Ended
<1>a. PICK a \in Bytes : a = <<OK>>
  <2>1. <<OK>> \in Bytes
    BY DEF Bytes, OK
  <2> QED
    BY <2>1
<1>2. /\ <<>> \o <<>> = <<>> /\ a \o <<>> = a /\ <<>> \o a = a
  <2>1. <<>> \in Bytes
    BY EmptySeq DEF Bytes
  <2> QED
    BY <2>1, Concatenated
<1>3. ASSUME NEW e \in Ends
      PROVE  OnTheWay(e) = <<>> /\ OnTheWay(e)' = IF e = 0 THEN a ELSE <<>>
  <2>f. PICK f \in Ends : f = Other(e)
    BY TwoEnds
  <2>1. InHand(f) = <<>> /\ InHand(f)' = <<>>
    BY <1>0 DEF InHand
  <2>2. OnTheWay(e) = ((<<>> \o <<>>) \o <<>>) \o <<>>
    BY <1>0, <2>f, <2>1 DEF OnTheWay, Ended
  <2>3. OnTheWay(e)' = ((<<>> \o (IF e = 0 THEN a ELSE <<>>)) \o <<>>) \o <<>>
    BY <1>0, <1>a, <2>f, <2>1 DEF OnTheWay, Ended
  <2> QED
    BY <1>2, <2>2, <2>3
<1>4. Way' = [Way EXCEPT ![0] = <<OK>>]
  BY <1>3, <1>a DEF Way
<1> QED
  BY <1>0, <1>1, <1>4, IsOpen

\* When the tunnel ends, what is in a socket still arrives: the rest of the way
\* is cut off.
LEMMA EndCuts ==
  ASSUME IInv, IInv', stage \notin Ended, stage' \in Ended,
         UNCHANGED <<outbox, delivered, sent, eof, gone>>, NEW S,
         \A e \in Ends : e \notin S => OnTheWay(e) = outbox[e]
  PROVE  Promised!End(S)
<1>1. Phase' = "ended"
  BY DEF Phase, Ended
<1>2. ASSUME NEW e \in Ends
      PROVE  \E n \in 0 .. Len(OnTheWay(e)) :
               /\ OnTheWay(e)' = SubSeq(OnTheWay(e), 1, n)
               /\ e \in S \/ n = Len(OnTheWay(e))
  <2>0. OnTheWay(e) \in Bytes /\ IsPrefix(outbox[e], OnTheWay(e)) /\ outbox[e] \in Bytes
    BY WayOK DEF IInv, SequencesOK
  <2>o. PICK o \in Bytes : o = outbox[e]
    BY <2>0
  <2>w. PICK w \in Bytes : w = OnTheWay(e)
    BY <2>0
  <2>1. Len(o) \in 0 .. Len(w) /\ o = SubSeq(w, 1, Len(o))
    BY <2>0, <2>o, <2>w, CutPrefix
  <2>2. OnTheWay(e)' = o
    <3>1. CASE e \in gone
      <4>1. (\A d \in Ends : d \in gone => OnTheWay(d) = <<>>)'
        BY WayOfGone, PTL
      <4>2. outbox[e] = <<>>
        BY <3>1 DEF IInv, StreamOK
      <4> QED
        BY <2>o, <3>1, <4>1, <4>2
    <3>2. CASE e \notin gone
      <4>1. (\A d \in Ends : d \notin gone /\ stage \in Ended => OnTheWay(d) = outbox[d])'
        BY WayOfEnded, PTL
      <4> QED
        BY <2>o, <3>2, <4>1
    <3> QED
      BY <3>1, <3>2
  <2>3. e \in S \/ Len(o) = Len(w)
    BY <2>o, <2>w
  <2> QED
    BY <2>w, <2>1, <2>2, <2>3
<1>3. 0 \in Ends /\ 1 \in Ends
  BY DEF Ends
<1>4. PICK n \in 0 .. Len(OnTheWay(0)) :
        /\ OnTheWay(0)' = SubSeq(OnTheWay(0), 1, n)
        /\ 0 \in S \/ n = Len(OnTheWay(0))
  BY <1>2, <1>3
<1>5. PICK m \in 0 .. Len(OnTheWay(1)) :
        /\ OnTheWay(1)' = SubSeq(OnTheWay(1), 1, m)
        /\ 1 \in S \/ m = Len(OnTheWay(1))
  BY <1>2, <1>3
<1>6. Way' = [Way EXCEPT ![0] = SubSeq(@, 1, n), ![1] = SubSeq(@, 1, m)]
  BY <1>4, <1>5 DEF Way, Ends
<1>7. Way[0] = OnTheWay(0) /\ Way[1] = OnTheWay(1)
  BY <1>3 DEF Way
<1> QED
  BY <1>1, <1>4, <1>5, <1>6, <1>7, IsEnd

LEMMA SendsIsSay ==
  ASSUME IInv, IInv', NEW e \in Ends, PeerSends(e)
  PROVE  Promised!Say(e)
<1>f. PICK f \in Ends : f = Other(e) /\ f # e /\ Other(f) = e
  BY TwoEnds
<1>b. PICK b \in Nat : b = sent[e] + 1
  BY DEF IInv, SequencesOK
<1>1. /\ stage \notin {"connect"} \cup Ended /\ e \notin eof
      /\ sent' = [sent EXCEPT ![e] = @ + 1]
      /\ sent' = [sent EXCEPT ![e] = b] /\ sent'[e] = b
      /\ stage' = stage /\ delivered' = delivered /\ eof' = eof /\ gone' = gone
  BY <1>b DEF PeerSends, MaySpeak, Connected, handler, gone, IInv, SequencesOK
<1>2. Phase = "open" /\ Phase' = Phase
  BY <1>1, Phases, SamePhase
<1>3. Owed(e)' = Owed(e)
  <2>1. Said(f)' = Said(f)
    BY <1>1, <1>f DEF Said, IInv, SequencesOK
  <2> QED
    BY <1>1, <1>f, <2>1 DEF Owed
<1>4. OnTheWay(e)' = OnTheWay(e)
  BY <1>1, <1>3, WayKept
<1>5. CASE f \in gone
  <2>1. (\A d \in Ends : d \in gone => OnTheWay(d) = <<>>)'
    BY WayOfGone, PTL
  <2>2. OnTheWay(f)' = OnTheWay(f)
    BY <1>1, <1>5, <2>1, WayOfGone
  <2>3. \A d \in Ends : d = e \/ d = f
    BY <1>f DEF Ends
  <2>4. Way' = Way
    BY <1>4, <2>2, <2>3, SameWay
  <2> QED
    BY <1>1, <1>2, <1>5, <1>f, <2>4, IsSay
<1>6. CASE f \notin gone
  <2>0. /\ OnTheWay(f) \in Bytes /\ delivered[f] \in Bytes /\ Said(e) \in Bytes
        /\ delivered[f] \o OnTheWay(f) = Owed(f)
    BY <1>1, <1>6, WayOfOpen, SaidIsBytes DEF IInv, SequencesOK
  <2>1. (\A d \in Ends : d \notin gone /\ stage \notin Ended =>
            /\ OnTheWay(d) \in Bytes /\ IsPrefix(outbox[d], OnTheWay(d))
            /\ delivered[d] \o OnTheWay(d) = Owed(d))'
    BY WayOfOpen, PTL
  <2>2. OnTheWay(f)' \in Bytes /\ delivered[f] \o OnTheWay(f)' = Owed(f)'
    BY <1>1, <1>6, <2>1
  <2>d. PICK d \in Bytes : d = delivered[f]
    BY <2>0
  <2>w. PICK w \in Bytes : w = OnTheWay(f)
    BY <2>0
  <2>x. PICK x \in Bytes : x = OnTheWay(f)'
    BY <2>2
  <2>s. PICK s \in Bytes : s = Said(e)
    BY <2>0
  <2>a. PICK a \in Bytes : a = IF f = 0 THEN <<OK>> ELSE <<>>
    <3>1. <<OK>> \in Bytes /\ <<>> \in Bytes
      BY EmptySeq DEF Bytes, OK
    <3> QED
      BY <3>1
  <2>3. Owed(f) = a \o s /\ Owed(f)' = a \o Append(s, b)
    <3>1. Said(e)' = Append(s, b)
      BY <1>1, <1>b, <2>s, SaysNext DEF IInv
    <3> QED
      BY <1>1, <1>f, <2>a, <2>s, <3>1 DEF Owed
  <2>4. a \o Append(s, b) = Append(a \o s, b)
    BY AppendToLast
  <2>5. Append(w, b) \in Bytes /\ d \o Append(w, b) = Append(d \o w, b)
    BY AppendToLast
  <2>6. d \o x = d \o Append(w, b)
    BY <2>0, <2>2, <2>3, <2>4, <2>5, <2>d, <2>w, <2>x
  <2>7. x = Append(w, b)
    BY <2>5, <2>6, Cancel
  <2>8. Way' = [Way EXCEPT ![f] = Append(@, sent'[e])]
    <3>1. OnTheWay(f)' = Append(OnTheWay(f), sent'[e])
      BY <1>1, <2>7, <2>w, <2>x
    <3>2. \A g \in Ends : g = e \/ g = f
      BY <1>f DEF Ends
    <3> QED
      BY <1>4, <1>f, <3>1, <3>2 DEF Way
  <2> QED
    BY <1>1, <1>2, <1>6, <1>f, <2>8, IsSay
<1> QED
  BY <1>5, <1>6

LEMMA ReadsIsHear ==
  ASSUME IInv, IInv', NEW e \in Ends, PeerReads(e)
  PROVE  Promised!Hear(e)
<1>a. (\A d \in Ends : d \notin gone /\ stage \in Ended => OnTheWay(d) = outbox[d])'
  BY WayOfEnded, PTL
<1>b. (\A d \in Ends : d \notin gone /\ stage \notin Ended =>
        /\ OnTheWay(d) \in Bytes /\ IsPrefix(outbox[d], OnTheWay(d))
        /\ delivered[d] \o OnTheWay(d) = Owed(d))'
  BY WayOfOpen, PTL
<1>c. (\A d \in Ends : d \in gone => OnTheWay(d) = <<>>)'
  BY WayOfGone, PTL
<1>r. PICK r \in Bytes : r = delivered[e]
  BY DEF IInv, SequencesOK
<1>o. PICK o \in Bytes : o = outbox[e]
  BY DEF IInv, SequencesOK
<1>1. /\ o # <<>> /\ stage # "connect" /\ e \notin gone
      /\ delivered' = [delivered EXCEPT ![e] = Append(@, Head(o))]
      /\ delivered'[e] = Append(r, Head(o))
      /\ outbox'[e] = Tail(o)
      /\ stage' = stage /\ i' = i /\ buffer' = buffer
      /\ inbox' = inbox /\ sent' = sent /\ eof' = eof /\ conn' = conn
      /\ gone' = gone
      /\ \A g \in Ends : g # e => delivered'[g] = delivered[g] /\ outbox'[g] = outbox[g]
  <2>1. o # <<>> /\ stage # "connect" /\ e \notin gone
    BY <1>o DEF PeerReads, IInv, StreamOK, BeginningOK
  <2> QED
    BY <1>r, <1>o, <2>1 DEF PeerReads, handler, gone, IInv, SequencesOK
<1>2. Phase' = Phase
  BY <1>1, SamePhase
<1>3. \A g \in Ends : Owed(g)' = Owed(g)
  BY <1>1, SameOwed
<1>w. PICK w \in Bytes : w = OnTheWay(e) /\ IsPrefix(o, w)
  <2>1. OnTheWay(e) \in Bytes /\ IsPrefix(outbox[e], OnTheWay(e))
    BY WayOK
  <2> QED
    BY <1>o, <2>1
<1>4. w # <<>> /\ Head(w) = Head(o)
  BY <1>1, <1>w, SameHead
<1>5. OnTheWay(e)' = Tail(w)
  <2>1. CASE stage \in Ended
    BY <1>1, <1>o, <1>w, <1>a, <2>1, WayOfEnded
  <2>2. CASE stage \notin Ended
    <3>2. OnTheWay(e)' \in Bytes /\ Append(r, Head(o)) \o OnTheWay(e)' = Owed(e)
      BY <1>1, <1>3, <1>b, <2>2
    <3>3. r \o w = Owed(e)
      BY <1>1, <1>r, <1>w, <2>2, WayOfOpen
    <3>4. /\ Append(r, Head(w)) \in Bytes /\ Tail(w) \in Bytes
          /\ Append(r, Head(w)) \o Tail(w) = r \o w
      BY <1>4, MoveHead
    <3>x. PICK x \in Bytes : x = OnTheWay(e)'
      BY <3>2
    <3>y. PICK y \in Bytes : y = Tail(w)
      BY <3>4
    <3>h. PICK h \in Bytes : h = Append(r, Head(w))
      BY <3>4
    <3>5. h \o x = h \o y
      BY <1>4, <3>2, <3>3, <3>4, <3>x, <3>y, <3>h
    <3>6. x = y
      BY <3>5, Cancel
    <3> QED
      BY <3>6, <3>x, <3>y
  <2> QED
    BY <2>1, <2>2
<1>6. ASSUME NEW g \in Ends, g # e PROVE OnTheWay(g)' = OnTheWay(g)
  <2>1. CASE stage \notin Ended
    BY <1>1, <1>3, <1>6, <2>1, WayKept
  <2>2. CASE stage \in Ended
    <3>3. CASE g \in gone
      BY <1>1, <1>c, <3>3, WayOfGone
    <3>4. CASE g \notin gone
      BY <1>1, <1>6, <1>a, <2>2, <3>4, WayOfEnded
    <3> QED
      BY <3>3, <3>4
  <2> QED
    BY <2>1, <2>2
<1>7. Way[e] = w /\ Way' = [Way EXCEPT ![e] = Tail(@)]
  BY <1>5, <1>6, <1>w DEF Way
<1> QED
  BY <1>1, <1>2, <1>4, <1>7, IsHear

LEMMA ShutsDownIsStop ==
  ASSUME IInv, IInv', NEW e \in Ends, PeerShutsDown(e)
  PROVE  Promised!Stop(e)
<1>1. /\ stage \notin {"connect"} \cup Ended /\ e \notin eof /\ eof' = eof \cup {e}
      /\ stage' = stage /\ delivered' = delivered /\ sent' = sent /\ gone' = gone
  BY DEF PeerShutsDown, Connected, handler, gone
<1>2. Phase = "open" /\ Phase' = Phase
  BY <1>1, Phases, SamePhase
<1>3. ASSUME NEW g \in Ends PROVE OnTheWay(g)' = OnTheWay(g)
  BY <1>1, SameOwed, WayKept
<1>4. Way' = Way
  BY <1>3, SameWay
<1> QED
  BY <1>1, <1>2, <1>4, IsStop

LEMMA GoesIsLeave ==
  ASSUME IInv, IInv', NEW e \in Ends, PeerGoes(e)
  PROVE  Promised!Leave(e)
<1>1. /\ stage \notin {"connect"} \cup Ended /\ e \notin gone
      /\ eof' = eof \cup {e} /\ gone' = gone \cup {e}
      /\ stage' = stage /\ delivered' = delivered /\ sent' = sent
  <2>1. gone' = gone \cup {e}
    <3>1. PICK c \in {"closed", "broken"} : conn' = [conn EXCEPT ![e] = c]
      BY DEF PeerGoes
    <3> QED
      BY <3>1 DEF gone, IInv, TypeOK
  <2> QED
    BY <2>1 DEF PeerGoes, Connected, handler
<1>2. Phase = "open" /\ Phase' = Phase
  BY <1>1, Phases, SamePhase
<1>3. ASSUME NEW g \in Ends, g # e PROVE OnTheWay(g)' = OnTheWay(g)
  BY <1>1, <1>3, SameOwed, WayKept
<1>4. OnTheWay(e)' = <<>>
  <2>1. (\A d \in Ends : d \in gone => OnTheWay(d) = <<>>)'
    BY WayOfGone, PTL
  <2> QED
    BY <1>1, <2>1
<1>5. Way' = [Way EXCEPT ![e] = <<>>]
  BY <1>3, <1>4 DEF Way
<1> QED
  BY <1>1, <1>2, <1>5, IsLeave

LEMMA FailureIsFail ==
  ASSUME IInv, IInv', ConnectFails \/ PollFails \/ SendFails \/ SendKills
  PROVE  Promised!Fail
<1>1. /\ stage \notin Ended /\ stage' \in Ended
      /\ UNCHANGED <<outbox, delivered, sent, eof, gone>>
  BY DEF ConnectFails, PollFails, SendFails, SendKills, Ended, kernel, gone
<1>2. Phase # "ended"
  BY <1>1, Phases
<1>3. Promised!End(Ends)
  BY <1>1, EndCuts
<1> QED
  BY <1>2, <1>3, IsFail

\* When the end that the handler looks at has no more to send, nothing of what
\* it has sent is left in hand or in the inbox.
LEMMA DisconnectIsClose ==
  ASSUME IInv, IInv', Disconnect
  PROVE  i \in Ends /\ Promised!Close(i)
<1>j. PICK j \in Ends : j = i
  BY DEF IInv, TypeOK
<1>1. /\ stage = "check" /\ stage' = "closed" /\ j \in eof /\ inbox[j] = <<>>
      /\ UNCHANGED <<outbox, delivered, sent, eof, gone>>
  BY <1>j DEF Disconnect, kernel, gone
<1>2. Phase = "open"
  BY <1>1, Phases DEF Ended
<1>3. ASSUME NEW e \in Ends, e # j PROVE OnTheWay(e) = outbox[e]
  <2>1. Other(e) = j
    BY <1>3 DEF Ends, Other
  <2>2. InHand(j) = <<>>
    BY <1>1 DEF InHand
  <2>o. PICK o \in Bytes : o = outbox[e]
    BY DEF IInv, SequencesOK
  <2>3. o \o <<>> = o
    BY Concatenated
  <2>4. CASE e \in gone
    BY <2>4, WayOfGone DEF IInv, StreamOK
  <2>5. CASE e \notin gone
    <3>1. OnTheWay(e) = ((o \o <<>>) \o <<>>) \o <<>>
      BY <1>1, <2>1, <2>2, <2>5, <2>o DEF OnTheWay, Ended
    <3> QED
      BY <2>3, <2>o, <3>1
  <2> QED
    BY <2>4, <2>5
<1>4. Promised!End({j})
  BY <1>1, <1>3, EndCuts DEF Ended
<1> QED
  BY <1>1, <1>2, <1>4, <1>j, IsClose
---------------------------------------------------------------------------
(* No end is given more than the other has sent: so if something that an end   *)
(* sent is still to be received, it never arrives after the tunnel has ended.  *)

\* How many bytes end e has sent that the handler has in hand, and how many of
\* them there are in the places they pass through.
HandSize(e) == IF i = e THEN Len(buffer) ELSE 0

Pieces(e) ==
  (Len(delivered[e]) + Len(outbox[e])) + (HandSize(Other(e)) + Len(inbox[Other(e)]))

AnswerSize(e) == IF e = 0 /\ stage \notin {"connect", "ok"} THEN 1 ELSE 0

Counted(e) == Pieces(e) <= sent[Other(e)] + AnswerSize(e)

\* These are numbers.
SizesOK(e) ==
  /\ Len(delivered[e]) \in Nat /\ Len(outbox[e]) \in Nat
  /\ Len(delivered[e]) + Len(outbox[e]) \in Nat
  /\ Len(inbox[e]) \in Nat /\ HandSize(e) \in Nat
  /\ HandSize(e) + Len(inbox[e]) \in Nat
  /\ sent[e] \in Nat /\ AnswerSize(e) \in Nat /\ Pieces(e) \in Nat

LEMMA Sizes == IInv => \A d \in Ends : SizesOK(d)
<1> SUFFICES ASSUME IInv, NEW e \in Ends PROVE SizesOK(e)
  OBVIOUS
<1>1. \A s \in Bytes : Len(s) \in Nat
  BY LenProperties DEF Bytes
<1>2. \A d \in Ends : /\ Len(delivered[d]) \in Nat /\ Len(outbox[d]) \in Nat
                      /\ Len(inbox[d]) \in Nat /\ HandSize(d) \in Nat /\ sent[d] \in Nat
  BY <1>1 DEF IInv, SequencesOK, HandSize
<1>3. \A d \in Ends : /\ Len(delivered[d]) + Len(outbox[d]) \in Nat
                      /\ HandSize(d) + Len(inbox[d]) \in Nat
  <2> TAKE d \in Ends
  <2>a. PICK a \in Nat : a = Len(delivered[d])
    BY <1>2
  <2>b. PICK b \in Nat : b = Len(outbox[d])
    BY <1>2
  <2>c. PICK c \in Nat : c = HandSize(d)
    BY <1>2
  <2>n. PICK n \in Nat : n = Len(inbox[d])
    BY <1>2
  <2>1. a + b \in Nat /\ c + n \in Nat
    OBVIOUS
  <2> QED
    BY <2>1, <2>a, <2>b, <2>c, <2>n
<1>4. Other(e) \in Ends
  BY TwoEnds
<1>a. PICK a \in Nat : a = Len(delivered[e]) + Len(outbox[e])
  BY <1>3
<1>b. PICK b \in Nat : b = HandSize(Other(e)) + Len(inbox[Other(e)])
  BY <1>3, <1>4
<1>5. Pieces(e) = a + b
  BY <1>a, <1>b DEF Pieces
<1>6. Pieces(e) \in Nat
  BY <1>5
<1>7. AnswerSize(e) \in Nat
  BY DEF AnswerSize
<1> QED
  BY <1>2, <1>3, <1>6, <1>7 DEF SizesOK

LEMMA SameSizes ==
  IInv => \A e \in Ends :
            /\ Len(delivered[e]) + Len(outbox[e]) <= Len(delivered[e]) + Len(outbox[e])
            /\ HandSize(e) + Len(inbox[e]) <= HandSize(e) + Len(inbox[e])
            /\ sent[e] >= sent[e]
<1> SUFFICES ASSUME IInv, NEW e \in Ends
             PROVE  /\ Len(delivered[e]) + Len(outbox[e])
                          <= Len(delivered[e]) + Len(outbox[e])
                    /\ HandSize(e) + Len(inbox[e]) <= HandSize(e) + Len(inbox[e])
                    /\ sent[e] >= sent[e]
  OBVIOUS
<1>a. PICK a \in Nat : a = Len(delivered[e]) + Len(outbox[e])
  BY Sizes DEF SizesOK
<1>b. PICK b \in Nat : b = HandSize(e) + Len(inbox[e])
  BY Sizes DEF SizesOK
<1>c. PICK c \in Nat : c = sent[e]
  BY Sizes DEF SizesOK
<1>1. a <= a /\ b <= b /\ c >= c
  OBVIOUS
<1> QED
  BY <1>a, <1>b, <1>c, <1>1

\* A step that adds no byte.
LEMMA NoMore ==
  ASSUME IInv, IInv', NEW e \in Ends, Counted(e), Pieces(e)' <= Pieces(e),
         sent'[Other(e)] >= sent[Other(e)],
         stage' \in {"connect", "ok"} => stage \in {"connect", "ok"}
  PROVE  Counted(e)'
<1>1. (\A d \in Ends : SizesOK(d))'
  BY Sizes, PTL
<1>2. Other(e) \in Ends
  BY TwoEnds
<1>3. AnswerSize(e)' >= AnswerSize(e)
  BY DEF AnswerSize
<1>p. PICK p \in Nat : p = Pieces(e)
  BY Sizes DEF SizesOK
<1>q. PICK q \in Nat : q = Pieces(e)'
  BY <1>1 DEF SizesOK
<1>m. PICK m \in Nat : m = sent[Other(e)]
  BY <1>2, Sizes DEF SizesOK
<1>n. PICK n \in Nat : n = sent'[Other(e)]
  BY <1>1, <1>2 DEF SizesOK
<1>a. PICK a \in Nat : a = AnswerSize(e)
  BY Sizes DEF SizesOK
<1>b. PICK b \in Nat : b = AnswerSize(e)'
  BY <1>1 DEF SizesOK
<1>5. p <= m + a /\ q <= p /\ n >= m /\ b >= a
  BY <1>3, <1>p, <1>q, <1>m, <1>n, <1>a, <1>b DEF Counted
<1>6. q <= n + b
  BY <1>5
<1> QED
  BY <1>6, <1>q, <1>n, <1>b DEF Counted, Other

\* Steps that move bytes, or drop them, one place at a time.
LEMMA SamePieces ==
  ASSUME IInv, IInv', NEW e \in Ends,
         Len(delivered'[e]) + Len(outbox'[e]) <= Len(delivered[e]) + Len(outbox[e]),
         HandSize(Other(e))' + Len(inbox'[Other(e)])
           <= HandSize(Other(e)) + Len(inbox[Other(e)])
  PROVE  Pieces(e)' <= Pieces(e)
<1>1. (\A d \in Ends : SizesOK(d))'
  BY Sizes, PTL
<1>2. Other(e) \in Ends
  BY TwoEnds
<1>a. PICK a \in Nat : a = Len(delivered[e]) + Len(outbox[e])
  BY Sizes DEF SizesOK
<1>b. PICK b \in Nat : b = HandSize(Other(e)) + Len(inbox[Other(e)])
  BY <1>2, Sizes DEF SizesOK
<1>c. PICK c \in Nat : c = Len(delivered'[e]) + Len(outbox'[e])
  BY <1>1 DEF SizesOK
<1>d. PICK d \in Nat : d = HandSize(Other(e))' + Len(inbox'[Other(e)])
  BY <1>1, <1>2 DEF SizesOK
<1>3. c <= a /\ d <= b
  BY <1>a, <1>b, <1>c, <1>d
<1>4. c + d <= a + b
  BY <1>3
<1>5. Pieces(e) = a + b
  BY <1>a, <1>b DEF Pieces
<1>6. Pieces(e)' = c + d
  BY <1>c, <1>d DEF Pieces, Other
<1> QED
  BY <1>4, <1>5, <1>6

LEMMA InitCounted == Init => \A e \in Ends : Counted(e)
<1> SUFFICES ASSUME Init, NEW e \in Ends PROVE Counted(e)
  OBVIOUS
<1>1. Other(e) \in Ends /\ Len(<<>>) = 0
  BY TwoEnds
<1>2. Pieces(e) = 0 /\ sent[Other(e)] = 0 /\ AnswerSize(e) = 0
  BY <1>1 DEF Init, Pieces, HandSize, AnswerSize
<1> QED
  BY <1>2 DEF Counted

LEMMA NextCounted ==
  ASSUME IInv, IInv', [Next]_vars, \A e \in Ends : Counted(e)
  PROVE  \A e \in Ends : Counted(e)'
<1> SUFFICES ASSUME NEW e \in Ends PROVE Counted(e)'
  OBVIOUS
<1>p. (\A d \in Ends : SizesOK(d))'
  BY Sizes, PTL
<1>o. PICK o \in Ends : o = Other(e) /\ o # e /\ Other(o) = e
  BY TwoEnds
<1>s. Counted(e) /\ SequencesOK /\ SequencesOK' /\ TypeOK /\ TypeOK'
  BY DEF IInv
<1>0. Len(<<>>) = 0
  OBVIOUS
<1>1. ASSUME UNCHANGED <<inbox, delivered, sent>>, outbox' = outbox,
             buffer' = <<>> \/ (buffer' = buffer /\ i' = i),
             stage' \in {"connect", "ok"} => stage \in {"connect", "ok"}
      PROVE  Counted(e)'
  <2>1. HandSize(o)' <= HandSize(o)
    <3>1. CASE buffer' = <<>>
      BY <1>0, <3>1, Sizes DEF SizesOK, HandSize
    <3>2. CASE buffer' = buffer /\ i' = i
      BY <3>2, Sizes DEF SizesOK, HandSize
    <3> QED
      BY <1>1, <3>1, <3>2
  <2>a. PICK a \in Nat : a = HandSize(o)'
    BY <1>p DEF SizesOK
  <2>b. PICK b \in Nat : b = HandSize(o)
    BY Sizes DEF SizesOK
  <2>n. PICK n \in Nat : n = Len(inbox[o])
    BY Sizes DEF SizesOK
  <2>3. a + n <= b + n
    BY <2>1, <2>a, <2>b
  <2>4. /\ HandSize(o)' + Len(inbox'[o]) <= HandSize(o) + Len(inbox[o])
        /\ Len(delivered'[e]) + Len(outbox'[e]) <= Len(delivered[e]) + Len(outbox[e])
    BY <1>1, <2>a, <2>b, <2>n, <2>3, Sizes DEF SizesOK
  <2>5. Pieces(e)' <= Pieces(e)
    BY <1>o, <2>4, SamePieces
  <2>6. sent'[Other(e)] >= sent[Other(e)]
    BY <1>1, <1>o, SameSizes
  <2> QED
    BY <1>1, <1>s, <2>5, <2>6, NoMore
<1>2. CASE Connect \/ ConnectFails \/ Poll \/ PollFails \/ Skip \/ Disconnect
             \/ SendIntoVoid \/ SendFails \/ SendKills
  <2>1. buffer' = <<>>
    <3>1. CASE Connect \/ ConnectFails \/ Poll \/ PollFails \/ Skip \/ Disconnect
      BY <1>s, <3>1 DEF Connect, ConnectFails, Poll, PollFails, Skip, Disconnect, TypeOK
    <3>2. CASE SendIntoVoid \/ SendFails \/ SendKills
      BY <3>2 DEF SendIntoVoid, SendFails, SendKills
    <3> QED
      BY <1>2, <3>1, <3>2
  <2>2. UNCHANGED <<inbox, outbox, delivered, sent>>
    BY <1>2 DEF Connect, ConnectFails, Poll, PollFails, Skip, Disconnect,
                SendIntoVoid, SendFails, SendKills, kernel
  <2>3. stage' \in {"connect", "ok"} => stage \in {"connect", "ok"}
    BY <1>2 DEF Connect, ConnectFails, Poll, PollFails, Skip, Disconnect,
                SendIntoVoid, SendFails, SendKills, Advance
  <2> QED
    BY <1>1, <2>1, <2>2, <2>3
<1>3. CASE Finished \/ Silence \/ UNCHANGED vars
  BY <1>1, <1>3 DEF Finished, Silence, vars, handler, kernel
<1>4. ASSUME NEW d \in Ends, PeerShutsDown(d) PROVE Counted(e)'
  BY <1>1, <1>4 DEF PeerShutsDown, handler
<1>5. ASSUME NEW d \in Ends, PeerGoes(d) \/ Reset(d) PROVE Counted(e)'
  <2>1. /\ UNCHANGED <<handler, inbox, delivered, sent>>
        /\ outbox' = [outbox EXCEPT ![d] = <<>>]
    BY <1>5 DEF PeerGoes, Reset
  <2>2. Len(outbox'[e]) <= Len(outbox[e])
    <3>1. outbox'[e] = <<>> \/ outbox'[e] = outbox[e]
      BY <1>s, <2>1 DEF SequencesOK
    <3> QED
      BY <1>0, <3>1, Sizes DEF SizesOK
  <2>a. PICK a \in Nat : a = Len(outbox'[e])
    BY <1>p DEF SizesOK
  <2>b. PICK b \in Nat : b = Len(outbox[e])
    BY Sizes DEF SizesOK
  <2>n. PICK n \in Nat : n = Len(delivered[e])
    BY Sizes DEF SizesOK
  <2>4. n + a <= n + b
    BY <2>2, <2>a, <2>b
  <2>5. HandSize(o)' = HandSize(o) /\ inbox' = inbox /\ delivered' = delivered
        /\ sent' = sent /\ stage' = stage
    BY <2>1 DEF handler, HandSize
  <2>6. /\ HandSize(o)' + Len(inbox'[o]) <= HandSize(o) + Len(inbox[o])
        /\ Len(delivered'[e]) + Len(outbox'[e]) <= Len(delivered[e]) + Len(outbox[e])
    BY <2>a, <2>b, <2>n, <2>4, <2>5, SameSizes
  <2>7. Pieces(e)' <= Pieces(e)
    BY <1>o, <2>6, SamePieces
  <2>8. sent'[Other(e)] >= sent[Other(e)]
    BY <1>o, <2>5, SameSizes
  <2> QED
    BY <1>s, <2>5, <2>7, <2>8, NoMore
<1>6. ASSUME NEW d \in Ends, PeerReads(d) PROVE Counted(e)'
  <2>1. /\ UNCHANGED <<handler, inbox, sent>> /\ outbox[d] # <<>>
        /\ delivered' = [delivered EXCEPT ![d] = Append(@, Head(outbox[d]))]
        /\ outbox' = [outbox EXCEPT ![d] = Tail(@)]
    BY <1>6 DEF PeerReads
  <2>2. Len(delivered'[e]) + Len(outbox'[e]) <= Len(delivered[e]) + Len(outbox[e])
    <3>x. PICK x \in Bytes, y \in Bytes : x = delivered[e] /\ y = outbox[e]
      BY <1>s DEF SequencesOK
    <3>n. Len(x) \in Nat /\ Len(y) \in Nat
      BY LenProperties DEF Bytes
    <3>k. PICK k \in Nat, l \in Nat : k = Len(x) /\ l = Len(y)
      BY <3>n
    <3>1. CASE d # e
      <4>1. delivered'[e] = x /\ outbox'[e] = y
        BY <1>s, <2>1, <3>1, <3>x DEF SequencesOK
      <4>2. k + l <= k + l
        OBVIOUS
      <4> QED
        BY <3>k, <3>x, <4>1, <4>2
    <3>2. CASE d = e
      <4>1. y # <<>> /\ delivered'[e] = Append(x, Head(y)) /\ outbox'[e] = Tail(y)
        BY <1>s, <2>1, <3>2, <3>x DEF SequencesOK
      <4>2. Len(Tail(y)) = Len(y) - 1 /\ Head(y) \in Nat /\ Len(y) # 0
        BY <4>1, HeadTailProperties, EmptySeq DEF Bytes
      <4>3. Len(Append(x, Head(y))) = Len(x) + 1
        BY <4>2, AppendProperties DEF Bytes
      <4>4. Len(delivered'[e]) = k + 1 /\ Len(outbox'[e]) = l - 1
        BY <3>k, <4>1, <4>2, <4>3
      <4>5. (k + 1) + (l - 1) <= k + l
        OBVIOUS
      <4> QED
        BY <3>k, <3>x, <4>4, <4>5
    <3> QED
      BY <3>1, <3>2
  <2>3. HandSize(o)' = HandSize(o) /\ inbox' = inbox /\ sent' = sent /\ stage' = stage
    BY <2>1 DEF handler, HandSize
  <2>4. Pieces(e)' <= Pieces(e)
    <3>1. HandSize(o)' + Len(inbox'[o]) <= HandSize(o) + Len(inbox[o])
      BY <2>3, SameSizes
    <3> QED
      BY <1>o, <2>2, <3>1, SamePieces
  <2>5. sent'[Other(e)] >= sent[Other(e)]
    BY <1>o, <2>3, SameSizes
  <2> QED
    BY <1>s, <2>3, <2>4, <2>5, NoMore
<1>7. ASSUME NEW d \in Ends, PeerSends(d) PROVE Counted(e)'
  <2>1. /\ UNCHANGED <<handler, outbox, delivered>>
        /\ sent' = [sent EXCEPT ![d] = @ + 1]
        /\ inbox' = [inbox EXCEPT ![d] = Append(@, sent'[d])]
    BY <1>7 DEF PeerSends
  <2>2. /\ HandSize(o)' = HandSize(o) /\ stage' = stage
        /\ Len(delivered'[e]) + Len(outbox'[e]) = Len(delivered[e]) + Len(outbox[e])
    BY <2>1 DEF handler, HandSize
  <2>3. CASE d # o
    <3>1. inbox'[o] = inbox[o] /\ sent'[o] = sent[o]
      BY <1>s, <2>1, <2>3 DEF SequencesOK
    <3>2. HandSize(o)' + Len(inbox'[o]) <= HandSize(o) + Len(inbox[o])
          /\ Len(delivered'[e]) + Len(outbox'[e]) <= Len(delivered[e]) + Len(outbox[e])
          /\ sent'[o] >= sent[o]
      BY <2>2, <3>1, SameSizes
    <3>3. Pieces(e)' <= Pieces(e)
      BY <1>o, <3>2, SamePieces
    <3> QED
      BY <1>o, <1>s, <2>2, <3>2, <3>3, NoMore
  <2>4. CASE d = o
    <3>b. PICK b \in Nat : b = sent'[o]
      BY <1>s DEF SequencesOK
    <3>x. PICK x \in Bytes : x = inbox[o]
      BY <1>s DEF SequencesOK
    <3>1. b = sent[o] + 1 /\ inbox'[o] = Append(x, b)
      BY <1>s, <2>1, <2>4, <3>b, <3>x DEF SequencesOK
    <3>2. Len(Append(x, b)) = Len(x) + 1
      BY AppendProperties DEF Bytes
    <3>p. PICK p \in Nat : p = Len(delivered[e]) + Len(outbox[e])
      BY Sizes DEF SizesOK
    <3>h. PICK h \in Nat : h = HandSize(o)
      BY Sizes DEF SizesOK
    <3>n. PICK n \in Nat : n = Len(x)
      BY <3>x, Sizes DEF SizesOK
    <3>m. PICK m \in Nat : m = sent[o]
      BY Sizes DEF SizesOK
    <3>a. PICK a \in Nat : a = AnswerSize(e)
      BY Sizes DEF SizesOK
    <3>4. p + (h + n) <= m + a
      BY <1>o, <1>s, <3>p, <3>h, <3>n, <3>m, <3>a, <3>x DEF Counted, Pieces
    <3>5. p + (h + (n + 1)) <= (m + 1) + a
      BY <3>4
    <3>6. AnswerSize(e)' = a /\ sent'[o] = m + 1
      BY <2>2, <3>1, <3>a, <3>b, <3>m DEF AnswerSize
    <3>7. Pieces(e)' = p + (h + (n + 1))
      <4>1. Len(delivered'[e]) + Len(outbox'[e]) = p /\ HandSize(o)' = h
        BY <2>2, <3>p, <3>h
      <4>2. Len(inbox'[o]) = n + 1
        BY <3>1, <3>2, <3>n
      <4> QED
        BY <1>o, <4>1, <4>2 DEF Pieces, Other
    <3> QED
      BY <1>o, <3>5, <3>6, <3>7 DEF Counted, Other
  <2> QED
    BY <2>3, <2>4
<1>8. CASE http_send_200ok
  <2>1. /\ stage = "ok" /\ stage' = "poll"
        /\ UNCHANGED <<i, buffer, inbox, delivered, sent>>
        /\ outbox' = [outbox EXCEPT ![0] = IF 0 \in gone THEN <<>> ELSE <<OK>>]
        /\ outbox[0] = <<>>
    BY <1>8 DEF http_send_200ok, IInv, BeginningOK
  <2>2. HandSize(o)' = HandSize(o)
    BY <2>1 DEF HandSize
  <2>3. CASE e # 0
    <3>1. outbox'[e] = outbox[e]
      BY <1>s, <2>1, <2>3 DEF SequencesOK
    <3>2. HandSize(o)' + Len(inbox'[o]) <= HandSize(o) + Len(inbox[o])
          /\ Len(delivered'[e]) + Len(outbox'[e]) <= Len(delivered[e]) + Len(outbox[e])
          /\ sent'[o] >= sent[o]
      BY <2>1, <2>2, <3>1, SameSizes
    <3>3. Pieces(e)' <= Pieces(e)
      BY <1>o, <3>2, SamePieces
    <3> QED
      BY <1>o, <1>s, <2>1, <3>2, <3>3, NoMore
  <2>4. CASE e = 0
    <3>1. Len(outbox'[e]) <= 1 /\ Len(outbox[e]) = 0
      <4>1. Len(<<OK>>) = 1
        OBVIOUS
      <4>2. outbox'[e] \in {<<>>, <<OK>>} /\ outbox[e] = <<>>
        BY <1>s, <2>1, <2>4 DEF SequencesOK, Ends
      <4>3. Len(outbox'[e]) = 0 \/ Len(outbox'[e]) = 1
        BY <1>0, <4>1, <4>2
      <4>4. \A k \in {0, 1} : k <= 1
        OBVIOUS
      <4> QED
        BY <1>0, <4>2, <4>3, <4>4
    <3>p. PICK p \in Nat : p = Len(delivered[e])
      BY Sizes DEF SizesOK
    <3>q. PICK q \in Nat : q = Len(outbox'[e])
      BY <1>p DEF SizesOK
    <3>h. PICK h \in Nat : h = HandSize(o) + Len(inbox[o])
      BY Sizes DEF SizesOK
    <3>m. PICK m \in Nat : m = sent[o]
      BY Sizes DEF SizesOK
    <3>2. AnswerSize(e) = 0 /\ AnswerSize(e)' = 1 /\ sent'[o] = m
      BY <2>1, <2>4, <3>m DEF AnswerSize
    <3>3. (p + 0) + h <= m + 0
      BY <1>o, <1>s, <3>1, <3>2, <3>p, <3>h, <3>m DEF Counted, Pieces
    <3>4. q <= 1
      BY <3>1, <3>q
    <3>5. (p + q) + h <= m + 1
      BY <3>3, <3>4
    <3>6. Pieces(e)' = (p + q) + h
      BY <1>o, <2>1, <2>2, <3>p, <3>q, <3>h DEF Pieces, Other
    <3> QED
      BY <1>o, <3>2, <3>5, <3>6 DEF Counted, Other
  <2> QED
    BY <2>3, <2>4
<1>9. CASE Receive
  <2>0. i \in Ends /\ stage = "check" /\ stage' = "send" /\ i' = i
        /\ UNCHANGED <<outbox, delivered, sent>> /\ buffer = <<>>
    BY <1>9, <1>s DEF Receive, TypeOK
  <2>1. HandSize(o)' + Len(inbox'[o]) <= HandSize(o) + Len(inbox[o])
    <3>1. CASE i # o
      <4>1. HandSize(o)' = 0 /\ HandSize(o) = 0 /\ inbox'[o] = inbox[o]
        BY <1>9, <1>s, <2>0, <3>1 DEF Receive, HandSize, SequencesOK
      <4> QED
        BY <4>1, Sizes DEF SizesOK
    <3>2. CASE i = o
      <4>s. PICK s \in Bytes : s = inbox[o]
        BY <1>s DEF SequencesOK
      <4>l. Len(s) \in Nat /\ Len(s) # 0
        BY <1>9, <3>2, <4>s, LenProperties, EmptySeq DEF Bytes, Receive
      <4>n. PICK n \in 0 .. Len(s) :
              /\ buffer' = SubSeq(s, 1, n)
              /\ inbox'[o] = SubSeq(s, n + 1, Len(s))
        <5>1. Min({MaxRecv, Len(s)}) \in 0 .. Len(s)
          BY <4>l, MinOfTwo, SizesAssumption
        <5>2. /\ buffer' = SubSeq(s, 1, Min({MaxRecv, Len(s)}))
              /\ inbox'[o] = SubSeq(s, Min({MaxRecv, Len(s)}) + 1, Len(s))
          BY <1>9, <1>s, <3>2, <4>s DEF Receive, SequencesOK
        <5> QED
          BY <5>1, <5>2
      <4>1. Len(buffer') = n /\ Len(inbox'[o]) = Len(s) - n
        BY <4>n, CutSequence
      <4>2. HandSize(o)' = n /\ HandSize(o) = 0
        BY <1>0, <2>0, <3>2, <4>1 DEF HandSize
      <4> QED
        BY <4>1, <4>2, <4>s, <4>l
    <3> QED
      BY <3>1, <3>2
  <2>2. Len(delivered'[e]) + Len(outbox'[e]) <= Len(delivered[e]) + Len(outbox[e])
        /\ sent'[o] >= sent[o]
    BY <2>0, SameSizes
  <2>3. Pieces(e)' <= Pieces(e)
    BY <1>o, <2>1, <2>2, SamePieces
  <2> QED
    BY <1>o, <1>s, <2>0, <2>2, <2>3, NoMore
<1>10. ASSUME NEW n \in 1 .. Len(buffer), Send(n) PROVE Counted(e)'
  <2>j. PICK j \in Ends : j = i /\ Other(j) \in Ends
    BY <1>s, TwoEnds DEF TypeOK
  <2>s. PICK s \in Bytes : s = buffer
    BY <1>s DEF SequencesOK
  <2>l. Len(s) \in Nat /\ n \in 0 .. Len(s) /\ n \in Nat
    <3>1. Len(s) \in Nat
      BY LenProperties DEF Bytes
    <3> QED
      BY <2>s, <3>1
  <2>0. /\ outbox' = [outbox EXCEPT ![Other(j)] = @ \o SubSeq(s, 1, n)]
        /\ buffer' = SubSeq(s, n + 1, Len(s))
        /\ IF n = Len(s) THEN Advance ELSE UNCHANGED <<stage, i>>
        /\ UNCHANGED <<inbox, delivered, sent>> /\ stage = "send"
    BY <1>10, <2>j, <2>s DEF Send
  <2>1. Len(buffer') = Len(s) - n /\ Len(SubSeq(s, 1, n)) = n /\ SubSeq(s, 1, n) \in Bytes
    BY <2>0, <2>l, CutSequence
  <2>2. \A d \in Ends : HandSize(d)' = IF d = j THEN Len(s) - n ELSE 0
    <3>1. CASE n = Len(s)
      BY <2>1, <2>l, <3>1 DEF HandSize
    <3>2. CASE n # Len(s)
      BY <2>0, <2>1, <2>j, <3>2 DEF HandSize
    <3> QED
      BY <3>1, <3>2
  <2>3. \A d \in Ends : HandSize(d) = IF d = j THEN Len(s) ELSE 0
    BY <2>j, <2>s DEF HandSize
  <2>4. stage' \notin {"connect", "ok"}
    BY <2>0 DEF Advance
  <2>5. sent'[o] >= sent[o]
    BY <2>0, SameSizes
  <2>6. CASE j = o
    <3>x. PICK x \in Bytes : x = outbox[e]
      BY <1>s DEF SequencesOK
    <3>1. outbox'[e] = x \o SubSeq(s, 1, n)
      BY <1>o, <1>s, <2>0, <2>6, <3>x DEF SequencesOK
    <3>2. Len(outbox'[e]) = Len(x) + n
      BY <2>1, <3>1, Concatenated
    <3>d. PICK d \in Nat : d = Len(delivered[e])
      BY Sizes DEF SizesOK
    <3>y. PICK y \in Nat : y = Len(x)
      BY <3>x, Sizes DEF SizesOK
    <3>h. PICK h \in Nat : h = Len(s)
      BY <2>l
    <3>m. PICK m \in Nat : m = Len(inbox[o])
      BY Sizes DEF SizesOK
    <3>k. PICK k \in Nat : k = n
      BY <2>l
    <3>4. (d + (y + k)) + ((h - k) + m) <= (d + y) + (h + m)
      OBVIOUS
    <3>5. Pieces(e) = (d + y) + (h + m)
      BY <1>o, <2>3, <2>6, <3>d, <3>y, <3>h, <3>m, <3>x DEF Pieces
    <3>6. Pieces(e)' = (d + (y + k)) + ((h - k) + m)
      <4>1. HandSize(o)' = h - k /\ Len(outbox'[e]) = y + k
        BY <2>2, <2>6, <3>2, <3>h, <3>y, <3>k
      <4> QED
        BY <1>o, <2>0, <3>d, <3>m, <4>1 DEF Pieces, Other
    <3>7. Pieces(e)' <= Pieces(e)
      BY <3>4, <3>5, <3>6
    <3> QED
      BY <1>o, <1>s, <2>4, <2>5, <3>7, NoMore
  <2>7. CASE j # o
    <3>1. Other(j) # e
      BY <1>o, <2>7, <2>j DEF Ends, Other
    <3>2. outbox'[e] = outbox[e]
      BY <1>s, <2>0, <3>1 DEF SequencesOK
    <3>3. HandSize(o)' + Len(inbox'[o]) <= HandSize(o) + Len(inbox[o])
          /\ Len(delivered'[e]) + Len(outbox'[e]) <= Len(delivered[e]) + Len(outbox[e])
      <4>1. HandSize(o)' = HandSize(o) /\ inbox' = inbox /\ delivered' = delivered
        BY <2>0, <2>2, <2>3, <2>7
      <4> QED
        BY <3>2, <4>1, SameSizes
    <3>4. Pieces(e)' <= Pieces(e)
      BY <1>o, <3>3, SamePieces
    <3> QED
      BY <1>o, <1>s, <2>4, <2>5, <3>4, NoMore
  <2> QED
    BY <2>6, <2>7
<1> QED
  BY <1>2, <1>3, <1>4, <1>5, <1>6, <1>7, <1>8, <1>9, <1>10 DEF Next, Forward, Peer

AllCounted == \A e \in Ends : Counted(e)

LEMMA AlwaysCounted == Spec => []AllCounted
<1>1. Init => AllCounted
  BY InitCounted DEF AllCounted
<1>2. IInv /\ IInv' /\ [Next]_vars /\ AllCounted => AllCounted'
  BY NextCounted DEF AllCounted
<1> QED
  BY <1>1, <1>2, TunnelInvariant, PTL DEF Spec

\* A connection that the kernel resets is one whose end was interrupted.
LEMMA ResetIsReset ==
  ASSUME IInv, IInv', AllCounted, NEW e \in Ends, Reset(e)
  PROVE  Promised!Reset(e)
<1>o. PICK o \in Ends : o = Other(e) /\ o # e /\ Other(o) = e
  BY TwoEnds
<1>1. /\ stage \in Ended /\ stage' = stage /\ e \notin gone
      /\ inbox[e] # <<>> \/ e \notin eof
      /\ eof' = eof \cup {e} /\ gone' = gone \cup {e}
      /\ outbox' = [outbox EXCEPT ![e] = <<>>]
      /\ sent' = sent /\ delivered' = delivered
  <2>1. gone' = gone \cup {e}
    BY DEF Reset, gone, IInv, TypeOK
  <2> QED
    BY <2>1 DEF Reset, handler
<1>2. Phase = "ended" /\ Phase' = Phase
  BY <1>1, Phases, SamePhase
<1>3. OnTheWay(e)' = <<>>
  <2>1. (\A d \in Ends : d \in gone => OnTheWay(d) = <<>>)'
    BY WayOfGone, PTL
  <2> QED
    BY <1>1, <2>1
<1>4. OnTheWay(o)' = OnTheWay(o) /\ OnTheWay(o) = outbox[o]
  <2>1. CASE o \in gone
    <3>1. OnTheWay(o) = <<>> /\ OnTheWay(o)' = <<>> /\ outbox[o] = <<>>
      <4>1. (\A d \in Ends : d \in gone => OnTheWay(d) = <<>>)'
        BY WayOfGone, PTL
      <4> QED
        BY <1>1, <2>1, <4>1, WayOfGone DEF IInv, StreamOK
    <3> QED
      BY <3>1
  <2>2. CASE o \notin gone
    <3>1. (\A d \in Ends : d \notin gone /\ stage \in Ended => OnTheWay(d) = outbox[d])'
      BY WayOfEnded, PTL
    <3>2. outbox'[o] = outbox[o]
      BY <1>o, <1>1 DEF IInv, SequencesOK
    <3> QED
      BY <1>o, <1>1, <2>2, <3>1, <3>2, WayOfEnded
  <2> QED
    BY <2>1, <2>2
<1>5. Way' = [Way EXCEPT ![e] = <<>>]
  <2>1. \A g \in Ends : g = e \/ g = o
    BY <1>o DEF Ends
  <2> QED
    BY <1>3, <1>4, <2>1 DEF Way
<1>6. ASSUME inbox[e] # <<>>
      PROVE  Len(delivered[o]) + Len(Way[o]) < sent[e] + IF o = 0 THEN 1 ELSE 0
  <2>1. Len(inbox[e]) # 0
    BY <1>6, EmptySeq DEF IInv, SequencesOK, Bytes
  <2>d. PICK d \in Nat : d = Len(delivered[o])
    BY Sizes DEF SizesOK
  <2>y. PICK y \in Nat : y = Len(outbox[o])
    BY Sizes DEF SizesOK
  <2>h. PICK h \in Nat : h = HandSize(e)
    BY Sizes DEF SizesOK
  <2>n. PICK n \in Nat : n = Len(inbox[e])
    BY Sizes DEF SizesOK
  <2>m. PICK m \in Nat : m = sent[e]
    BY Sizes DEF SizesOK
  <2>a. PICK a \in Nat : a = AnswerSize(o)
    BY Sizes DEF SizesOK
  <2>b. PICK b \in Nat : b = IF o = 0 THEN 1 ELSE 0
    OBVIOUS
  <2>3. (d + y) + (h + n) <= m + a
    BY <1>o, <2>d, <2>y, <2>h, <2>n, <2>m, <2>a DEF AllCounted, Counted, Pieces
  <2>4. a <= b
    BY <2>a, <2>b DEF AnswerSize
  <2>5. n # 0
    BY <2>1, <2>n
  <2>6. d + y < m + b
    BY <2>3, <2>4, <2>5
  <2>7. Len(Way[o]) = y
    BY <1>4, <2>y DEF Way
  <2> QED
    BY <2>6, <2>7, <2>d, <2>m, <2>b
<1> QED
  BY <1>o, <1>1, <1>2, <1>5, <1>6, IsReset

---------------------------------------------------------------------------
(* The theorem *)

LEMMA TunnelInitRefines == Init => Promised!StreamsInit
<1> SUFFICES ASSUME Init PROVE Promised!StreamsInit
  OBVIOUS
<1>1. Phase = "waiting" /\ gone = {}
  <2>1. gone = {}
    BY DEF Init, gone
  <2>2. Phase = "waiting"
    BY DEF Init, Phase, Ended
  <2> QED
    BY <2>1, <2>2
<1>2. ASSUME NEW e \in Ends PROVE OnTheWay(e) = <<>>
  <2>1. InHand(Other(e)) = <<>> /\ inbox[Other(e)] = <<>> /\ outbox[e] = <<>>
    BY TwoEnds DEF Init, InHand
  <2>2. <<>> \o <<>> = <<>>
    BY Concatenated, EmptySeq DEF Bytes
  <2>3. OnTheWay(e) = ((<<>> \o <<>>) \o <<>>) \o <<>>
    BY <1>1, <2>1 DEF Init, OnTheWay, Ended
  <2> QED
    BY <2>2, <2>3
<1>3. Way = [e \in {0, 1} |-> <<>>]
  BY <1>2 DEF Way, Ends
<1>4. Promised!StreamsInit
        <=> /\ Phase = "waiting"
            /\ sent = [e \in {0, 1} |-> 0]
            /\ Way = [e \in {0, 1} |-> <<>>]
            /\ delivered = [e \in {0, 1} |-> <<>>]
            /\ eof = {} /\ gone = {}
  BY DEF Promised!StreamsInit, Promised!Both, Phase, Way
<1> QED
  BY <1>1, <1>3, <1>4 DEF Init, Ends

LEMMA TunnelStepRefines ==
  ASSUME IInv, IInv', AllCounted, [Next]_vars
  PROVE  Promised!StreamsNext \/ UNCHANGED Promised!streamVars
<1>1. CASE Connect
  BY <1>1, ConnectOpens DEF Promised!StreamsNext
<1>2. ASSUME http_send_200ok \/ Poll \/ Skip \/ Receive \/ SendIntoVoid
      PROVE  UNCHANGED Promised!streamVars
  <2>1. stage \notin {"connect"} \cup Ended /\ stage' \notin {"connect"} \cup Ended
    BY <1>2 DEF http_send_200ok, Poll, Skip, Receive, SendIntoVoid, Advance, Ended
  <2>2. UNCHANGED <<delivered, sent, eof>>
    BY <1>2 DEF http_send_200ok, Poll, Skip, Receive, SendIntoVoid, kernel
  <2>3. gone' = gone
    <3>1. CASE SendIntoVoid
      <4>o. PICK o \in Ends : o = Other(i)
        BY TwoEnds DEF IInv, TypeOK
      <4>1. PICK c \in {"closed", "refusing"} : conn' = [conn EXCEPT ![o] = c]
        BY <3>1, <4>o DEF SendIntoVoid
      <4>2. conn \in [Ends -> Conditions] /\ conn[o] = "closed"
        BY <3>1, <4>o DEF SendIntoVoid, IInv, TypeOK
      <4> QED
        BY <4>1, <4>2 DEF gone
    <3>2. CASE http_send_200ok \/ Poll \/ Skip \/ Receive
      BY <3>2 DEF http_send_200ok, Poll, Skip, Receive, kernel, gone
    <3> QED
      BY <1>2, <3>1, <3>2
  <2> QED
    BY <2>1, <2>2, <2>3, HandlerStutters
<1>3. ASSUME NEW n \in 1 .. Len(buffer), Send(n)
      PROVE  UNCHANGED Promised!streamVars
  <2>1. stage \notin {"connect"} \cup Ended /\ stage' \notin {"connect"} \cup Ended
    BY <1>3 DEF Send, Advance, Ended
  <2>2. UNCHANGED <<delivered, sent, eof, gone>>
    BY <1>3 DEF Send, gone
  <2> QED
    BY <2>1, <2>2, HandlerStutters
<1>4. CASE Disconnect
  <2>1. i \in Ends /\ Promised!Close(i)
    BY <1>4, DisconnectIsClose
  <2> QED
    BY <2>1 DEF Promised!StreamsNext, Promised!Both, Ends
<1>5. CASE ConnectFails \/ PollFails \/ SendFails \/ SendKills
  BY <1>5, FailureIsFail DEF Promised!StreamsNext
<1>6. ASSUME NEW e \in Ends, Peer(e)
      PROVE  Promised!StreamsNext
  <2>1. \/ Promised!Say(e) \/ Promised!Hear(e) \/ Promised!Stop(e) \/ Promised!Leave(e)
    BY <1>6, SendsIsSay, ReadsIsHear, ShutsDownIsStop, GoesIsLeave DEF Peer
  <2> QED
    BY <2>1 DEF Promised!StreamsNext, Promised!Both, Ends
<1>7. CASE Finished \/ Silence \/ UNCHANGED vars
  <2>1. /\ stage' = stage /\ i' = i /\ buffer' = buffer /\ inbox' = inbox
        /\ outbox' = outbox /\ delivered' = delivered /\ sent' = sent
        /\ eof' = eof /\ gone' = gone
    BY <1>7 DEF Finished, Silence, vars, handler, kernel, gone
  <2>2. ASSUME NEW e \in Ends PROVE OnTheWay(e)' = OnTheWay(e)
    BY <2>1 DEF OnTheWay, InHand
  <2> QED
    BY <2>1, <2>2, SameWay, SamePhase, IsStutter
<1>8. ASSUME NEW e \in Ends, Reset(e)
      PROVE  Promised!StreamsNext
  BY <1>8, ResetIsReset DEF Promised!StreamsNext, Promised!Both, Ends
<1> QED
  BY <1>1, <1>2, <1>3, <1>4, <1>5, <1>6, <1>7, <1>8 DEF Next, Forward

(***************************************************************************)
(* Whatever the sizes of the buffers and however the kernel splits what is *)
(* sent, the loop over poll, recv and sendall gives its ends the streams   *)
(* of module Streams (proxy.cpp:540-568, Socket_connection.cpp:3-18).      *)
(***************************************************************************)
THEOREM TunnelImplementsStreams == Spec => ImplementsStreams
<1>1. Init => Promised!StreamsInit
  BY TunnelInitRefines
<1>2. IInv /\ IInv' /\ AllCounted /\ [Next]_vars => [Promised!StreamsNext]_(Promised!streamVars)
  BY TunnelStepRefines
<1> QED
  BY <1>1, <1>2, TunnelInvariant, AlwaysCounted, PTL
  DEF Spec, ImplementsStreams, Promised!StreamsSpec
===========================================================================
