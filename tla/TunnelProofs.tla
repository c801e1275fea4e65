--------------------------- MODULE TunnelProofs ---------------------------
(***************************************************************************)
(* Proofs about module Tunnel, for streams and buffers of any size, and    *)
(* that it implements module Streams.                                      *)
(***************************************************************************)
EXTENDS Tunnel, SequenceTheorems, TLAPS

---------------------------------------------------------------------------
(* Sequences of bytes *)

Bytes == Seq(Nat)

\* A sequence is cut where a recv or a send cuts it, and is still whole.
LEMMA CutSequence ==
  ASSUME NEW s \in Bytes, NEW n \in 0 .. Len(s)
  PROVE  /\ SubSeq(s, 1, n) \in Bytes /\ SubSeq(s, n + 1, Len(s)) \in Bytes
         /\ Len(SubSeq(s, 1, n)) = n
         /\ Len(SubSeq(s, n + 1, Len(s))) = Len(s) - n
         /\ SubSeq(s, 1, n) \o SubSeq(s, n + 1, Len(s)) = s
<1>1. Len(s) \in Nat /\ \A k \in 1 .. Len(s) : s[k] \in Nat
  BY LenProperties, ElementOfSeq DEF Bytes
<1>2. /\ SubSeq(s, 1, n) \in Bytes /\ Len(SubSeq(s, 1, n)) = n
  BY <1>1, SubSeqProperties DEF Bytes
<1>3. /\ SubSeq(s, n + 1, Len(s)) \in Bytes
      /\ Len(SubSeq(s, n + 1, Len(s))) = Len(s) - n
  BY <1>1, SubSeqProperties DEF Bytes
<1>4. SubSeq(s, 1, n) \o SubSeq(s, n + 1, Len(s)) = SubSeq(s, 1, Len(s))
  <2>1. 1 \in 1 .. Len(s) + 1 /\ n \in 1 - 1 .. Len(s) /\ Len(s) \in n .. Len(s)
    BY <1>1
  <2> QED
    BY <2>1, ConcatAdjacentSubSeq DEF Bytes
<1>5. SubSeq(s, 1, Len(s)) = s
  BY SubSeqFull DEF Bytes
<1> QED
  BY <1>2, <1>3, <1>4, <1>5

\* The next byte moves from what is to be read to what has been read.
LEMMA MoveHead ==
  ASSUME NEW s \in Bytes, NEW t \in Bytes, t # <<>>
  PROVE  /\ Append(s, Head(t)) \in Bytes /\ Tail(t) \in Bytes
         /\ Append(s, Head(t)) \o Tail(t) = s \o t
         /\ Len(Tail(t)) <= Len(t)
<1>1. /\ Len(Tail(t)) = Len(t) - 1 /\ Head(t) \in Nat /\ Tail(t) \in Bytes /\ Len(t) \in Nat \ {0}
      /\ Tail(t) = SubSeq(t, 2, Len(t)) /\ Head(t) = t[1]
  BY HeadTailProperties, TailIsSubSeq, EmptySeq DEF Bytes
<1>2. /\ Append(s, Head(t)) = s \o <<Head(t)>> /\ Append(s, Head(t)) \in Bytes
      /\ <<Head(t)>> \in Bytes
  BY <1>1, AppendIsConcat, AppendProperties DEF Bytes
<1>3. SubSeq(t, 1, 1) = <<Head(t)>>
  <2>1. 1 \in 1 .. Len(t) /\ 1 \in 1 .. 1 /\ SubSeq(t, 1 + 1, 1) = <<>>
    BY <1>1, SubSeqEmpty
  <2>2. SubSeq(t, 1, 1) = <<t[1]>> \o SubSeq(t, 1 + 1, 1)
    BY <2>1, SubSeqRecursiveFirst DEF Bytes
  <2> QED
    BY <1>1, <1>2, <2>1, <2>2, ConcatEmptySeq DEF Bytes
<1>4. <<Head(t)>> \o Tail(t) = t
  <2>1. 1 \in 0 .. Len(t)
    BY <1>1
  <2>2. SubSeq(t, 1, 1) \o SubSeq(t, 1 + 1, Len(t)) = t
    BY <2>1, CutSequence
  <2> QED
    BY <1>1, <1>3, <2>2
<1>5. (s \o <<Head(t)>>) \o Tail(t) = s \o t
  BY <1>1, <1>2, <1>4, ConcatAssociative DEF Bytes
<1> QED
  BY <1>1, <1>2, <1>5

LEMMA Concatenated ==
  ASSUME NEW s \in Bytes, NEW t \in Bytes
  PROVE  /\ s \o t \in Bytes /\ Len(s \o t) = Len(s) + Len(t)
         /\ s \o <<>> = s /\ <<>> \o s = s /\ <<>> \in Bytes
<1>1. s \o t \in Bytes /\ Len(s \o t) = Len(s) + Len(t)
  BY ConcatProperties DEF Bytes
<1>2. s \o <<>> = s /\ <<>> \o s = s /\ <<>> \in Bytes
  BY ConcatEmptySeq, EmptySeq DEF Bytes
<1> QED
  BY <1>1, <1>2

LEMMA Associates ==
  ASSUME NEW s \in Bytes, NEW t \in Bytes, NEW u \in Bytes
  PROVE  (s \o t) \o u = s \o (t \o u)
<1>1. ASSUME NEW a \in Seq(Nat), NEW b \in Seq(Nat), NEW c \in Seq(Nat)
      PROVE  (a \o b) \o c = a \o (b \o c)
  BY <1>1, ConcatAssociative
<1> QED
  BY <1>1 DEF Bytes

\* A byte appended to the last piece of a sequence is appended to the whole.
LEMMA AppendToLast ==
  ASSUME NEW s \in Bytes, NEW t \in Bytes, NEW x \in Nat
  PROVE  Append(t, x) \in Bytes /\ s \o Append(t, x) = Append(s \o t, x)
<1>1. Append(t, x) \in Bytes /\ Append(t, x) = t \o <<x>>
  BY AppendProperties, AppendIsConcat DEF Bytes
<1>2. s \o t \in Bytes
  BY Concatenated
<1>3. Append(s \o t, x) = (s \o t) \o <<x>>
  BY <1>2, AppendIsConcat DEF Bytes
<1>4. PICK u \in Bytes : u = <<x>>
  <2>1. <<x>> \in Bytes
    BY DEF Bytes
  <2> QED
    BY <2>1
<1>5. (s \o t) \o u = s \o (t \o u)
  BY Associates
<1> QED
  BY <1>1, <1>3, <1>4, <1>5

LEMMA Prefix ==
  ASSUME NEW s \in Bytes, NEW t \in Bytes
  PROVE  IsPrefix(s, t) <=> Len(s) <= Len(t) /\ \A n \in 1 .. Len(s) : s[n] = t[n]
<1>0. Len(s) \in Nat /\ Len(t) \in Nat
  BY LenProperties DEF Bytes
<1>1. ASSUME Len(s) <= Len(t)
      PROVE  SubSeq(s, 1, Len(s)) = SubSeq(t, 1, Len(s))
               <=> \A n \in 1 .. Len(s) : s[n] = t[n]
  <2>1. SubSeq(s, 1, Len(s)) = s
    BY SubSeqFull DEF Bytes
  <2>2. /\ SubSeq(t, 1, Len(s)) \in Bytes /\ Len(SubSeq(t, 1, Len(s))) = Len(s)
    <3>1. Len(s) \in 0 .. Len(t)
      BY <1>0, <1>1
    <3> QED
      BY <3>1, CutSequence
  <2>3. \A n \in 1 .. Len(s) : SubSeq(t, 1, Len(s))[n] = t[n]
    <3>1. \A n \in 1 .. Len(s) : t[n] \in Nat
      BY <1>0, <1>1, ElementOfSeq DEF Bytes
    <3>2. \A n \in 1 .. Len(s) - 1 + 1 : SubSeq(t, 1, Len(s))[n] = t[1 + n - 1]
      BY <1>0, <3>1, SubSeqProperties
    <3> QED
      BY <1>0, <3>2
  <2>4. (\A n \in 1 .. Len(s) : s[n] = t[n]) => s = SubSeq(t, 1, Len(s))
    BY <2>2, <2>3, SeqEqual DEF Bytes
  <2> QED
    BY <2>1, <2>3, <2>4
<1> QED
  BY <1>1 DEF IsPrefix

\* What starts a stream starts any longer one; so does what starts it.
LEMMA PrefixGrows ==
  ASSUME NEW s \in Bytes, NEW t \in Bytes, NEW u \in Bytes
  PROVE  /\ IsPrefix(s, s \o u)
         /\ IsPrefix(s, t) => IsPrefix(s, t \o u)
         /\ IsPrefix(s \o u, t) => IsPrefix(s, t)
<1>0. Len(s) \in Nat /\ Len(t) \in Nat /\ Len(u) \in Nat
  BY LenProperties DEF Bytes
<1>1. s \o u \in Bytes /\ t \o u \in Bytes
  BY Concatenated
<1>2. /\ Len(s \o u) = Len(s) + Len(u) /\ \A n \in 1 .. Len(s) : (s \o u)[n] = s[n]
  BY <1>0, ConcatProperties DEF Bytes
<1>3. /\ Len(t \o u) = Len(t) + Len(u) /\ \A n \in 1 .. Len(t) : (t \o u)[n] = t[n]
  BY <1>0, ConcatProperties DEF Bytes
<1>4. IsPrefix(s, s \o u)
  <2>1. /\ Len(s) <= Len(s \o u)
        /\ \A n \in 1 .. Len(s) : s[n] = (s \o u)[n]
    BY <1>0, <1>2
  <2> QED
    BY <1>1, <2>1, Prefix
<1>5. ASSUME IsPrefix(s, t) PROVE IsPrefix(s, t \o u)
  <2>1. Len(s) <= Len(t) /\ \A n \in 1 .. Len(s) : s[n] = t[n]
    BY <1>5, Prefix
  <2>2. /\ Len(s) <= Len(t \o u)
        /\ \A n \in 1 .. Len(s) : s[n] = (t \o u)[n]
    BY <1>0, <1>3, <2>1
  <2> QED
    BY <1>1, <2>2, Prefix
<1>6. ASSUME IsPrefix(s \o u, t) PROVE IsPrefix(s, t)
  <2>1. /\ Len(s \o u) <= Len(t)
        /\ \A n \in 1 .. Len(s \o u) : (s \o u)[n] = t[n]
    BY <1>1, <1>6, Prefix
  <2>2. Len(s) <= Len(t) /\ \A n \in 1 .. Len(s) : s[n] = t[n]
    BY <1>0, <1>2, <2>1
  <2> QED
    BY <2>2, Prefix
<1> QED
  BY <1>4, <1>5, <1>6

LEMMA PrefixOfAppended ==
  ASSUME NEW s \in Bytes, NEW t \in Bytes, NEW x \in Nat, IsPrefix(s, t)
  PROVE  IsPrefix(s, Append(t, x))
<1>1. /\ Append(t, x) \in Bytes /\ Append(t, x) = t \o <<x>>
  BY AppendProperties, AppendIsConcat DEF Bytes
<1>2. PICK u \in Bytes : u = <<x>>
  <2>1. <<x>> \in Bytes
    BY DEF Bytes
  <2> QED
    BY <2>1
<1>3. IsPrefix(s, t \o u)
  BY PrefixGrows
<1> QED
  BY <1>1, <1>2, <1>3

\* The first part of what is in hand is passed on: it is still a piece of the
\* same stream.
LEMMA PassOn ==
  ASSUME NEW p \in Bytes, NEW a \in Bytes, NEW b \in Bytes, NEW m \in Bytes
  PROVE  /\ ((p \o a) \o b) \o m = (p \o (a \o b)) \o m
         /\ IsPrefix(p \o a, (p \o (a \o b)) \o m)
<1>1. (p \o a) \o b = p \o (a \o b)
  BY Associates
<1>2. p \o a \in Bytes
  BY Concatenated
<1>3. PICK q \in Bytes : q = p \o a
  BY <1>2
<1>4. q \o b \in Bytes /\ IsPrefix(q, q \o b)
  BY Concatenated, PrefixGrows
<1>5. IsPrefix(q, (q \o b) \o m)
  BY <1>4, PrefixGrows
<1> QED
  BY <1>1, <1>3, <1>5

---------------------------------------------------------------------------
(* The inductive invariant *)

\* What end e has read or will read whatever becomes of the tunnel.
Passed(e) == delivered[e] \o outbox[e]

\* What end e has sent, as a sequence.
Said(e) == [n \in 1 .. sent[e] |-> n]

SequencesOK ==
  /\ inbox \in [Ends -> Bytes] /\ outbox \in [Ends -> Bytes]
  /\ delivered \in [Ends -> Bytes] /\ sent \in [Ends -> Nat]
  /\ buffer \in Bytes

\* Before the answer to the CONNECT the client has got nothing, and before the
\* server is connected nothing has happened.
BeginningOK ==
  /\ stage \in {"connect", "ok"} => delivered[0] = <<>> /\ outbox[0] = <<>>
  /\ stage = "connect" => /\ eof = {} /\ gone = {}
                          /\ \A e \in Ends : /\ inbox[e] = <<>> /\ outbox[e] = <<>>
                                             /\ delivered[e] = <<>> /\ sent[e] = 0

\* Nothing is on the way to an end that has gone, and what the other end gets
\* is the start of its stream; all of it is in the four places that the bytes
\* pass through, while the tunnel is open.
StreamOK(e) ==
  /\ e \in gone => outbox[e] = <<>>
  /\ IsPrefix(Passed(e), Stream(e))
  /\ stage \notin Ended /\ e \notin gone =>
       (Passed(e) \o InHand(Other(e))) \o inbox[Other(e)] = Stream(e)

IInv ==
  /\ TypeOK /\ SequencesOK /\ BeginningOK
  /\ \A e \in Ends : StreamOK(e)
  /\ LastBytesPassedOn

---------------------------------------------------------------------------
(* Lemmas about the operators of the model *)

LEMMA TwoEnds ==
  ASSUME NEW e \in Ends
  PROVE  Other(e) \in Ends /\ Other(e) # e /\ Other(Other(e)) = e
BY DEF Ends, Other

LEMMA SaidIsBytes ==
  SequencesOK => \A d \in Ends : Said(d) \in Bytes /\ Len(Said(d)) = sent[d]
<1> SUFFICES ASSUME SequencesOK, NEW e \in Ends
             PROVE  Said(e) \in Bytes /\ Len(Said(e)) = sent[e]
  OBVIOUS
<1>1. sent[e] \in Nat
  BY DEF SequencesOK
<1>2. Said(e) \in [1 .. sent[e] -> Nat]
  BY <1>1 DEF Said
<1>3. Said(e) \in Bytes
  BY <1>1, <1>2, SeqDef DEF Bytes
<1>4. DOMAIN Said(e) = 1 .. sent[e] /\ DOMAIN Said(e) = 1 .. Len(Said(e))
      /\ Len(Said(e)) \in Nat
  BY <1>2, <1>3, LenProperties DEF Bytes
<1> QED
  BY <1>1, <1>3, <1>4

LEMMA BytesEverywhere ==
  SequencesOK =>
    \A d \in Ends :
      /\ Passed(d) \in Bytes /\ InHand(d) \in Bytes /\ inbox[d] \in Bytes
      /\ Stream(d) \in Bytes
<1> SUFFICES ASSUME SequencesOK, NEW e \in Ends
             PROVE  /\ Passed(e) \in Bytes /\ InHand(e) \in Bytes /\ inbox[e] \in Bytes
                    /\ Stream(e) \in Bytes
  OBVIOUS
<1>1. /\ delivered[e] \in Bytes /\ outbox[e] \in Bytes /\ inbox[e] \in Bytes
      /\ buffer \in Bytes /\ <<>> \in Bytes /\ <<OK>> \in Bytes
  BY EmptySeq DEF SequencesOK, Bytes, OK
<1>2. Passed(e) \in Bytes
  BY <1>1, Concatenated DEF Passed
<1>3. InHand(e) \in Bytes
  BY <1>1 DEF InHand
<1>4. Said(Other(e)) \in Bytes
  BY SaidIsBytes, TwoEnds
<1>5. <<OK>> \o Said(Other(e)) \in Bytes /\ <<>> \o Said(Other(e)) = Said(Other(e))
  BY <1>1, <1>4, Concatenated
<1>6. Stream(e) = Said(Other(e)) \/ Stream(e) = <<OK>> \o Said(Other(e))
  BY <1>5 DEF Stream, Said
<1> QED
  BY <1>1, <1>2, <1>3, <1>4, <1>5, <1>6

\* The stream of an end changes only when the other end sends, or when the
\* tunnel is opened.
LEMMA SameStream ==
  ASSUME NEW e \in Ends, sent' = sent,
         stage \in {"connect", "ok"} <=> stage' \in {"connect", "ok"}
  PROVE  Stream(e)' = Stream(e)
BY DEF Stream

\* Steps that move no byte out of an outbox or into one keep a stream, if they
\* keep what is between the two ends.
LEMMA StreamKept ==
  ASSUME IInv, SequencesOK', NEW e \in Ends,
         delivered'[e] = delivered[e], outbox'[e] = outbox[e],
         sent' = sent, gone' = gone,
         stage \in {"connect", "ok"} <=> stage' \in {"connect", "ok"},
         stage \in Ended => stage' \in Ended,
         stage' \notin Ended /\ e \notin gone =>
           InHand(Other(e))' \o inbox'[Other(e)]
             = InHand(Other(e)) \o inbox[Other(e)]
  PROVE  StreamOK(e)'
<1>1. Stream(e)' = Stream(e) /\ Passed(e)' = Passed(e)
  BY SameStream DEF Passed
<1>2. StreamOK(e) /\ SequencesOK
  BY DEF IInv
<1>3. (e \in gone => outbox[e] = <<>>)' /\ IsPrefix(Passed(e), Stream(e))'
  BY <1>1, <1>2 DEF StreamOK
<1>4. ASSUME stage' \notin Ended, e \notin gone
      PROVE  ((Passed(e) \o InHand(Other(e))) \o inbox[Other(e)] = Stream(e))'
  <2>1. (Passed(e) \o InHand(Other(e))) \o inbox[Other(e)] = Stream(e)
    BY <1>2, <1>4 DEF StreamOK
  <2>2. Passed(e) \in Bytes /\ InHand(Other(e)) \in Bytes /\ inbox[Other(e)] \in Bytes
    BY <1>2, BytesEverywhere, TwoEnds
  <2>3. (\A d \in Ends : /\ Passed(d) \in Bytes /\ InHand(d) \in Bytes /\ inbox[d] \in Bytes
                         /\ Stream(d) \in Bytes)'
    BY BytesEverywhere, PTL
  <2>4. InHand(Other(e))' \in Bytes /\ inbox'[Other(e)] \in Bytes
    BY <2>3, TwoEnds
  <2>5. PICK p \in Bytes, h \in Bytes, n \in Bytes, h1 \in Bytes, n1 \in Bytes :
          /\ p = Passed(e) /\ h = InHand(Other(e)) /\ n = inbox[Other(e)]
          /\ h1 = InHand(Other(e))' /\ n1 = inbox'[Other(e)]
    BY <2>2, <2>4
  <2>6. (p \o h) \o n = (p \o h1) \o n1
    <3>1. h1 \o n1 = h \o n
      <4>1. InHand(Other(e))' \o inbox'[Other(e)] = InHand(Other(e)) \o inbox[Other(e)]
        BY <1>4
      <4> QED
        BY <2>5, <4>1
    <3>2. (p \o h) \o n = p \o (h \o n)
      BY Associates
    <3>3. (p \o h1) \o n1 = p \o (h1 \o n1)
      BY Associates
    <3> QED
      BY <3>1, <3>2, <3>3
  <2> QED
    BY <1>1, <2>1, <2>5, <2>6
<1> QED
  BY <1>3, <1>4 DEF StreamOK

---------------------------------------------------------------------------
(* Every action preserves the invariant *)

LEMMA InitIInv == Init => IInv
<1> SUFFICES ASSUME Init PROVE IInv
  OBVIOUS
<1>1. <<>> \in Bytes /\ Len(<<>>) = 0
  BY EmptySeq DEF Bytes
<1>2. gone = {}
  BY DEF Init, gone
<1>3. TypeOK
  BY <1>1, <1>2, SizesAssumption DEF Init, TypeOK, Stages, Ends, Conditions
<1>4. SequencesOK
  BY <1>1 DEF Init, SequencesOK
<1>5. BeginningOK /\ LastBytesPassedOn
  BY <1>2 DEF Init, BeginningOK, LastBytesPassedOn, Ends
<1>6. ASSUME NEW e \in Ends PROVE StreamOK(e)
  <2>1. Other(e) \in Ends
    BY TwoEnds
  <2>2. /\ Passed(e) = <<>> \o <<>> /\ InHand(Other(e)) = <<>>
        /\ inbox[Other(e)] = <<>> /\ outbox[e] = <<>>
    BY <2>1 DEF Init, Passed, InHand
  <2>3. Said(Other(e)) = <<>>
    <3>1. Len(Said(Other(e))) = 0 /\ Said(Other(e)) \in Bytes
      BY <1>4, <2>1, SaidIsBytes DEF Init
    <3> QED
      BY <3>1, EmptySeq DEF Bytes
  <2>4. Stream(e) = <<>> \o Said(Other(e))
    BY DEF Init, Stream, Said
  <2>5. <<>> \o <<>> = <<>> /\ IsPrefix(<<>>, <<>> \o <<>>)
    BY <1>1, Concatenated, PrefixGrows
  <2> QED
    BY <2>2, <2>3, <2>4, <2>5 DEF StreamOK
<1> QED
  BY <1>3, <1>4, <1>5, <1>6 DEF IInv

\* What an end has said ends with the byte that it says next.
LEMMA SaysNext ==
  ASSUME SequencesOK, SequencesOK', NEW s \in Ends, NEW b \in Nat, b = sent[s] + 1,
         sent' = [sent EXCEPT ![s] = b]
  PROVE  Said(s)' = Append(Said(s), b)
<1>1. Said(s) \in Bytes /\ Len(Said(s)) = sent[s]
  BY SaidIsBytes
<1>2. (\A d \in Ends : Said(d) \in Bytes /\ Len(Said(d)) = sent[d])'
  BY SaidIsBytes, PTL
<1>3. Said(s)' \in Bytes /\ Len(Said(s)') = b
  BY <1>2 DEF SequencesOK
<1>4. /\ Append(Said(s), b) \in Bytes /\ Len(Append(Said(s), b)) = b
      /\ \A k \in 1 .. sent[s] : Append(Said(s), b)[k] = Said(s)[k]
      /\ Append(Said(s), b)[b] = b
  BY <1>1, AppendProperties DEF Bytes, SequencesOK
<1>5. \A k \in 1 .. b : Said(s)'[k] = k
  BY DEF Said, SequencesOK
<1>6. \A k \in 1 .. b : Append(Said(s), b)[k] = k
  BY <1>4 DEF Said, SequencesOK
<1> QED
  BY <1>3, <1>4, <1>5, <1>6, SeqEqual DEF Bytes

\* An end's bytes arrive in its inbox: its stream is the other end's.
LEMMA PeerSendsIInv ==
  ASSUME IInv, NEW s \in Ends, PeerSends(s)
  PROVE  IInv'
<1>b. PICK b \in Nat : b = sent[s] + 1
  BY DEF IInv, SequencesOK
<1>0. /\ TypeOK /\ SequencesOK /\ BeginningOK
      /\ stage \notin {"connect"} \cup Ended
      /\ s \in {0, 1}
  BY DEF IInv, PeerSends, MaySpeak, Connected, SequencesOK, Ends
<1>1. /\ sent' = [sent EXCEPT ![s] = b]
      /\ inbox' = [inbox EXCEPT ![s] = Append(@, b)]
      /\ stage' = stage /\ i' = i /\ revents' = revents /\ buffer' = buffer
      /\ outbox' = outbox /\ delivered' = delivered /\ eof' = eof /\ conn' = conn
      /\ gone' = gone
  BY <1>0, <1>b DEF PeerSends, handler, gone, SequencesOK
<1>2. Append(inbox[s], b) \in Bytes /\ inbox[s] \in Bytes
  BY <1>0, AppendProperties DEF SequencesOK, Bytes
<1>3. SequencesOK'
  BY <1>0, <1>1, <1>2 DEF SequencesOK
<1>4. TypeOK'
  BY <1>0, <1>1, <1>b, SizesAssumption DEF TypeOK, PeerSends, SequencesOK
<1>5. BeginningOK'
  BY <1>0, <1>1 DEF BeginningOK
<1>6. Said(s)' = Append(Said(s), b)
  BY <1>0, <1>1, <1>3, <1>b, SaysNext
<1>7. ASSUME NEW e \in Ends, s = Other(e)
      PROVE  StreamOK(e)'
  <2>1. Stream(e)' = Append(Stream(e), b)
    <3>1. <<OK>> \in Bytes /\ <<>> \in Bytes
      BY EmptySeq DEF Bytes, OK
    <3>2. Said(s) \in Bytes
      BY <1>0, SaidIsBytes
    <3>3. \A p \in Bytes : p \o Append(Said(s), b) = Append(p \o Said(s), b)
      BY <1>0, <3>2, AppendToLast
    <3> QED
      BY <1>1, <1>6, <1>7, <3>1, <3>3 DEF Stream, Said
  <2>2. StreamOK(e) /\ Passed(e)' = Passed(e)
    BY <1>1 DEF IInv, Passed
  <2>3. Passed(e) \in Bytes /\ Stream(e) \in Bytes /\ InHand(s) \in Bytes
    BY <1>0, BytesEverywhere
  <2>4. IsPrefix(Passed(e), Stream(e))'
    BY <1>0, <2>1, <2>2, <2>3, PrefixOfAppended DEF StreamOK
  <2>5. ASSUME e \notin gone
        PROVE  ((Passed(e) \o InHand(s)) \o inbox[s] = Stream(e))'
    <3>1. (Passed(e) \o InHand(s)) \o inbox[s] = Stream(e)
      BY <1>0, <1>7, <2>2, <2>5 DEF StreamOK
    <3>2. PICK p \in Bytes, n \in Bytes : p = Passed(e) \o InHand(s) /\ n = inbox[s]
      BY <1>2, <2>3, Concatenated
    <3>3. p \o Append(n, b) = Append(p \o n, b)
      BY AppendToLast
    <3>4. inbox'[s] = Append(inbox[s], b) /\ InHand(s)' = InHand(s)
      BY <1>0, <1>1, <1>2 DEF SequencesOK, InHand
    <3> QED
      BY <2>1, <2>2, <3>1, <3>2, <3>3, <3>4
  <2> QED
    BY <1>1, <1>7, <2>2, <2>4, <2>5 DEF StreamOK
<1>8. ASSUME NEW e \in Ends, s = e
      PROVE  StreamOK(e)'
  <2>1. Other(e) \in Ends /\ Other(e) # e
    BY TwoEnds
  <2>2. sent'[Other(e)] = sent[Other(e)] /\ inbox'[Other(e)] = inbox[Other(e)]
    BY <1>0, <1>1, <1>8, <2>1 DEF SequencesOK
  <2>3. /\ Stream(e)' = Stream(e) /\ Passed(e)' = Passed(e)
        /\ InHand(Other(e))' = InHand(Other(e))
    BY <1>1, <2>2 DEF Stream, Passed, InHand
  <2> QED
    BY <1>1, <2>2, <2>3 DEF StreamOK, IInv
<1>9. \A e \in Ends : s = e \/ s = Other(e)
  BY DEF Ends, Other
<1>10. LastBytesPassedOn'
  BY <1>0, <1>1 DEF LastBytesPassedOn, Ended
<1> QED
  BY <1>3, <1>4, <1>5, <1>7, <1>8, <1>9, <1>10 DEF IInv

\* A step of the handler after the tunnel is open that touches no inbox and no
\* outbox, and forgets what it has in hand at most for an end that has gone.
LEMMA QuietIInv ==
  ASSUME IInv, UNCHANGED <<inbox, outbox, delivered, sent, eof>>,
         conn' \in [Ends -> Conditions], gone' = gone,
         i' \in Ends, revents' \subseteq Ends,
         buffer' \in Bytes, Len(buffer') <= MaxRecv,
         stage' = "send" <=> buffer' # <<>>,
         stage \notin {"connect", "ok"} \cup Ended,
         stage' \in Stages \ {"connect", "ok"},
         \A e \in Ends : stage' \notin Ended /\ e \notin gone =>
           InHand(Other(e))' = InHand(Other(e)),
         LastBytesPassedOn'
  PROVE  IInv'
<1>0. TypeOK /\ SequencesOK /\ BeginningOK
  BY DEF IInv
<1>1. TypeOK'
  BY <1>0 DEF TypeOK
<1>2. SequencesOK' /\ BeginningOK'
  BY <1>0 DEF SequencesOK, BeginningOK
<1>3. ASSUME NEW e \in Ends PROVE StreamOK(e)'
  BY <1>2, StreamKept DEF Ended
<1> QED
  BY <1>1, <1>2, <1>3 DEF IInv

\* Outside sendall there is nothing in hand.
LEMMA EmptyHand ==
  ASSUME IInv, stage # "send"
  PROVE  buffer = <<>> /\ \A e \in Ends : InHand(e) = <<>>
BY DEF IInv, TypeOK, InHand

LEMMA PollIInv ==
  ASSUME IInv, Poll \/ PollFails \/ Skip
  PROVE  IInv'
<1>1. /\ stage \in {"poll", "check"} /\ stage' \in {"poll", "check", "failed"}
      /\ i' \in Ends /\ revents' \subseteq Ends /\ buffer' = buffer
      /\ UNCHANGED kernel
  BY DEF Poll, PollFails, Skip, Advance, IInv, TypeOK, Ends
<1>2. buffer = <<>> /\ \A e \in Ends : InHand(e) = <<>> /\ InHand(e)' = <<>>
  BY <1>1, EmptyHand DEF InHand
<1>3. LastBytesPassedOn'
  BY <1>1 DEF LastBytesPassedOn
<1>4. \A e \in Ends : InHand(Other(e))' = InHand(Other(e))
  BY <1>2, TwoEnds
<1>5. gone' = gone /\ conn' \in [Ends -> Conditions]
  BY <1>1 DEF kernel, gone, IInv, TypeOK
<1> QED
  BY <1>1, <1>2, <1>3, <1>4, <1>5, QuietIInv
  DEF kernel, Stages, Ended, IInv, SequencesOK, TypeOK

\* The tunnel closes on the end of the stream of end i: nothing of it is left
\* anywhere but in the socket to the other end.
LEMMA DisconnectIInv ==
  ASSUME IInv, Disconnect
  PROVE  IInv'
<1>1. /\ stage = "check" /\ stage' = "closed" /\ i \in Ends /\ inbox[i] = <<>>
      /\ UNCHANGED <<i, revents, buffer, kernel>>
  BY DEF Disconnect, IInv, TypeOK
<1>2. buffer = <<>> /\ \A e \in Ends : InHand(e) = <<>> /\ InHand(e)' = <<>>
  BY <1>1, EmptyHand DEF InHand
<1>3. \A e \in Ends : InHand(Other(e))' = InHand(Other(e))
  BY <1>2, TwoEnds
<1>4. gone' = gone /\ conn' \in [Ends -> Conditions]
  BY <1>1 DEF kernel, gone, IInv, TypeOK
<1>5. LastBytesPassedOn'
  <2> DEFINE o == Other(i)
  <2>1. SUFFICES ASSUME o \notin gone
                 PROVE  Passed(o) = Stream(o)
    <3>1. o \in Ends
      BY <1>1, TwoEnds
    <3>2. Stream(o)' = Stream(o)
      BY <1>1, <3>1, SameStream DEF kernel
    <3>3. o' = o /\ delivered' = delivered /\ outbox' = outbox
      BY <1>1 DEF kernel, Other
    <3> QED
      BY <1>4, <2>1, <3>2, <3>3 DEF LastBytesPassedOn, Passed
  <2>2. o \in Ends /\ Other(o) = i
    BY <1>1, TwoEnds
  <2>3. (Passed(o) \o InHand(i)) \o inbox[i] = Stream(o)
    BY <1>1, <2>1, <2>2 DEF IInv, StreamOK, Ended
  <2>4. (Passed(o) \o <<>>) \o <<>> = Stream(o)
    BY <1>1, <1>2, <2>3
  <2>5. Passed(o) \in Bytes
    BY <2>2, BytesEverywhere DEF IInv
  <2> QED
    BY <2>4, <2>5, Concatenated
<1> QED
  BY <1>1, <1>2, <1>3, <1>4, <1>5, QuietIInv
  DEF kernel, Stages, Ended, IInv, SequencesOK, TypeOK

\* The other end has closed its connection, or broken it off.
LEMMA SendToGoneIInv ==
  ASSUME IInv, SendIntoVoid \/ SendFails \/ SendKills
  PROVE  IInv'
<1>0. i \in Ends /\ conn \in [Ends -> Conditions] /\ Other(i) \in Ends
  BY TwoEnds DEF IInv, TypeOK
<1>1. /\ stage = "send" /\ buffer' = <<>> /\ i' \in Ends /\ revents' = revents
      /\ UNCHANGED <<inbox, outbox, delivered, sent, eof>>
      /\ stage' \in {"check", "poll", "failed", "killed"}
      /\ Other(i) \in gone
  BY <1>0 DEF SendIntoVoid, SendFails, SendKills, Advance, kernel, gone, Ends
<1>2. conn' \in [Ends -> Conditions] /\ gone' = gone
  <2>1. CASE SendIntoVoid
    BY <1>0, <2>1 DEF SendIntoVoid, Conditions, gone
  <2>2. CASE SendFails \/ SendKills
    BY <1>0, <2>2 DEF SendFails, SendKills, kernel, gone
  <2> QED
    BY <2>1, <2>2
<1>3. ASSUME NEW e \in Ends, e \notin gone
      PROVE  InHand(Other(e))' = InHand(Other(e))
  <2>1. Other(e) # i
    BY <1>1, <1>3, TwoEnds
  <2> QED
    BY <1>1, <2>1 DEF InHand
<1>4. LastBytesPassedOn'
  BY <1>1 DEF LastBytesPassedOn
<1>5. <<>> \in Bytes /\ Len(<<>>) <= MaxRecv
  BY EmptySeq, SizesAssumption DEF Bytes
<1> QED
  BY <1>1, <1>2, <1>3, <1>4, <1>5, QuietIInv DEF Stages, Ended, IInv, TypeOK

LEMMA ConnectIInv ==
  ASSUME IInv, Connect
  PROVE  IInv'
<1>0. TypeOK /\ SequencesOK /\ BeginningOK
  BY DEF IInv
<1>1. /\ stage = "connect" /\ stage' = "ok"
      /\ UNCHANGED <<i, revents, buffer, kernel>> /\ gone' = gone
  BY DEF Connect, kernel, gone
<1>2. TypeOK'
  BY <1>0, <1>1 DEF TypeOK, kernel, Stages
<1>3. SequencesOK' /\ BeginningOK'
  BY <1>0, <1>1 DEF SequencesOK, BeginningOK, kernel, Ends
<1>4. ASSUME NEW e \in Ends PROVE StreamOK(e)'
  <2>1. InHand(Other(e))' = InHand(Other(e))
    BY <1>1 DEF InHand
  <2> QED
    BY <1>1, <1>3, <2>1, StreamKept DEF Ended, kernel
<1>5. LastBytesPassedOn'
  BY <1>1 DEF LastBytesPassedOn
<1> QED
  BY <1>2, <1>3, <1>4, <1>5 DEF IInv

LEMMA ConnectFailsIInv ==
  ASSUME IInv, ConnectFails
  PROVE  IInv'
<1>0. TypeOK /\ SequencesOK /\ BeginningOK
  BY DEF IInv
<1>1. /\ stage = "connect" /\ stage' = "failed"
      /\ UNCHANGED <<i, revents, buffer, kernel>> /\ gone' = gone
  BY DEF ConnectFails, kernel, gone
<1>2. TypeOK'
  BY <1>0, <1>1 DEF TypeOK, kernel, Stages
<1>3. SequencesOK' /\ BeginningOK'
  BY <1>0, <1>1 DEF SequencesOK, BeginningOK, kernel
<1>4. ASSUME NEW e \in Ends PROVE StreamOK(e)'
  <2>1. Passed(e)' = <<>> \o <<>> /\ outbox'[e] = <<>>
    BY <1>0, <1>1 DEF BeginningOK, Passed, kernel
  <2>2. <<>> \in Bytes /\ <<>> \o <<>> = <<>>
    BY EmptySeq, Concatenated DEF Bytes
  <2>3. (\A d \in Ends : /\ Passed(d) \in Bytes /\ InHand(d) \in Bytes /\ inbox[d] \in Bytes
                         /\ Stream(d) \in Bytes)'
    BY <1>3, BytesEverywhere, PTL
  <2>4. PICK w \in Bytes : w = Stream(e)'
    BY <2>3
  <2>5. IsPrefix(<<>>, <<>> \o w)
    BY <2>2, PrefixGrows
  <2>6. <<>> \o w = w
    BY Concatenated
  <2>7. IsPrefix(Passed(e), Stream(e))'
    BY <2>1, <2>2, <2>4, <2>5, <2>6
  <2> QED
    BY <1>1, <2>1, <2>7 DEF StreamOK, Ended
<1>5. LastBytesPassedOn'
  BY <1>1 DEF LastBytesPassedOn
<1> QED
  BY <1>2, <1>3, <1>4, <1>5 DEF IInv

\* The proxy's answer is put in front of what the server has sent.
LEMMA SendOkIInv ==
  ASSUME IInv, http_send_200ok
  PROVE  IInv'
<1>0. TypeOK /\ SequencesOK /\ BeginningOK
  BY DEF IInv
<1>1. /\ stage = "ok" /\ stage' = "poll"
      /\ UNCHANGED <<i, revents, buffer, inbox, delivered, sent, eof, conn>>
      /\ gone' = gone
      /\ outbox' = [outbox EXCEPT ![0] = IF 0 \in gone THEN <<>> ELSE <<OK>>]
      /\ delivered[0] = <<>> /\ outbox[0] = <<>>
  BY <1>0 DEF http_send_200ok, gone, BeginningOK
<1>2. <<OK>> \in Bytes /\ <<>> \in Bytes /\ Len(<<OK>>) = 1 /\ Len(<<>>) = 0
  BY EmptySeq DEF Bytes, OK
<1>3. TypeOK'
  BY <1>0, <1>1, <1>2, SizesAssumption DEF TypeOK, SequencesOK, Stages
<1>4. SequencesOK' /\ BeginningOK'
  BY <1>0, <1>1, <1>2 DEF SequencesOK, BeginningOK
<1>5. buffer = <<>> /\ \A e \in Ends : InHand(e) = <<>> /\ InHand(e)' = <<>>
  BY <1>1, EmptyHand DEF InHand
<1>6. StreamOK(1)'
  <2>1. 1 \in Ends /\ Other(1) \in Ends
    BY DEF Ends, Other
  <2>2. outbox'[1] = outbox[1]
    BY <1>0, <1>1, <2>1 DEF SequencesOK
  <2>3. Stream(1)' = Stream(1)
    <3>1. (IF 1 = 0 /\ stage \notin {"connect", "ok"} THEN <<OK>> ELSE <<>>)' = <<>>
          /\ (IF 1 = 0 /\ stage \notin {"connect", "ok"} THEN <<OK>> ELSE <<>>) = <<>>
      OBVIOUS
    <3>2. Said(Other(1))' = Said(Other(1))
      BY <1>1 DEF Said
    <3> QED
      BY <3>1, <3>2 DEF Stream, Said
  <2>4. Passed(1)' = Passed(1)
    BY <1>1, <2>2 DEF Passed
  <2> QED
    BY <1>1, <1>5, <2>1, <2>2, <2>3, <2>4 DEF StreamOK, IInv, Ended
<1>7. StreamOK(0)'
  <2>1. 0 \in Ends /\ 1 \in Ends /\ Other(0) = 1
    BY DEF Ends, Other
  <2>0. Said(1) \in Bytes
    BY <1>0, <2>1, SaidIsBytes
  <2>a. PICK a \in Bytes : a = <<OK>>
    BY <1>2
  <2>2. PICK n \in Bytes : n = Said(1)
    BY <2>0
  <2>3. Stream(0)' = a \o n /\ Stream(0) = <<>> \o n
    BY <1>1, <2>1, <2>2, <2>a DEF Stream, Said
  <2>4. <<>> \o n = n /\ a \o <<>> = a /\ <<>> \o a = a /\ <<>> \o <<>> = <<>>
    BY <1>2, Concatenated
  <2>5. CASE 0 \in gone
    <3>1. Passed(0)' = <<>> /\ outbox'[0] = <<>>
      BY <1>0, <1>1, <2>1, <2>4, <2>5 DEF Passed, SequencesOK
    <3>2. a \o n \in Bytes
      BY Concatenated
    <3>3. <<>> \o (a \o n) = a \o n
      BY <3>2, Concatenated
    <3>4. IsPrefix(<<>>, <<>> \o (a \o n))
      BY <1>2, <3>2, PrefixGrows
    <3> QED
      BY <1>1, <2>3, <2>5, <3>1, <3>3, <3>4 DEF StreamOK
  <2>6. CASE 0 \notin gone
    <3>1. outbox'[0] = a
      BY <1>0, <1>1, <2>1, <2>a, <2>6 DEF SequencesOK
    <3>2. Passed(0)' = a
      BY <1>1, <2>4, <3>1 DEF Passed
    <3>3. IsPrefix(a, a \o n)
      BY PrefixGrows
    <3>4. ((<<>> \o <<>>) \o <<>>) \o inbox[1] = Stream(0)
      BY <1>1, <1>5, <2>1, <2>6 DEF StreamOK, IInv, Passed, Ended
    <3>5. inbox[1] = n
      <4>1. inbox[1] \in Bytes
        BY <1>0, <2>1 DEF SequencesOK
      <4>2. <<>> \o inbox[1] = inbox[1]
        BY <4>1, Concatenated
      <4> QED
        BY <2>3, <2>4, <3>4, <4>2
    <3>6. (a \o <<>>) \o inbox[1] = a \o n
      BY <2>4, <3>5
    <3> QED
      BY <1>1, <1>5, <2>1, <2>3, <2>6, <3>2, <3>3, <3>6 DEF StreamOK
  <2> QED
    BY <2>5, <2>6
<1>8. LastBytesPassedOn'
  BY <1>1 DEF LastBytesPassedOn
<1> QED
  BY <1>3, <1>4, <1>6, <1>7, <1>8 DEF IInv, Ends

---------------------------------------------------------------------------
(* Forwarding *)

LEMMA MinOfTwo ==
  ASSUME NEW a \in Nat, NEW b \in Nat
  PROVE  Min({a, b}) \in {a, b} /\ Min({a, b}) <= a /\ Min({a, b}) <= b
<1> DEFINE P(x) == x \in {a, b} /\ \A y \in {a, b} : x <= y
<1>1. \E x : P(x)
  <2>1. CASE a <= b
    <3>1. P(a)
      BY <2>1
    <3> QED
      BY <3>1
  <2>2. CASE ~(a <= b)
    <3>1. P(b)
      BY <2>2
    <3> QED
      BY <3>1
  <2> QED
    BY <2>1, <2>2
<1>2. Min({a, b}) = CHOOSE x : P(x)
  BY DEF Min
<1>3. P(CHOOSE x : P(x))
  BY <1>1
<1> QED
  BY <1>2, <1>3

\* What recv takes from the inbox is in hand, and what it leaves comes after.
LEMMA ReceiveIInv ==
  ASSUME IInv, Receive
  PROVE  IInv'
<1>0. TypeOK /\ SequencesOK /\ BeginningOK /\ i \in Ends
  BY DEF IInv, TypeOK
<1>1. PICK s \in Bytes : s = inbox[i]
  BY <1>0 DEF SequencesOK
<1>2. PICK n \in 1 .. Len(s) :
        /\ n <= MaxRecv
        /\ buffer' = SubSeq(s, 1, n)
        /\ inbox' = [inbox EXCEPT ![i] = SubSeq(s, n + 1, Len(s))]
  <2>1. Len(s) \in Nat /\ s # <<>>
    BY <1>1, LenProperties DEF Receive, Bytes
  <2>2. Len(s) # 0
    BY <2>1, EmptySeq DEF Bytes
  <2>3. Min({MaxRecv, Len(s)}) \in 1 .. Len(s) /\ Min({MaxRecv, Len(s)}) <= MaxRecv
    BY <2>1, <2>2, MinOfTwo, SizesAssumption
  <2> QED
    BY <1>1, <2>3 DEF Receive
<1>n. n \in 0 .. Len(s)
  <2>1. Len(s) \in Nat
    BY LenProperties DEF Bytes
  <2> QED
    BY <2>1
<1>a. PICK a \in Bytes : a = SubSeq(s, 1, n)
  <2>1. SubSeq(s, 1, n) \in Bytes
    BY <1>n, CutSequence
  <2> QED
    BY <2>1
<1>b. PICK b \in Bytes : b = SubSeq(s, n + 1, Len(s))
  <2>1. SubSeq(s, n + 1, Len(s)) \in Bytes
    BY <1>n, CutSequence
  <2> QED
    BY <2>1
<1>3. a \o b = s /\ Len(a) = n
  BY <1>n, <1>a, <1>b, CutSequence
<1>4. /\ stage = "check" /\ stage' = "send" /\ buffer' = a /\ a # <<>>
      /\ inbox' = [inbox EXCEPT ![i] = b] /\ inbox'[i] = b
      /\ UNCHANGED <<i, revents, outbox, delivered, sent, eof, conn>>
      /\ gone' = gone
  <2>1. a # <<>>
    BY <1>3, EmptySeq DEF Bytes
  <2> QED
    BY <1>0, <1>2, <1>a, <1>b, <2>1 DEF Receive, gone, SequencesOK
<1>5. TypeOK'
  BY <1>0, <1>2, <1>3, <1>4 DEF TypeOK, Stages
<1>6. SequencesOK' /\ BeginningOK'
  BY <1>0, <1>4 DEF SequencesOK, BeginningOK
<1>7. ASSUME NEW e \in Ends PROVE StreamOK(e)'
  <2>1. Other(e) \in Ends
    BY TwoEnds
  <2>2. InHand(Other(e)) = <<>>
    BY <1>4, <2>1, EmptyHand
  <2>3. InHand(Other(e))' \o inbox'[Other(e)] = InHand(Other(e)) \o inbox[Other(e)]
    <3>1. CASE Other(e) = i
      <4>1. InHand(Other(e))' = a /\ inbox'[Other(e)] = b
        BY <1>4, <3>1 DEF InHand
      <4>2. <<>> \o s = s
        BY Concatenated
      <4> QED
        BY <1>1, <1>3, <2>2, <3>1, <4>1, <4>2
    <3>2. CASE Other(e) # i
      <4>1. InHand(Other(e))' = <<>> /\ inbox'[Other(e)] = inbox[Other(e)]
        BY <1>0, <1>4, <2>1, <3>2 DEF InHand, SequencesOK
      <4> QED
        BY <2>2, <4>1
    <3> QED
      BY <3>1, <3>2
  <2> QED
    BY <1>4, <1>6, <2>3, StreamKept DEF Ended
<1>8. LastBytesPassedOn'
  BY <1>4 DEF LastBytesPassedOn
<1> QED
  BY <1>5, <1>6, <1>7, <1>8 DEF IInv

\* What send takes from the buffer is in the socket, and what it leaves is still
\* in hand: sendall goes on with it.
LEMMA SendIInv ==
  ASSUME IInv, NEW n \in 1 .. Len(buffer), Send(n)
  PROVE  IInv'
<1>i. PICK j \in Ends : j = i
  BY DEF IInv, TypeOK
<1>o. PICK o \in Ends : o = Other(j)
  BY TwoEnds
<1>0. /\ TypeOK /\ SequencesOK /\ BeginningOK /\ i \in Ends /\ j = i
      /\ o \in Ends /\ o # j /\ Other(o) = j /\ Other(j) = o
      /\ \A e \in Ends : e = o \/ e = j
  BY <1>i, <1>o, TwoEnds DEF IInv, TypeOK, Ends, Other
<1>1. PICK s \in Bytes : s = buffer
  BY <1>0 DEF SequencesOK
<1>t. PICK t \in Bytes : t = outbox[o]
  BY <1>0 DEF SequencesOK
<1>2. Len(s) \in Nat /\ Len(t) \in Nat /\ n \in 1 .. Len(s) /\ n \in 0 .. Len(s)
  <2>1. Len(s) \in Nat /\ Len(t) \in Nat
    BY LenProperties DEF Bytes
  <2> QED
    BY <1>1, <2>1
<1>a. PICK a \in Bytes : a = SubSeq(s, 1, n)
  <2>1. SubSeq(s, 1, n) \in Bytes
    BY <1>2, CutSequence
  <2> QED
    BY <2>1
<1>b. PICK b \in Bytes : b = SubSeq(s, n + 1, Len(s))
  <2>1. SubSeq(s, n + 1, Len(s)) \in Bytes
    BY <1>2, CutSequence
  <2> QED
    BY <2>1
<1>3. a \o b = s /\ Len(a) = n /\ Len(b) = Len(s) - n
  BY <1>2, <1>a, <1>b, CutSequence
<1>4. /\ stage = "send" /\ o \notin gone
      /\ n <= BufferSize - Len(t)
      /\ outbox' = [outbox EXCEPT ![o] = t \o a] /\ outbox'[o] = t \o a
      /\ buffer' = b
      /\ IF n = Len(s) THEN Advance ELSE UNCHANGED <<stage, i>>
      /\ UNCHANGED <<revents, inbox, delivered, sent, eof, conn>>
      /\ gone' = gone
  BY <1>0, <1>1, <1>t, <1>a, <1>b DEF Send, gone, SequencesOK
<1>5. t \o a \in Bytes /\ Len(t \o a) = Len(t) + n
  BY <1>3, Concatenated
<1>6. /\ i' \in Ends /\ stage' \in {"send", "check", "poll"}
      /\ stage' = "send" => i' = i
      /\ stage' = "send" <=> b # <<>>
  <2>1. b = <<>> <=> n = Len(s)
    BY <1>2, <1>3, EmptySeq DEF Bytes
  <2>2. CASE n = Len(s)
    BY <1>4, <2>1, <2>2, <1>0 DEF Advance, Ends
  <2>3. CASE n # Len(s)
    BY <1>0, <1>4, <2>1, <2>3
  <2> QED
    BY <2>2, <2>3
<1>7. TypeOK'
  <2>1. Len(s) <= MaxRecv
    BY <1>0, <1>1 DEF TypeOK
  <2>2. Len(b) <= MaxRecv
    BY <1>2, <1>3, <2>1, SizesAssumption
  <2>3. Len(t \o a) <= BufferSize
    BY <1>2, <1>4, <1>5, SizesAssumption
  <2>4. \A e \in Ends : Len(outbox'[e]) <= BufferSize
    BY <1>0, <1>4, <2>3 DEF TypeOK, SequencesOK
  <2> QED
    BY <1>0, <1>4, <1>6, <2>2, <2>4 DEF TypeOK, Stages
<1>8. SequencesOK' /\ BeginningOK'
  BY <1>0, <1>4, <1>5, <1>6 DEF SequencesOK, BeginningOK
<1>9. StreamOK(o)'
  <2>0. Passed(o) \in Bytes /\ delivered[o] \in Bytes /\ inbox[j] \in Bytes
    BY <1>0, BytesEverywhere DEF SequencesOK
  <2>p. PICK p \in Bytes : p = Passed(o)
    BY <2>0
  <2>d. PICK d \in Bytes : d = delivered[o]
    BY <2>0
  <2>1. PICK m \in Bytes : m = inbox[j]
    BY <2>0
  <2>2. p = d \o t /\ InHand(j) = s
    BY <1>0, <1>1, <1>t, <1>4, <2>p, <2>d DEF Passed, InHand
  <2>3. Passed(o)' = p \o a
    <3>1. Passed(o)' = d \o (t \o a)
      BY <1>4, <2>d DEF Passed
    <3>2. (d \o t) \o a = d \o (t \o a)
      BY Associates
    <3> QED
      BY <2>2, <3>1, <3>2
  <2>4. InHand(j)' = b
    BY <1>0, <1>4, <1>6 DEF InHand
  <2>5. Stream(o)' = Stream(o)
    BY <1>0, <1>4, <1>6, SameStream
  <2>6. (p \o s) \o m = Stream(o)
    BY <1>0, <1>4, <2>p, <2>1, <2>2 DEF IInv, StreamOK, Ended
  <2>7. /\ ((p \o a) \o b) \o m = (p \o (a \o b)) \o m
        /\ IsPrefix(p \o a, (p \o (a \o b)) \o m)
    BY PassOn
  <2>8. a \o b = s
    BY <1>3
  <2>9. o \notin gone' /\ inbox'[j] = m
    BY <1>4, <2>1
  <2> QED
    BY <2>3, <2>4, <2>5, <2>6, <2>7, <2>8, <2>9, <1>0 DEF StreamOK
<1>10. StreamOK(j)'
  <2>1. InHand(o) = <<>> /\ InHand(o)' = <<>>
    BY <1>0, <1>6 DEF InHand
  <2>2. outbox'[j] = outbox[j]
    BY <1>0, <1>4 DEF SequencesOK
  <2> QED
    BY <1>0, <1>4, <1>6, <1>8, <2>1, <2>2, StreamKept DEF Ended
<1>11. LastBytesPassedOn'
  BY <1>6 DEF LastBytesPassedOn
<1> QED
  BY <1>0, <1>7, <1>8, <1>9, <1>10, <1>11 DEF IInv
---------------------------------------------------------------------------
(* The two ends *)

\* What an end reads leaves its socket: together they are what they were.
LEMMA PeerReadsIInv ==
  ASSUME IInv, NEW r \in Ends, PeerReads(r)
  PROVE  IInv'
<1>0. TypeOK /\ SequencesOK /\ BeginningOK /\ LastBytesPassedOn
  BY DEF IInv
<1>d. PICK d \in Bytes : d = delivered[r]
  BY <1>0 DEF SequencesOK
<1>o. PICK o \in Bytes : o = outbox[r]
  BY <1>0 DEF SequencesOK
<1>1. o # <<>>
  BY <1>o DEF PeerReads
<1>2. /\ Append(d, Head(o)) \in Bytes /\ Tail(o) \in Bytes
      /\ Append(d, Head(o)) \o Tail(o) = d \o o /\ Len(Tail(o)) <= Len(o)
  BY <1>1, MoveHead
<1>x. PICK x \in Bytes : x = Append(d, Head(o))
  BY <1>2
<1>y. PICK y \in Bytes : y = Tail(o)
  BY <1>2
<1>3. /\ delivered' = [delivered EXCEPT ![r] = x] /\ delivered'[r] = x
      /\ outbox' = [outbox EXCEPT ![r] = y] /\ outbox'[r] = y
      /\ stage' = stage /\ i' = i /\ revents' = revents /\ buffer' = buffer
      /\ inbox' = inbox /\ sent' = sent /\ eof' = eof /\ conn' = conn
      /\ gone' = gone
  BY <1>0, <1>d, <1>o, <1>x, <1>y DEF PeerReads, handler, gone, SequencesOK
<1>4. TypeOK'
  <2>1. Len(o) \in Nat /\ Len(y) \in Nat /\ Len(o) <= BufferSize
    BY <1>0, <1>o, LenProperties DEF Bytes, TypeOK
  <2>2. Len(y) <= BufferSize
    BY <1>2, <1>y, <2>1, SizesAssumption
  <2>3. \A e \in Ends : Len(outbox'[e]) <= BufferSize
    BY <1>0, <1>3, <2>2 DEF TypeOK, SequencesOK
  <2> QED
    BY <1>0, <1>3, <2>3 DEF TypeOK
<1>5. SequencesOK'
  BY <1>0, <1>3 DEF SequencesOK
<1>6. BeginningOK'
  <2>1. stage # "connect" /\ (stage = "ok" => r # 0)
    BY <1>0, <1>1, <1>o DEF BeginningOK
  <2>2. r # 0 => delivered'[0] = delivered[0] /\ outbox'[0] = outbox[0]
    BY <1>0, <1>3 DEF SequencesOK, Ends
  <2> QED
    BY <1>0, <1>3, <2>1, <2>2 DEF BeginningOK
<1>7. \A e \in Ends : Passed(e)' = Passed(e) /\ Stream(e)' = Stream(e)
                       /\ InHand(e)' = InHand(e) /\ (e # r => outbox'[e] = outbox[e])
  <2> TAKE e \in Ends
  <2>1. Stream(e)' = Stream(e) /\ InHand(e)' = InHand(e)
    BY <1>3 DEF Stream, InHand
  <2>2. CASE e = r
    <3>1. Passed(r)' = x \o y /\ Passed(r) = d \o o
      BY <1>3, <1>d, <1>o DEF Passed
    <3>2. x \o y = d \o o
      BY <1>2, <1>x, <1>y
    <3> QED
      BY <2>1, <2>2, <3>1, <3>2
  <2>3. CASE e # r
    <3>1. delivered'[e] = delivered[e] /\ outbox'[e] = outbox[e]
      BY <1>0, <1>3, <2>3 DEF SequencesOK
    <3>2. Passed(e)' = Passed(e)
      BY <3>1 DEF Passed
    <3> QED
      BY <2>1, <3>1, <3>2
  <2> QED
    BY <2>2, <2>3
<1>8. ASSUME NEW e \in Ends PROVE StreamOK(e)'
  <2>1. StreamOK(e) /\ StreamOK(r) /\ Other(e) \in Ends
    BY TwoEnds DEF IInv
  <2>2. r \notin gone
    BY <1>1, <1>o, <2>1 DEF StreamOK
  <2> QED
    BY <1>3, <1>7, <2>1, <2>2 DEF StreamOK
<1>9. LastBytesPassedOn'
  <2>1. PICK k \in Ends : k = Other(i)
    BY <1>0, TwoEnds DEF TypeOK
  <2>2. Passed(k)' = Passed(k) /\ Stream(k)' = Stream(k)
    BY <1>7
  <2>3. stage = "closed" /\ k \notin gone => Passed(k) = Stream(k)
    BY <1>0, <2>1 DEF LastBytesPassedOn, Passed
  <2>4. Other(i)' = k
    BY <1>3, <2>1 DEF Other
  <2> QED
    BY <1>3, <2>2, <2>3, <2>4 DEF LastBytesPassedOn, Passed
<1> QED
  BY <1>4, <1>5, <1>6, <1>8, <1>9 DEF IInv

LEMMA PeerShutsDownIInv ==
  ASSUME IInv, NEW r \in Ends, PeerShutsDown(r)
  PROVE  IInv'
<1>0. TypeOK /\ SequencesOK /\ BeginningOK /\ LastBytesPassedOn
  BY DEF IInv
<1>1. /\ stage \notin {"connect"} \cup Ended /\ eof' = eof \cup {r}
      /\ stage' = stage /\ i' = i /\ revents' = revents /\ buffer' = buffer
      /\ inbox' = inbox /\ outbox' = outbox /\ delivered' = delivered
      /\ sent' = sent /\ conn' = conn /\ gone' = gone
  BY DEF PeerShutsDown, Connected, handler, gone
<1>2. TypeOK' /\ SequencesOK' /\ BeginningOK'
  BY <1>0, <1>1 DEF TypeOK, SequencesOK, BeginningOK
<1>3. ASSUME NEW e \in Ends PROVE StreamOK(e)'
  <2>1. InHand(Other(e))' = InHand(Other(e))
    BY <1>1 DEF InHand
  <2> QED
    BY <1>1, <1>2, <2>1, StreamKept
<1>4. LastBytesPassedOn'
  BY <1>1 DEF LastBytesPassedOn, Ended
<1> QED
  BY <1>2, <1>3, <1>4 DEF IInv

\* An end whose connection is over leaves what it has not read: what it has read
\* is still the start of its stream.
LEMMA CutOffIInv ==
  ASSUME IInv, NEW r \in Ends, NEW c \in Conditions \ {"open"},
         stage # "connect",
         conn' = [conn EXCEPT ![r] = c], eof' = eof \cup {r},
         outbox' = [outbox EXCEPT ![r] = <<>>],
         UNCHANGED <<handler, inbox, delivered, sent>>
  PROVE  IInv'
<1>0. TypeOK /\ SequencesOK /\ BeginningOK /\ LastBytesPassedOn
  BY DEF IInv
<1>2. /\ stage' = stage /\ i' = i /\ revents' = revents /\ buffer' = buffer
      /\ inbox' = inbox /\ delivered' = delivered /\ sent' = sent
      /\ outbox'[r] = <<>>
      /\ gone' = gone \cup {r}
  <2>1. gone' = gone \cup {r}
    BY <1>0 DEF gone, TypeOK
  <2> QED
    BY <1>0, <2>1 DEF handler, SequencesOK
<1>3. <<>> \in Bytes /\ Len(<<>>) = 0
  BY EmptySeq DEF Bytes
<1>4. TypeOK'
  <2>1. \A e \in Ends : Len(outbox'[e]) <= BufferSize
    BY <1>0, <1>2, <1>3, SizesAssumption DEF TypeOK, SequencesOK
  <2>2. conn' \in [Ends -> Conditions]
    BY <1>0 DEF TypeOK
  <2> QED
    BY <1>0, <1>2, <2>1, <2>2 DEF TypeOK
<1>5. SequencesOK' /\ BeginningOK'
  BY <1>0, <1>2, <1>3 DEF SequencesOK, BeginningOK
<1>6. ASSUME NEW e \in Ends, e # r PROVE StreamOK(e)'
  <2>1. outbox'[e] = outbox[e] /\ InHand(Other(e))' = InHand(Other(e))
    BY <1>0, <1>2, <1>6 DEF InHand, SequencesOK
  <2>2. Stream(e)' = Stream(e) /\ Passed(e)' = Passed(e)
    BY <1>2, <2>1 DEF Stream, Passed
  <2> QED
    BY <1>2, <1>6, <2>1, <2>2 DEF StreamOK, IInv
<1>7. StreamOK(r)'
  <2>d. PICK d \in Bytes : d = delivered[r]
    BY <1>0 DEF SequencesOK
  <2>o. PICK o \in Bytes : o = outbox[r]
    BY <1>0 DEF SequencesOK
  <2>0. Stream(r) \in Bytes
    BY <1>0, BytesEverywhere
  <2>s. PICK s \in Bytes : s = Stream(r)
    BY <2>0
  <2>1. IsPrefix(d \o o, s)
    BY <2>d, <2>o, <2>s DEF IInv, StreamOK, Passed
  <2>2. IsPrefix(d, s) /\ d \o <<>> = d
    BY <2>1, PrefixGrows, Concatenated
  <2>3. Passed(r)' = d /\ Stream(r)' = s
    BY <1>2, <2>d, <2>s, <2>2 DEF Passed, Stream
  <2> QED
    BY <1>2, <2>2, <2>3 DEF StreamOK
<1>8. LastBytesPassedOn'
  <2>1. PICK o \in Ends : o = Other(i)
    BY <1>0, TwoEnds DEF TypeOK
  <2>2. CASE o = r
    BY <1>2, <2>1, <2>2 DEF LastBytesPassedOn, Other
  <2>3. CASE o # r
    <3>1. outbox'[o] = outbox[o] /\ Stream(o)' = Stream(o) /\ Other(i)' = o
      BY <1>0, <1>2, <2>1, <2>3 DEF SequencesOK, Stream, Other
    <3> QED
      BY <1>0, <1>2, <2>1, <3>1 DEF LastBytesPassedOn
  <2> QED
    BY <2>2, <2>3
<1> QED
  BY <1>4, <1>5, <1>6, <1>7, <1>8 DEF IInv

LEMMA PeerGoesIInv ==
  ASSUME IInv, NEW r \in Ends, PeerGoes(r)
  PROVE  IInv'
<1>1. PICK c \in {"closed", "broken"} : conn' = [conn EXCEPT ![r] = c]
  BY DEF PeerGoes
<1>2. c \in Conditions \ {"open"}
  BY DEF Conditions
<1> QED
  BY <1>1, <1>2, CutOffIInv DEF PeerGoes, Connected

LEMMA ResetIInv ==
  ASSUME IInv, NEW r \in Ends, Reset(r)
  PROVE  IInv'
<1>1. "reset" \in Conditions \ {"open"} /\ stage # "connect"
  BY DEF Reset, Conditions, Ended
<1> QED
  BY <1>1, CutOffIInv DEF Reset

LEMMA NothingIInv ==
  ASSUME IInv, UNCHANGED vars
  PROVE  IInv'
<1>1. /\ stage' = stage /\ i' = i /\ revents' = revents /\ buffer' = buffer
      /\ inbox' = inbox /\ outbox' = outbox /\ delivered' = delivered
      /\ sent' = sent /\ eof' = eof /\ conn' = conn /\ gone' = gone
  BY DEF vars, handler, kernel, gone
<1>2. TypeOK' /\ SequencesOK' /\ BeginningOK' /\ LastBytesPassedOn'
  BY <1>1 DEF IInv, TypeOK, SequencesOK, BeginningOK, LastBytesPassedOn, Stream, Other
<1>3. ASSUME NEW e \in Ends PROVE StreamOK(e)'
  <2>1. StreamOK(e)
    BY DEF IInv
  <2> QED
    BY <1>1, <2>1 DEF StreamOK, Passed, Stream, InHand
<1> QED
  BY <1>2, <1>3 DEF IInv
---------------------------------------------------------------------------
(* What holds of the tunnel *)

LEMMA NextIInv == IInv /\ [Next]_vars => IInv'
<1> SUFFICES ASSUME IInv, [Next]_vars PROVE IInv'
  OBVIOUS
<1>1. CASE Forward
  <2>1. CASE Connect
    BY <2>1, ConnectIInv
  <2>2. CASE http_send_200ok
    BY <2>2, SendOkIInv
  <2>3. CASE Poll \/ Skip
    BY <2>3, PollIInv
  <2>4. CASE Receive
    BY <2>4, ReceiveIInv
  <2>5. CASE Disconnect
    BY <2>5, DisconnectIInv
  <2>6. ASSUME NEW n \in 1 .. Len(buffer), Send(n) PROVE IInv'
    BY <2>6, SendIInv
  <2>7. CASE SendIntoVoid \/ SendFails \/ SendKills
    BY <2>7, SendToGoneIInv
  <2> QED
    BY <1>1, <2>1, <2>2, <2>3, <2>4, <2>5, <2>6, <2>7 DEF Forward
<1>2. CASE ConnectFails
  BY <1>2, ConnectFailsIInv
<1>3. CASE PollFails
  BY <1>3, PollIInv
<1>4. ASSUME NEW e \in Ends, Peer(e) PROVE IInv'
  BY <1>4, PeerSendsIInv, PeerReadsIInv, PeerShutsDownIInv, PeerGoesIInv DEF Peer
<1>5. CASE Finished \/ Silence \/ UNCHANGED vars
  BY <1>5, NothingIInv DEF Finished, Silence
<1>6. ASSUME NEW e \in Ends, Reset(e) PROVE IInv'
  BY <1>6, ResetIInv
<1> QED
  BY <1>1, <1>2, <1>3, <1>4, <1>5, <1>6 DEF Next

\* Every reachable state of a tunnel is one of IInv: each byte that an end has
\* sent is in exactly one of the places between it and its reader.
THEOREM TunnelInvariant == Spec => []IInv
<1>1. Init => IInv
  BY InitIInv
<1>2. IInv /\ [Next]_vars => IInv'
  BY NextIInv
<1> QED
  BY <1>1, <1>2, PTL DEF Spec

\* The stages, the ends and the sizes of the buffers are what the code allows.
THEOREM TunnelTypes == Spec => []TypeOK
<1>1. IInv => TypeOK
  BY DEF IInv
<1> QED
  BY <1>1, TunnelInvariant, PTL

LEMMA NothingLost == IInv => NoByteLost
<1> SUFFICES ASSUME IInv, NEW e \in Ends
             PROVE  /\ IsPrefix(delivered[e], Stream(e))
                    /\ stage \notin Ended /\ e \notin gone =>
                         delivered[e] \o outbox[e] \o InHand(Other(e)) \o inbox[Other(e)]
                           = Stream(e)
  BY DEF NoByteLost
<1>0. SequencesOK /\ StreamOK(e)
  BY DEF IInv
<1>d. PICK d \in Bytes : d = delivered[e]
  BY <1>0 DEF SequencesOK
<1>o. PICK o \in Bytes : o = outbox[e]
  BY <1>0 DEF SequencesOK
<1>1. Stream(e) \in Bytes
  BY <1>0, BytesEverywhere
<1>s. PICK s \in Bytes : s = Stream(e)
  BY <1>1
<1>2. IsPrefix(d \o o, s)
  BY <1>0, <1>d, <1>o, <1>s DEF StreamOK, Passed
<1>3. IsPrefix(delivered[e], Stream(e))
  BY <1>2, <1>d, <1>s, PrefixGrows
<1> QED
  BY <1>0, <1>3 DEF StreamOK, Passed

\* However the kernel splits and delays the bytes, and whatever the sizes of its
\* buffers and of the handler's, what an end reads is the start of what the
\* other has sent, and nothing between them is missing while the tunnel is open.
THEOREM BytesKept == Spec => []NoByteLost
  BY NothingLost, TunnelInvariant, PTL

\* A tunnel that closes on the end of a stream has passed all of it on, and the
\* other end can still read it unless it left or was reset itself.
THEOREM LastBytes == Spec => []LastBytesPassedOn
<1>1. IInv => LastBytesPassedOn
  BY DEF IInv
<1> QED
  BY <1>1, TunnelInvariant, PTL

===========================================================================
