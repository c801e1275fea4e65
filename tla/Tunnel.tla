------------------------------ MODULE Tunnel ------------------------------
(***************************************************************************)
(* One CONNECT request: http_connect, http_send_200ok and                  *)
(* http_connect_forward_messages (proxy.cpp:136-142, 532-568), with        *)
(* sendall (Socket_connection.cpp:3-18) and the kernel's socket buffers.   *)
(*                                                                         *)
(* The two ends of the tunnel are the client, 0, and the server, 1.  The   *)
(* handler polls both, and then, for each end that was readable when poll  *)
(* returned, receives once and sends all it got to the other end before it *)
(* looks at anything else.  Each end numbers the bytes it sends.           *)
(***************************************************************************)
EXTENDS Integers, SequencesExt

CONSTANTS
  MaxSent,   \* bound: bytes that each end sends
  MaxRecv,   \* bytes one recv returns at most (HTTP_LENGTH is 65535)
  BufferSize \* bytes a socket's send buffer holds

ASSUME SizesAssumption ==
  MaxSent \in Nat /\ MaxRecv \in Nat \ {0} /\ BufferSize \in Nat \ {0}

VARIABLES
  stage,     \* where the handler is
  i,         \* the end it is looking at
  revents,   \* the ends that were readable when poll returned
  buffer,    \* bytes received from end i and not yet sent
  inbox,     \* for each end, the bytes it has sent that await a recv
  outbox,    \* for each end, the bytes sent to it that it has not read
  delivered, \* for each end, the bytes it has read
  sent,      \* for each end, how many bytes it has sent
  eof,       \* the ends that send no more
  conn       \* for each end, what has become of its connection

kernel == <<inbox, outbox, delivered, sent, eof, conn>>
handler == <<stage, i, revents, buffer>>
vars == <<handler, kernel>>

Ends == {0, 1}
Other(e) == 1 - e

\* A connection: open; closed by the other side; closed, and known to refuse
\* what it is sent; broken off; or reset by the proxy's own kernel.
Conditions == {"open", "closed", "refusing", "broken", "reset"}

gone == {e \in Ends : conn[e] # "open"}

Stages == {"connect", "ok", "poll", "check", "send", "closed", "failed", "killed"}
Ended == {"closed", "failed", "killed"}

\* The first thing the client reads, "HTTP/1.1 200 OK".
OK == 0

Init ==
  /\ stage = "connect" /\ i = 0 /\ revents = {} /\ buffer = <<>>
  /\ inbox = [e \in Ends |-> <<>>]
  /\ outbox = [e \in Ends |-> <<>>]
  /\ delivered = [e \in Ends |-> <<>>]
  /\ sent = [e \in Ends |-> 0]
  /\ eof = {}
  /\ conn = [e \in Ends |-> "open"]

---------------------------------------------------------------------------
(* The client and the server *)

\* The server may speak as soon as it is connected; the client waits for the
\* answer to its CONNECT.
Connected == stage \notin {"connect"} \cup Ended

MaySpeak(e) == Connected /\ (e = 0 => delivered[0] # <<>>)

PeerSends(e) ==
  /\ MaySpeak(e) /\ e \notin eof
  /\ sent[e] < MaxSent
  /\ sent' = [sent EXCEPT ![e] = @ + 1]
  /\ inbox' = [inbox EXCEPT ![e] = Append(@, sent'[e])]
  /\ UNCHANGED <<handler, outbox, delivered, eof, conn>>

PeerReads(e) ==
  /\ outbox[e] # <<>>
  /\ delivered' = [delivered EXCEPT ![e] = Append(@, Head(outbox[e]))]
  /\ outbox' = [outbox EXCEPT ![e] = Tail(@)]
  /\ UNCHANGED <<handler, inbox, sent, eof, conn>>

\* It has no more to send, but goes on reading.
PeerShutsDown(e) ==
  /\ Connected /\ e \notin eof
  /\ eof' = eof \cup {e}
  /\ UNCHANGED <<handler, inbox, outbox, delivered, sent, conn>>

\* It closes the connection, in order or, if it has not read all, at once.
PeerGoes(e) ==
  /\ Connected /\ e \notin gone
  /\ \E condition \in {"closed", "broken"} :
       conn' = [conn EXCEPT ![e] = condition]
  /\ eof' = eof \cup {e}
  /\ outbox' = [outbox EXCEPT ![e] = <<>>]
  /\ UNCHANGED <<handler, inbox, delivered, sent>>

---------------------------------------------------------------------------
(* http_connect *)

ConnectFails ==
  /\ stage = "connect"
  /\ stage' = "failed"
  /\ UNCHANGED <<i, revents, buffer, kernel>>

Connect ==
  /\ stage = "connect"
  /\ stage' = "ok"
  /\ UNCHANGED <<i, revents, buffer, kernel>>

\* The result of send is not looked at.
http_send_200ok ==
  /\ stage = "ok"
  /\ stage' = "poll"
  /\ outbox' = [outbox EXCEPT ![0] = IF 0 \in gone THEN <<>> ELSE <<OK>>]
  /\ UNCHANGED <<i, revents, buffer, inbox, delivered, sent, eof, conn>>

---------------------------------------------------------------------------
(* http_connect_forward_messages *)

\* POLLIN: there is something to read, or the end of the stream.
Readable(e) == inbox[e] # <<>> \/ e \in eof

Poll ==
  /\ stage = "poll"
  /\ revents' = {e \in Ends : Readable(e)}
  /\ revents' # {}
  /\ stage' = "check" /\ i' = 0
  /\ UNCHANGED <<buffer, kernel>>

PollFails ==
  /\ stage = "poll"
  /\ stage' = "failed"
  /\ UNCHANGED <<i, revents, buffer, kernel>>

BugAdvance == i' = i /\ stage' = "poll"

\* The loop goes on to the other end, or back to poll.
Advance ==
  IF i = 0 THEN i' = 1 /\ stage' = "check" ELSE i' = i /\ stage' = "poll"

Skip ==
  /\ stage = "check" /\ i \notin revents
  /\ Advance
  /\ UNCHANGED <<revents, buffer, kernel>>

BugReceive ==
  /\ stage = "check" /\ i \in revents
  /\ inbox[i] # <<>>
  /\ buffer' = inbox[i]
  /\ inbox' = [inbox EXCEPT ![i] = <<>>]
  /\ stage' = "send"
  /\ UNCHANGED <<i, revents, outbox, delivered, sent, eof, conn>>

\* One recv, of no more than the buffer holds.
Receive ==
  /\ stage = "check" /\ i \in revents
  /\ inbox[i] # <<>>
  /\ LET n == Min({MaxRecv, Len(inbox[i])})
     IN  /\ buffer' = SubSeq(inbox[i], 1, n)
         /\ inbox' = [inbox EXCEPT ![i] = SubSeq(@, n + 1, Len(@))]
  /\ stage' = "send"
  /\ UNCHANGED <<i, revents, outbox, delivered, sent, eof, conn>>

BugDisconnect ==
  /\ stage = "check" /\ i \in revents
  /\ i \in eof
  /\ stage' = "closed"
  /\ UNCHANGED <<i, revents, buffer, kernel>>

\* recv returns 0: the handler returns, whatever the other end has sent.
Disconnect ==
  /\ stage = "check" /\ i \in revents
  /\ inbox[i] = <<>> /\ i \in eof
  /\ stage' = "closed"
  /\ UNCHANGED <<i, revents, buffer, kernel>>

\* send is called again with the start of the buffer.
BugResend(n) ==
  LET o == Other(i)
  IN  /\ stage = "send" /\ o \notin gone
      /\ n <= BufferSize - Len(outbox[o])
      /\ outbox' = [outbox EXCEPT ![o] = @ \o SubSeq(buffer, 1, n)]
      /\ buffer' = SubSeq(buffer, 1, Len(buffer) - n)
      /\ IF n = Len(buffer) THEN Advance ELSE UNCHANGED <<stage, i>>
      /\ UNCHANGED <<revents, inbox, delivered, sent, eof, conn>>

BugSend(n) ==
  LET o == Other(i)
  IN  /\ stage = "send" /\ o \notin gone
      /\ n <= BufferSize - Len(outbox[o])
      /\ outbox' = [outbox EXCEPT ![o] = @ \o SubSeq(buffer, 1, n)]
      /\ buffer' = <<>>
      /\ Advance
      /\ UNCHANGED <<revents, inbox, delivered, sent, eof, conn>>

\* sendall: send takes what fits, and is called again until it has taken all;
\* it blocks while nothing fits.
Send(n) ==
  LET o == Other(i)
  IN  /\ stage = "send" /\ o \notin gone
      /\ n <= BufferSize - Len(outbox[o])
      /\ outbox' = [outbox EXCEPT ![o] = @ \o SubSeq(buffer, 1, n)]
      /\ buffer' = SubSeq(buffer, n + 1, Len(buffer))
      /\ IF n = Len(buffer) THEN Advance ELSE UNCHANGED <<stage, i>>
      /\ UNCHANGED <<revents, inbox, delivered, sent, eof, conn>>

\* The other end has closed its connection and will refuse what it is sent,
\* but has not said so yet.
SendIntoVoid ==
  LET o == Other(i)
  IN  /\ stage = "send" /\ conn[o] = "closed"
      /\ \E condition \in {"closed", "refusing"} :
           conn' = [conn EXCEPT ![o] = condition]
      /\ buffer' = <<>>
      /\ Advance
      /\ UNCHANGED <<revents, inbox, outbox, delivered, sent, eof>>

\* send returns -1 (ECONNRESET), and the handler throws.
SendFails ==
  /\ stage = "send" /\ conn[Other(i)] = "broken"
  /\ stage' = "failed" /\ buffer' = <<>>
  /\ UNCHANGED <<i, revents, kernel>>

\* send would return -1 (EPIPE), but first the kernel sends SIGPIPE, which
\* the program neither ignores nor handles: the process ends.
SendKills ==
  /\ stage = "send" /\ conn[Other(i)] = "refusing"
  /\ stage' = "killed" /\ buffer' = <<>>
  /\ UNCHANGED <<i, revents, kernel>>

\* When the handler has returned or thrown, or the process ends, both sockets
\* are closed.  If end e's holds what was never received, or e sends more, the
\* kernel resets its connection, and e reads nothing more.
Reset(e) ==
  /\ stage \in Ended /\ e \notin gone
  /\ inbox[e] # <<>> \/ e \notin eof
  /\ conn' = [conn EXCEPT ![e] = "reset"]
  /\ eof' = eof \cup {e}
  /\ outbox' = [outbox EXCEPT ![e] = <<>>]
  /\ UNCHANGED <<handler, inbox, delivered, sent>>

---------------------------------------------------------------------------
Forward ==
  \/ Connect \/ http_send_200ok \/ Poll \/ Skip \/ Receive \/ Disconnect
  \/ \E n \in 1 .. Len(buffer) : Send(n)
  \/ SendIntoVoid \/ SendFails \/ SendKills

Peer(e) == PeerSends(e) \/ PeerReads(e) \/ PeerShutsDown(e) \/ PeerGoes(e)

Finished == stage \in Ended /\ UNCHANGED vars

\* No end is readable: the handler waits in poll for ever.
Silence ==
  /\ stage = "poll" /\ \A e \in Ends : ~Readable(e) /\ outbox[e] = <<>>
  /\ UNCHANGED vars

Next ==
  \/ Forward \/ ConnectFails \/ PollFails
  \/ \E e \in Ends : Peer(e) \/ Reset(e)
  \/ Finished \/ Silence

Spec == Init /\ [][Next]_vars

\* The scheduler runs the handler while it can go on, and both ends read what
\* they are sent.
FairSpec ==
  /\ Spec
  /\ WF_vars(Forward)
  /\ \A e \in Ends : WF_vars(PeerReads(e))
---------------------------------------------------------------------------
(* Properties *)

\* All that end e is sent, in order.
Stream(e) ==
  (IF e = 0 /\ stage \notin {"connect", "ok"} THEN <<OK>> ELSE <<>>)
    \o [n \in 1 .. sent[Other(e)] |-> n]

InHand(e) == IF stage = "send" /\ i = e THEN buffer ELSE <<>>

TypeOK ==
  /\ stage \in Stages /\ i \in Ends /\ revents \subseteq Ends
  /\ conn \in [Ends -> Conditions] /\ gone \subseteq eof /\ eof \subseteq Ends
  /\ \A e \in Ends : sent[e] \in 0 .. MaxSent /\ Len(outbox[e]) <= BufferSize
  /\ Len(buffer) <= MaxRecv /\ (stage = "send" <=> buffer # <<>>)

(***************************************************************************)
(* What an end reads is what the other has sent, from the first byte and   *)
(* in order; and while the tunnel is open and the reader has not gone,     *)
(* every byte sent and not yet read is in one of the places between, also  *)
(* when send takes less than it is given and whatever arrives after poll   *)
(* has returned (proxy.cpp:547-567, Socket_connection.cpp:8-15).           *)
(***************************************************************************)
NoByteLost ==
  \A e \in Ends :
    LET o == Other(e)
    IN  /\ IsPrefix(delivered[e], Stream(e))
        /\ stage \notin Ended /\ e \notin gone =>
             delivered[e] \o outbox[e] \o InHand(o) \o inbox[o] = Stream(e)

\* What is on the way to end e: sent by the other end or by the proxy, and not
\* given up.
OnTheWay(e) ==
  CASE e \in gone -> <<>>
    [] stage \in Ended -> outbox[e]
    [] OTHER -> outbox[e] \o (IF e = 0 /\ stage = "ok" THEN <<OK>> ELSE <<>>)
                  \o InHand(Other(e)) \o inbox[Other(e)]

Promised ==
  INSTANCE Streams WITH
    Answer <- OK,
    state <- CASE stage = "connect" -> "waiting"
               [] stage \in Ended -> "ended"
               [] OTHER -> "open",
    said <- sent,
    pipe <- [e \in Ends |-> OnTheWay(e)],
    heard <- delivered,
    silent <- eof,
    left <- gone

(***************************************************************************)
(* The loop over poll, recv and sendall, with the kernel's buffers, gives  *)
(* the two ends the streams of module Streams: whatever the handler has in *)
(* hand when an end shuts down, closes, breaks off or refuses, nothing is  *)
(* lost, doubled or reordered but what that module lets go, also by the    *)
(* resets that closing both sockets at once may cause                      *)
(* (proxy.cpp:540-568, Socket_connection.cpp:3-18).                        *)
(***************************************************************************)
ImplementsStreams == Promised!StreamsSpec

(***************************************************************************)
(* An end that has sent its last byte does not cut the stream it sent: if  *)
(* the tunnel closes on the end of its stream, all of it has been passed   *)
(* on, and is lost only if the other end leaves or is reset because it was *)
(* itself still sending (proxy.cpp:553-559: what has arrived is received   *)
(* before the end of the stream is noticed).                               *)
(***************************************************************************)
LastBytesPassedOn ==
  stage = "closed" =>
    LET o == Other(i)
    IN  o \notin gone => delivered[o] \o outbox[o] = Stream(o)

(***************************************************************************)
(* As long as both ends read, a byte that one end sends reaches the other, *)
(* unless the tunnel ends first: neither direction starves the other, and  *)
(* a poll never misses what is there (proxy.cpp:547-567).                  *)
(***************************************************************************)
BytesArrive ==
  \A e \in Ends : \A n \in 1 .. MaxSent :
    sent[e] >= n ~>
      (n \in ToSet(delivered[Other(e)]) \/ Other(e) \in gone \/ stage \in Ended)

(***************************************************************************)
(* proxy.cpp:570-571, of the function that calls sendall as this loop      *)
(* does: "send all bytes from buffer to destination, throw if fail".       *)
(***************************************************************************)
SendFailureThrows == stage # "killed"
===========================================================================
