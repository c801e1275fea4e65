---------------------------- MODULE HttpParser ----------------------------
(***************************************************************************)
(* The parsers of HTTP messages (httpparser/httprequestparser.h and        *)
(* httpresponseparser.h), what is stored of a parsed response, what is     *)
(* sent again when the stored response is served (response.h), and the     *)
(* conditional request that validates it (request.h).                      *)
(*                                                                         *)
(* A message is a sequence of lexemes.  A lexeme stands for the characters *)
(* of a start line or of a name that the parser passes one by one without  *)
(* doing anything but append them; the characters that make it change its  *)
(* state, the digits of numbers and the bytes of bodies are lexemes of one *)
(* character.  "HTTP/1.1" stands for a version, whose digits are only      *)
(* passed on.  A parser takes one lexeme at a time: its state after a      *)
(* prefix of a message is what it makes of a recv that returned only that. *)
(***************************************************************************)
EXTENDS Integers, SequencesExt

CONSTANTS
  Messages, \* messages: [start, framing, size, chunks, extra]
  Noise,    \* bound: lexemes that may replace another
  Updates,  \* headers of 304 responses: [name, value]
  IntMax,   \* the largest int
  LongMax   \* the largest long

VARIABLES
  message, \* what the sender means to send
  clean,   \* it is sent so, in a spelling that the parsers know
  phase,   \* "origin": parsing what was sent; "client": a client parses what
           \* the proxy sends from its cache; "server": the origin parses
           \* a conditional request; "thrown": a parse failed
  stored,  \* the response that was stored: a parser that has completed
  wire,    \* the message as it is sent
  pos,     \* how much of it has been parsed
  parser   \* the parser

vars == <<message, clean, phase, stored, wire, pos, parser>>

Numeral == <<"0", "1", "2">> \* Numeral[n + 1] is the digit of n
Digits == ToSet(Numeral)
Alnum == Digits \cup {"y", "z"}
Validators == {"Last-Modified", "ETag"}
Names == Validators \cup
  {"Content-Length", "Transfer-Encoding", "Host", "If-Modified-Since", "If-None-Match",
   "Cache-Control", "Expires"}
Tokens == Alnum \cup Names \cup {"-", "+", "chunked"}
Requests == {"GET", "POST"}

\* An int holds a status code, and is narrower than a long.
ASSUME WidthsAssumption ==
  /\ IntMax \in Nat /\ LongMax \in Nat /\ 999 <= IntMax /\ IntMax < LongMax
  /\ (LongMax + 1) % (2 * (IntMax + 1)) = 0

Digit(d) == CHOOSE n \in 0 .. 2 : Numeral[n + 1] = d

\* The digits that the text begins with, in the given base.
Unsigned(s, base) ==
  LET length == CHOOSE n \in 0 .. Len(s) :
                  /\ \A k \in 1 .. n : s[k] \in Digits
                  /\ n < Len(s) => s[n + 1] \notin Digits
      upTo[k \in 0 .. length] ==
        IF k = 0 THEN 0 ELSE base * upTo[k - 1] + Digit(s[k])
  IN  upTo[length]

\* The number the text begins with, after blanks and a sign.
Number(s, base) ==
  LET blanks == CHOOSE n \in 0 .. Len(s) :
                  /\ \A k \in 1 .. n : s[k] = "SP"
                  /\ n < Len(s) => s[n + 1] # "SP"
      text == SubSeq(s, blanks + 1, Len(s))
  IN  CASE text # <<>> /\ text[1] = "-" -> -Unsigned(Tail(text), base)
        [] text # <<>> /\ text[1] = "+" -> Unsigned(Tail(text), base)
        [] OTHER -> Unsigned(text, base)

\* The nearest long.
strtol(s, base) ==
  LET n == Number(s, base)
  IN  IF n > LongMax THEN LongMax ELSE IF n < -LongMax - 1 THEN -LongMax - 1 ELSE n

\* What is left of a long in the width of an int.
Truncated(n) == ((n + IntMax + 1) % (2 * (IntMax + 1))) - IntMax - 1

atoi(s) == Truncated(strtol(s, 10))

---------------------------------------------------------------------------
(* The parser *)

NewParser(start) ==
  [method |-> "none",
   state |-> IF start \in Requests THEN "RequestMethodStart" ELSE "ResponseStatusStart",
   statusCode |-> 0, status |-> <<>>,
   headers |-> <<>>, content |-> <<>>, result |-> "incomplete",
   contentSize |-> 0, chunkSizeStr |-> <<>>, chunkSize |-> 0, chunked |-> FALSE]

To(p, state) == [p EXCEPT !.state = state]
Completed(p) == [p EXCEPT !.result = "completed"]
Error(p) == [p EXCEPT !.result = "error"]
Expect(p, c, expected, state) == IF c = expected THEN To(p, state) ELSE Error(p)

\* A request without a version is one of HTTP/0.9, and complete.
RequestLine(p, c) ==
  CASE p.state = "RequestMethodStart" ->
         IF c \in Requests THEN [To(p, "RequestUri") EXCEPT !.method = c] ELSE Error(p)
    [] p.state = "RequestUri" ->
         CASE c = "CR" -> Completed(p)
           [] c = "HTTP/1.1" -> To(p, "RequestHttpVersion_minor")
           [] c = "SP" -> To(p, "RequestHttpVersion_h")
           [] c = "LF" -> Error(p)
           [] OTHER -> p
    [] p.state = "RequestHttpVersion_h" -> Error(p)
    [] p.state = "RequestHttpVersion_minor" ->
         IF c \in Digits THEN p ELSE Expect(p, c, "CR", "HttpVersion_newLine")

\* statusCode is unsigned: it wraps.
AddDigit(code, c) == (10 * code + Digit(c)) % (2 * (IntMax + 1))

StatusLine(p, c) ==
  CASE p.state = "ResponseStatusStart" ->
         Expect(p, c, "HTTP/1.1", "ResponseHttpVersion_minor")
    [] p.state = "ResponseHttpVersion_minor" ->
         IF c \in Digits THEN p ELSE Expect(p, c, "SP", "ResponseHttpVersion_statusCodeStart")
    [] p.state = "ResponseHttpVersion_statusCodeStart" ->
         IF c \in Digits
         THEN [To(p, "ResponseHttpVersion_statusCode") EXCEPT !.statusCode = Digit(c)]
         ELSE Error(p)
    [] p.state = "ResponseHttpVersion_statusCode" ->
         CASE c \in Digits -> [p EXCEPT !.statusCode = AddDigit(@, c)]
           [] c \notin Digits /\ p.statusCode \in 100 .. 999 ->
                Expect(p, c, "SP", "ResponseHttpVersion_statusTextStart")
           [] OTHER -> Error(p)
    [] p.state = "ResponseHttpVersion_statusTextStart" ->
         [To(p, "ResponseHttpVersion_statusText") EXCEPT !.status = Append(@, c)]
    [] p.state = "ResponseHttpVersion_statusText" ->
         IF c = "CR" THEN To(p, "HttpVersion_newLine") ELSE [p EXCEPT !.status = Append(@, c)]

BugFrameBy(p, h) ==
  CASE h.name = <<"Content-Length">> ->
         CASE Number(h.value, 10) > IntMax -> p
           [] atoi(h.value) < 0 -> Error(p)
           [] OTHER -> [p EXCEPT !.contentSize = atoi(h.value)]
    [] h.name = <<"Transfer-Encoding">> -> [p EXCEPT !.chunked = @ \/ h.value = <<"chunked">>]
    [] OTHER -> p

\* contentSize is unsigned: reserve throws length_error for a negative one.
FrameBy(p, h) ==
  CASE h.name = <<"Content-Length">> ->
         IF atoi(h.value) < 0 THEN Error(p) ELSE [p EXCEPT !.contentSize = atoi(h.value)]
    [] h.name = <<"Transfer-Encoding">> -> [p EXCEPT !.chunked = @ \/ h.value = <<"chunked">>]
    [] OTHER -> p

\* The request parser looks at the headers that frame a body only if the
\* method has one.
RequestFrameBy(p, h) == IF p.method = "POST" THEN FrameBy(p, h) ELSE p

HeaderValueEnds(p) ==
  LET q == To(p, "ExpectingNewline_2")
  IN  IF p.method \in Requests THEN RequestFrameBy(q, Last(p.headers))
      ELSE FrameBy(q, Last(p.headers))

AppendToName(p, c) ==
  [p EXCEPT !.headers[Len(p.headers)].name = Append(@, c)]
AppendToValue(p, c) ==
  [p EXCEPT !.headers[Len(p.headers)].value = Append(@, c)]

Header(p, c) ==
  CASE p.state = "HttpVersion_newLine" -> Expect(p, c, "LF", "HeaderLineStart")
    [] p.state = "HeaderLineStart" ->
         CASE c = "CR" -> To(p, "ExpectingNewline_3")
           [] c = "SP" /\ p.headers # <<>> -> To(p, "HeaderLws")
           [] c \in Tokens ->
                [To(p, "HeaderName") EXCEPT
                   !.headers = Append(@, [name |-> <<c>>, value |-> <<>>])]
           [] OTHER -> Error(p)
    [] p.state = "HeaderLws" ->
         CASE c = "CR" -> To(p, "ExpectingNewline_2")
           [] c = "SP" -> p
           [] c = "LF" -> Error(p)
           [] OTHER -> AppendToValue(To(p, "HeaderValue"), c)
    [] p.state = "HeaderName" ->
         CASE c = ":" -> To(p, "SpaceBeforeHeaderValue")
           [] c \in Tokens -> AppendToName(p, c)
           [] OTHER -> Error(p)
    [] p.state = "SpaceBeforeHeaderValue" -> Expect(p, c, "SP", "HeaderValue")
    [] p.state = "HeaderValue" ->
         CASE c = "CR" -> HeaderValueEnds(p)
           [] c = "LF" -> Error(p)
           [] OTHER -> AppendToValue(p, c)
    [] p.state = "ExpectingNewline_2" -> Expect(p, c, "LF", "HeaderLineStart")

\* The lexeme after the last CR of the headers is looked at only if there is
\* no body.
HeadersEnd(p, c) ==
  CASE p.chunked -> To(p, "ChunkSize")
    [] ~p.chunked /\ p.contentSize # 0 -> To(p, "Post")
    [] OTHER -> IF c = "LF" THEN Completed(p) ELSE Error(p)

BugPost(p, c) ==
  LET q == [p EXCEPT !.contentSize = @ - 1, !.content = Append(@, c)]
  IN  IF p.contentSize <= 2 THEN Completed(q) ELSE q

Post(p, c) ==
  LET q == [p EXCEPT !.contentSize = @ - 1, !.content = Append(@, c)]
  IN  IF q.contentSize = 0 THEN Completed(q) ELSE q

BugChunkLine(p, c) ==
  LET n == strtol(p.chunkSizeStr, 16)
  IN  IF c # "LF" \/ n = LongMax THEN Error(p)
      ELSE [To(p, IF n = 0 THEN "ChunkSizeNewLine_2" ELSE "ChunkData")
              EXCEPT !.chunkSize = n]

\* No content is as long as the largest long: reserve throws.
ChunkLine(p, c) ==
  LET n == strtol(p.chunkSizeStr, 16)
  IN  IF c # "LF" \/ n = LongMax THEN Error(p)
      ELSE [To(p, IF n = 0 THEN "ChunkSizeNewLine_2" ELSE "ChunkData")
              EXCEPT !.chunkSize = n, !.chunkSizeStr = <<>>]

\* A trailer leads back to ChunkSizeNewLine, with an empty size: 0 again.
Chunk(p, c) ==
  CASE p.state = "ChunkSize" ->
         CASE c \in Alnum -> [p EXCEPT !.chunkSizeStr = Append(@, c)]
           [] c = "semicolon" -> To(p, "ChunkExtensionName")
           [] c = "CR" -> To(p, "ChunkSizeNewLine")
           [] OTHER -> Error(p)
    [] p.state \in {"ChunkExtensionName", "ChunkExtensionValue", "ChunkTrailerValue"} ->
         CASE c \in Alnum \cup {"SP"} -> p
           [] c = "=" /\ p.state = "ChunkExtensionName" -> To(p, "ChunkExtensionValue")
           [] c = "CR" -> To(p, "ChunkSizeNewLine")
           [] OTHER -> Error(p)
    [] p.state = "ChunkSizeNewLine" -> ChunkLine(p, c)
    [] p.state = "ChunkSizeNewLine_2" ->
         CASE c = "CR" -> To(p, "ChunkSizeNewLine_3")
           [] c \in {"y", "z"} -> To(p, "ChunkTrailerName")
           [] OTHER -> Error(p)
    [] p.state = "ChunkSizeNewLine_3" -> IF c = "LF" THEN Completed(p) ELSE Error(p)
    [] p.state = "ChunkTrailerName" ->
         CASE c \in Alnum -> p
           [] c = ":" -> To(p, "ChunkTrailerValue")
           [] OTHER -> Error(p)
    [] p.state = "ChunkData" ->
         [To(p, IF p.chunkSize = 1 THEN "ChunkDataNewLine_1" ELSE "ChunkData")
            EXCEPT !.chunkSize = @ - 1, !.content = Append(@, c)]
    [] p.state = "ChunkDataNewLine_1" -> Expect(p, c, "CR", "ChunkDataNewLine_2")
    [] p.state = "ChunkDataNewLine_2" -> Expect(p, c, "LF", "ChunkSize")

consume(p, c) ==
  CASE p.state \in {"RequestMethodStart", "RequestUri", "RequestHttpVersion_h",
                    "RequestHttpVersion_minor"} ->
         RequestLine(p, c)
    [] p.state \in {"ResponseStatusStart", "ResponseHttpVersion_minor",
                    "ResponseHttpVersion_statusCodeStart", "ResponseHttpVersion_statusCode",
                    "ResponseHttpVersion_statusTextStart", "ResponseHttpVersion_statusText"} ->
         StatusLine(p, c)
    [] p.state \in {"HttpVersion_newLine", "HeaderLineStart", "HeaderLws",
                    "HeaderName", "SpaceBeforeHeaderValue", "HeaderValue",
                    "ExpectingNewline_2"} -> Header(p, c)
    [] p.state = "ExpectingNewline_3" -> HeadersEnd(p, c)
    [] p.state = "Post" -> Post(p, c)
    [] OTHER -> Chunk(p, c)

---------------------------------------------------------------------------
(* Messages on the wire *)

Item(name, value) == [name |-> <<name>>, value |-> value]
Written(h) == h.name \o <<":", "SP">> \o h.value \o <<"CR", "LF">>
Line(name, value) == Written(Item(name, value))
Size(s) == <<Numeral[Len(s) + 1]>>
Body(m) == FlattenSeq(m.chunks)

\* HTTP lets a sender leave out the reason phrase, and the space before a value.
Unknown == {"reasonless", "unspaced"}

StartLine(m) ==
  (IF m.start \in Requests THEN <<m.start, "HTTP/1.1">>
   ELSE <<m.start, "SP", "2", "0", "0", "SP">>
          \o (IF m.extra = "reasonless" THEN <<>> ELSE <<"OK">>))
  \o <<"CR", "LF">>

Headers(m) ==
  (CASE m.framing = "length" -> Line("Content-Length", Size(Body(m)))
     [] m.framing = "chunked" -> Line("Transfer-Encoding", <<"chunked">>)
     [] m.framing = "given" -> Line("Content-Length", m.size)
     [] OTHER -> <<>>)
  \o (CASE m.extra = "header" -> Line("Last-Modified", <<"z">>) \o Line("ETag", <<"y">>)
        [] m.extra = "folded" -> Line("ETag", <<"y", "CR", "LF", "SP", "z">>)
        [] m.extra = "private" -> Line("Cache-Control", <<"private">>)
        [] m.extra = "unspaced" -> <<"ETag", ":", "y", "CR", "LF">>
        [] OTHER -> <<>>)
  \o <<"CR", "LF">>

ChunkWire(m, chunk) ==
  Size(chunk) \o (IF m.extra = "extension" THEN <<"semicolon", "y", "=", "z">> ELSE <<>>)
    \o <<"CR", "LF">> \o chunk
    \o (IF chunk = <<>> THEN <<>> ELSE <<"CR", "LF">>)

BodyWire(m) ==
  IF m.framing # "chunked" THEN Body(m)
  ELSE FlattenSeq([k \in DOMAIN m.chunks |-> ChunkWire(m, m.chunks[k])])
         \o ChunkWire(m, <<>>)
         \o (IF m.extra = "trailer" THEN Line("y", <<"z">>) ELSE <<>>)
         \o <<"CR", "LF">>

Wire(m) == StartLine(m) \o Headers(m) \o BodyWire(m)

\* A size is written with one digit.
ASSUME MessagesAssumption ==
  /\ Noise \subseteq STRING
  /\ \A m \in Messages :
       /\ m.start \in STRING /\ m.size \in Seq(STRING)
       /\ m.chunks \in Seq(Seq(STRING))
       /\ m.framing = "length" => Len(Body(m)) < Len(Numeral)
       /\ m.framing = "chunked" =>
            \A k \in DOMAIN m.chunks : Len(m.chunks[k]) < Len(Numeral)

\* What a sender sends: only the chunk that ends a body is empty.
ASSUME SendersAssumption ==
  \A m \in Messages :
    /\ m.start \in Requests \cup {"HTTP/1.1"}
    /\ m.framing \in {"length", "chunked", "given", "close"}
    /\ m.framing = "chunked" => \A k \in DOMAIN m.chunks : m.chunks[k] # <<>>

\* A body the parser does not look for: it ends with the connection, or the
\* method has none.
Unread(m) == m.framing = "close" \/ m.start = "GET"

---------------------------------------------------------------------------
(* What is done with a parsed response *)

HeaderText(headers) == FlattenSeq([k \in DOMAIN headers |-> Written(headers[k])])

StatusText(p) == <<"HTTP/1.1", "SP", "2", "0", "0", "SP">> \o p.status \o <<"CR", "LF">>

BugInspect(p) == StatusText(p) \o HeaderText(p.headers) \o p.content

\* Response::inspect, the text a stored response is sent as: its code is 200.
Inspect(p) == StatusText(p) \o HeaderText(p.headers) \o <<"CR", "LF">> \o p.content

\* The value of the first header of that name, letter by letter; or nothing.
get_header_value(headers, name) ==
  LET found == {k \in DOMAIN headers : headers[k].name = <<name>>}
  IN  IF found = {} THEN <<>> ELSE headers[Min(found)].value

response_may_store(p) ==
  LET Value(name) == get_header_value(p.headers, name)
  IN  /\ p.statusCode = 200
      /\ \A k \in DOMAIN Value("Cache-Control") :
           Value("Cache-Control")[k] \notin {"no-store", "private"}
      /\ \E name \in {"Cache-Control", "Expires"} \cup Validators : Value(name) # <<>>

\* The first header of that name gets the value; if there is none, one is added.
update_response(headers, h) ==
  LET found == {k \in DOMAIN headers : headers[k].name = h.name}
  IN  IF found = {} THEN Append(headers, h)
      ELSE [headers EXCEPT ![Min(found)].value = h.value]

\* What the parser makes of a header: no value holds the end of a line.
ASSUME UpdatesAssumption ==
  /\ Updates \subseteq [name : Seq(Tokens) \ {<<>>}, value : Seq(STRING)]
  /\ \A h \in Updates : \A k \in DOMAIN h.value : h.value[k] \notin {"CR", "LF"}

\* Of the client's request, which has no body, the Host alone is kept.
Host == <<"y">>

BugConditionalRequest(headers) ==
  LET last_modified == get_header_value(headers, "Last-Modified")
      etag == get_header_value(headers, "ETag")
  IN  <<Item("Host", Host)>>
        \o (IF last_modified # <<>> THEN <<Item("If-Modified-Since", last_modified)>>
            ELSE IF etag # <<>> THEN <<Item("If-None-Match", etag)>> ELSE <<>>)

construct_conditional_request(headers) ==
  LET last_modified == get_header_value(headers, "Last-Modified")
      etag == get_header_value(headers, "ETag")
  IN  <<Item("Host", Host)>>
        \o (IF last_modified # <<>> THEN <<Item("If-Modified-Since", last_modified)>> ELSE <<>>)
        \o (IF etag # <<>> THEN <<Item("If-None-Match", etag)>> ELSE <<>>)

\* Request::inspect, of a request without a body.
InspectRequest(headers) ==
  <<"GET", "HTTP/1.1", "CR", "LF">> \o HeaderText(headers) \o <<"CR", "LF">>

is_chunked(received) == "chunked" \in ToSet(received)

Init ==
  /\ message \in Messages
  /\ phase = "origin" /\ stored = <<>> /\ pos = 0
  /\ parser = NewParser(message.start)
  /\ LET sent == Wire(message)
     IN  \/ /\ clean = (message.framing # "given" /\ message.extra \notin Unknown)
            /\ wire = sent
         \/ /\ clean = FALSE
            /\ \E k \in 2 .. Len(sent), c \in Noise :
                 c # sent[k] /\ wire = [sent EXCEPT ![k] = c]
         \/ /\ clean = FALSE
            /\ \E k \in 2 .. Len(sent) : wire = RemoveAt(sent, k)

Consume ==
  /\ phase # "thrown"
  /\ parser.result = "incomplete" /\ pos < Len(wire)
  /\ parser' = consume(parser, wire[pos + 1])
  /\ pos' = pos + 1
  /\ UNCHANGED <<message, clean, phase, stored, wire>>

\* The parse fails, or ends because the recv returned no more than this.
Throw ==
  /\ phase = "origin" /\ pos > 0
  /\ parser.result # "completed"
  /\ phase' = "thrown"
  /\ UNCHANGED <<message, clean, stored, wire, pos, parser>>

Store ==
  /\ phase = "origin" /\ parser.result = "completed"
  /\ message.start \notin Requests /\ parser.statusCode = 200
  /\ stored' = parser
  /\ phase' = "client"
  /\ wire' = Inspect(parser) /\ pos' = 0
  /\ parser' = NewParser(message.start)
  /\ UNCHANGED <<message, clean>>

\* get_from_server parses what does not look chunked, and stores it if that is
\* allowed.
StoreFetched ==
  ~is_chunked(SubSeq(wire, 1, pos)) /\ response_may_store(parser) /\ Store

\* validation stores any 200.
StoreValidated == Store

\* One iteration of freshen_headers, on the stored response: another handler
\* may serve it after any of them.
Freshen ==
  /\ phase = "client" /\ pos = 0
  /\ \E h \in Updates :
       stored' = [stored EXCEPT !.headers = update_response(@, h)]
  /\ wire' = Inspect(stored')
  /\ UNCHANGED <<message, clean, phase, pos, parser>>

\* validation builds its request from the stored response.
Revalidate ==
  /\ phase = "client" /\ pos = 0
  /\ phase' = "server"
  /\ wire' = InspectRequest(construct_conditional_request(stored.headers))
  /\ parser' = NewParser("GET")
  /\ UNCHANGED <<message, clean, stored, pos>>

Done ==
  /\ phase = "thrown" \/ parser.result # "incomplete" \/ pos = Len(wire)
  /\ UNCHANGED vars

Next == Consume \/ Throw \/ StoreFetched \/ StoreValidated \/ Freshen \/ Revalidate \/ Done

Spec == Init /\ [][Next]_vars

---------------------------------------------------------------------------
(* Properties *)

(***************************************************************************)
(* A message that a sender writes the way the parsers know it - one space  *)
(* before a value, a reason phrase, letters and digits in extensions and   *)
(* trailers - is never refused; it is complete after its last byte and not *)
(* before, wherever the bytes divide; and its content is the body that was *)
(* sent, without the framing of its chunks, their extensions and the       *)
(* trailer (httpresponseparser.h:325-520, httprequestparser.h:287-523).    *)
(***************************************************************************)
ParsedIsSent ==
  clean /\ phase = "origin" =>
    LET end == Len(wire) - IF Unread(message) THEN Len(BodyWire(message)) ELSE 0
    IN  /\ parser.result = IF pos = end THEN "completed" ELSE "incomplete"
        /\ parser.result = "completed" =>
             parser.content = IF Unread(message) THEN <<>> ELSE Body(message)

\* The headers that announce a length, and the length that the last announces.
Announcing(headers) == {k \in DOMAIN headers : headers[k].name = <<"Content-Length">>}

Length(headers) ==
  IF Announcing(headers) = {} THEN 0 ELSE atoi(headers[Max(Announcing(headers))].value)

(***************************************************************************)
(* Whatever was received: a parser counts down a body or a chunk only      *)
(* while there is something left of it, and the content of a message it    *)
(* accepts is as long as the last Content-Length says, if that is an int;  *)
(* of any other number atoi keeps the last bits (httpresponseparser.h:     *)
(* 291-297, 366-372, 429-436, 491-497).                                    *)
(***************************************************************************)
AcceptedIsDelimited ==
  LET k == Max(Announcing(parser.headers))
      size == Number(parser.headers[k].value, 10)
      reads == parser.method # "GET" /\ ~parser.chunked
  IN  /\ parser.state = "Post" /\ parser.result = "incomplete" => parser.contentSize > 0
      /\ parser.state = "ChunkData" => parser.chunkSize > 0
      /\ parser.result = "completed" /\ reads =>
           IF Announcing(parser.headers) = {} THEN parser.content = <<>>
           ELSE size \in -IntMax .. IntMax => Len(parser.content) = size

\* The headers of a stored response frame its content.
Framed(p) ==
  /\ \A h \in ToSet(p.headers) :
       /\ h.name = <<"Content-Length">> => atoi(h.value) >= 0
       /\ h.name = <<"Transfer-Encoding">> => h.value # <<"chunked">>
  /\ Len(p.content) = Length(p.headers)

(***************************************************************************)
(* Whatever was received: the headers of a response that is parsed frame   *)
(* its content, unless it was chunked; it is stored so (httpresponseparser *)
(* .h:289-304, 347-373).                                                   *)
(***************************************************************************)
StoredIsFramed ==
  phase = "origin" /\ parser.result = "completed" /\ message.start \notin Requests =>
    parser.chunked \/ Framed(parser)

(***************************************************************************)
(* Whatever was received, stored and freshened: a stored response whose    *)
(* headers still frame its content is read by its client as the response   *)
(* that is stored, with the same status, headers and content, and to its   *)
(* last byte (response.h:33-47, proxy.cpp:148-154, 353-359).               *)
(***************************************************************************)
ReplayIsFaithful ==
  phase = "client" /\ Framed(stored) =>
    /\ parser.result # "error"
    /\ pos = Len(wire) <=> parser.result = "completed"
    /\ parser.result = "completed" =>
         /\ parser.statusCode = stored.statusCode /\ parser.status = stored.status
         /\ parser.headers = stored.headers /\ parser.content = stored.content

(***************************************************************************)
(* Whatever was received, stored and freshened: the server reads the       *)
(* conditional request to its last byte as one that asks about the stored  *)
(* response, with all its validators and nothing else (proxy.cpp:353-385,  *)
(* request.h:31-47).                                                       *)
(***************************************************************************)
ConditionalAsksAboutStored ==
  phase = "server" =>
    LET Carries(name, value) == get_header_value(parser.headers, name) = value
        Stored(name) == get_header_value(stored.headers, name)
    IN  /\ parser.result # "error"
        /\ pos = Len(wire) <=> parser.result = "completed"
        /\ parser.result = "completed" =>
             /\ Carries("Host", Host)
             /\ Carries("If-Modified-Since", Stored("Last-Modified"))
             /\ Carries("If-None-Match", Stored("ETag"))
             /\ Len(parser.headers) =
                  1 + Cardinality({name \in Validators : Stored(name) # <<>>})

(***************************************************************************)
(* proxy.cpp:581-583, of the function that gets the response from the      *)
(* server: "send all bytes to server, and receive all bytes from server".  *)
(***************************************************************************)
StoredCopyIsWhole ==
  clean /\ phase = "client" => stored.content = Body(message)
===========================================================================
