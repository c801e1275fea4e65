--------------------------- MODULE MCHttpParser ---------------------------
(* Small instances of HttpParser for TLC. *)
EXTENDS HttpParser

\* Bodies of up to two bytes, some of which look like the framing around them,
\* whole or in chunks.
MCBodies == {<<"y">>, <<"CR">>, <<"0">>, <<"CR", "LF">>, <<"y", "2">>}
MCChunks == {<<>>, <<<<"CR">>, <<"0">>>>, <<<<"y", "2">>, <<"LF">>>>}
              \cup {<<b>> : b \in MCBodies}

MCResponse == "HTTP/1.1"
MCExtras == {"none", "header", "folded"}

MCUnchunked ==
  {m \in [start : {MCResponse} \cup Requests, framing : {"length", "close"}, size : {<<>>},
          chunks : {<<>>} \cup {<<b>> : b \in MCBodies}, extra : MCExtras \cup {"private"}] :
     m.framing = "close" => m.start = MCResponse \/ m.chunks = <<>>}

\* Sizes that are negative, beyond MCIntMax or MCLongMax, or have a blank and
\* a sign.
MCSizes ==
  {<<"-", "1">>, <<"-", "2", "0", "0", "0">>, <<"2", "0", "0", "1">>,
   <<"2", "0", "0", "0", "0">>, <<"SP", "+", "1">>}
MCIntMax == 999
MCLongMax == 3999

MCGiven ==
  [start : {MCResponse, "POST"}, framing : {"given"}, size : MCSizes,
   chunks : {<<<<"y">>>>}, extra : MCExtras]

MCChunked ==
  [start : {MCResponse, "POST"}, framing : {"chunked"}, size : {<<>>}, chunks : MCChunks,
   extra : MCExtras \cup {"extension", "trailer"}]

\* Spellings that HTTP allows and the parsers do not know.
MCUnknown ==
  [start : {MCResponse}, framing : {"length"}, size : {<<>>}, chunks : {<<<<"y">>>>},
   extra : Unknown]

MCMessages == MCUnchunked \cup MCGiven \cup MCChunked \cup MCUnknown

MCNoise == {"CR", "LF", "SP", ":", "semicolon", "y", "0", "1", "2"}

\* Another validator, and a header that frames a body.
MCUpdates == {Item("ETag", <<"z">>), Item("Content-Length", <<"1">>)}
===========================================================================
