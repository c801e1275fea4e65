# A verification project for the caching HTTP proxy

The program is a forward HTTP/1.x proxy in C++: it accepts connections on port 12345, gives each one
a detached thread, and that thread handles one request: GET (answered from an LRU cache shared by
all threads, validated at the origin, or fetched), POST (passed on) or CONNECT (a tunnel of bytes).
Paths below are relative to `src/docker-deploy/src/`.

This directory holds TLA+ modules translated from that code, TLC configurations that check them on
small instances, and proofs checked by TLAPS of what matters most for every instance.

    tlasany M.tla                     # parse a module
    tlc -config MCCache.cfg MCCache   # check a configuration
    tlapm CacheProofs.tla             # check the proofs of a module

`PROJECT.json` lists the runs, for each property a plausible mistake in the code that the run would
find (the definitions named `Bug...`, which no specification uses), the source lines of each
definition, the hazards, the findings and the theorems.

## 1. Inventory

| component | source | state it keeps | operations |
|---|---|---|---|
| Response cache | `cache.hpp`, `cache.cpp` | hash map URI -> node, doubly linked list between two sentinels, size, mutex | `get_response`, `add_response` |
| Request handlers | `proxy.cpp` (`process_request`, `http_get`, `http_post`, `http_connect`, `validation`, `get_from_server`, `chunked_transfer`), `parser_method.cpp` | per thread: request, response, raw pointer into the cache | receive, look up, decide, connect, round trip, validate, store, send, log |
| Freshness and storing rules | `proxy.cpp:241-307, 387-530` | none (reads headers and the clock) | `response_may_store`, `calculate_freshness_lifetime`, `calculate_age`, ... |
| HTTP tunnel | `proxy.cpp:532-568`, `sendall` in `Socket_connection.cpp` | two sockets, one buffer, `revents` | poll, recv, sendall |
| HTTP message parsers | `httpparser/*.h`, `parser_method.cpp` | state of the automaton, counters, flags | `consume`, `inspect`, `construct_conditional_request` |
| Accept loop, descriptors | `proxy.cpp:7-36`, `Socket_connection.cpp`, `main.cpp`, `sock` in `proxy.hpp` | listening socket, open descriptors, running threads | accept, create thread, connect, close |
| Log | `proxy.cpp:604-658` | log file, its mutex, static buffers of `gmtime`/`asctime` | `log_id` and its callers |
| URL parser, old tests | `httpparser/urlparser.h`, `test_*.cpp` | - | unused; commented out |

How they interact. A handler calls the cache synchronously. `get_response` returns a raw pointer
into a node, which the handler keeps across a network round trip, reads, and (on a 304) writes, with
no lock; other handlers may replace or evict the response meanwhile. Parsed responses move into the
cache; handlers read them again through `inspect()` when they serve a hit. Origins, clients and the
kernel are the environment: they answer late or never, in pieces, and close or break off
connections.

What is hard: the unlocked accesses around the cache's mutex; pointers that outlive the lock; two
requests for one URI in flight at once; an exception between lock and unlock of the cache's mutex or
the log's; arithmetic on headers that clients and origins choose; message framing when `recv`
returns any prefix; partial sends and the end of one direction of a tunnel. There are no timeouts,
no retries and nothing is persisted. `PROJECT.json` ("hazards") lists each place with the properties
that cover it.

What makes each part correct:

* cache: map, list and counter agree at every step; it is an LRU map of the given capacity to anyone
  who looks through the mutex; nothing that a thread holds dies but by an eviction, an update or a
  rehash;
* handlers: a client gets the resource it asked for, in a version recent enough; a handler ends if
  its origin answers; only what may be stored is stored;
* freshness: what is served unasked is acceptable to client and origin, as far as `long`s and the
  host's zone allow;
* tunnel: both byte streams arrive in order and, while the tunnel is open, in the end; the end of
  one does not cut it;
* parsers: a message is delimited where its sender delimited it, what is stored can be sent again,
  and what validates it asks about it;
* accept loop, descriptors and log: no thread uses a descriptor that is not its own, each one opened
  is closed, and no thread stops the others.

## 2. Modules

| module | content |
|---|---|
| `LRU` | abstract specification: an atomic LRU map |
| `Cache` | the code's cache, one action per step that other threads can observe |
| `CacheProofs` | inductive invariant of `Cache` and what follows from it |
| `CacheRefinesLRU` | `Cache` implements `LRU` |
| `Proxy` | request handlers; takes `Cache` as an instance and interleaves with its steps |
| `ProxyProofs` | inductive invariant of `Proxy`, on top of `Cache`'s |
| `Freshness` | storing and freshness rules over one stored response as time passes |
| `FreshnessProofs` | their theorems |
| `Tunnel` | one CONNECT request with the kernel's buffers and both peers |
| `TunnelProofs` | inductive invariant of `Tunnel`: no byte is lost |
| `TunnelRefinesStreams` | `Tunnel` implements `Streams` |
| `Streams` | abstract specification: what a tunnel promises its two ends |
| `HttpParser` | the two parsers, the stored copy, its replay and its validation |
| `HttpParserProofs` | invariants of the automata: what is accepted is delimited; what is written of a stored response is read as it was stored, and what a sender sends as what it meant |
| `Server` | the process: listening socket, accept loop, connection threads, descriptors |
| `ServerProofs` | its invariant, and where descriptors are lost |
| `Log` | `log_id`, instantiated by `Server` |
| `Timestamps` | the times in the log lines |
| `MC...` | instances for TLC (sets of requests, headers, messages; symmetry) |

### Cache

`response_map`, `size`, `list` (`prev`, `next`), `key`, `value` and `mtx` are the fields of
`cache.hpp`; `live` is the heap. A call is split where another thread can come in between:

* `get_response`: `GetMiss`/`GetFind` (the search, `cache.cpp:52`, outside the mutex), `GetLock`,
  `GetMove` (the iterator is dereferenced), `GetUnlock`, `GetReturn` (the value is read after the
  unlock);
* `add_response`: `AddCall`, `AddLock`, `AddInsert` or `AddUpdate`, `AddEvict` (`remove_tail`,
  erase, delete), `AddUnlock`, and `AddThrow` for a failing `new`, which leaves with the mutex
  locked, for good: the comment at `cache.cpp:32`, "could fail here, but object state unchanged", is
  not true of the mutex;
* the caller's use of the pointer: `UseResponse`, `Freshen`, `Release`.

What is done under the mutex and touches nothing that is read without it is one step. Deleting a
node, or replacing its value, turns the references that other threads hold into `Dangling`. So does
an insertion for which the map has too few `buckets` (`Rehash`) with the iterators that threads have
from `find` and have not used yet: the language invalidates them all. (libstdc++'s iterators are
pointers to the entries and survive, so that on the platform of the Dockerfile this one is benign.
The model follows the language.) Using a dangling reference, or searching the map while another
thread changes it, is undefined behaviour: it sets `fault`, and the model says nothing of what
follows (`Undefined`). Histories: `older`, the order of use, which the refinement maps to the
abstract one.

### Proxy

A thread of the model is a place for a connection thread: when one has ended, the next connection's
takes its place, so a behaviour has any number of requests of which so many are handled at once.
Each goes through the stages of `process_request`, one action for each stretch of code between two
interactions with the cache, the network or the clock. Responses are records of resource, version,
Date, time of receipt and lifetime, so that staleness can be judged against the origin: `since`
records when each version of each resource became current. Freshening is two steps (`Freshen`,
`Stamp`), because the code writes headers and `response_time` one after the other while others read.
The environment changes resources (`OriginUpdate`), answers or not (`OriginAnswer`: storable,
private, chunked, 304, other status, not parseable), and lets time pass. Time can pass and origins
can change between any two steps. `floor` is a history: the time before which a reply may not have
been outdated. Connection failures, parse errors and the `std::stol` exceptions are actions of their
own that end in `Return`, as the `catch` blocks of `process_request` do. A 304 answers only the
proxy's own conditional requests: clients' conditional headers are not modelled, and their 304 would
be passed on like any other status. `Reading` is the requests whose clients read what they are sent:
a handler blocks for ever in `send_to` to any other.

### Freshness

A Cache-Control header is a function from directives to arguments; the code's substring searches and
`std::stol` become `Has`, and `Junk` for what makes `stol` or `strptime` fail. `to_tm_format` of a
bad date is any of `Garbage`, since it reads an uninitialized `struct tm`. Of a good date, which is
in GMT, `mktime` makes local time, with or without daylight saving as an uninitialized `tm_isdst`
has it: each conversion is off by `MinShift` to `MaxShift`, which are both 0 only on a UTC host. All
sums of longs wrap at `LongMax`, those of the lifetime and those of the age: an Age near the largest
long makes `calculate_age` negative a second later, and the stalest of responses is served.
`Outcomes` is the set of things `http_get` may do with a hit: serve, validate or fail. `RFCLifetime`
and `RFCAge` restate RFC 7234 4.2, which the comments in the code name as what they follow, as the
independent reference.

### Tunnel

`Poll` takes the snapshot `revents`; the loop body is `Skip`, or `Receive` followed by `Send` until
`sendall` has sent all, or `Disconnect`. Each end numbers the bytes it sends, so that order and loss
can be seen. The kernel has an unbounded inbox (flow control toward a sender is not the handler's
concern) and a bounded send buffer for each end. A peer's connection goes from open to `closed`,
`refusing` (the peer's reset has arrived: the next `send` raises SIGPIPE) or `broken` (`send`
returns -1). SIGPIPE is neither ignored nor handled by the program, so `SendKills` ends the process.
When the tunnel ends, both sockets are closed. If there are bytes from an end in its socket that the
handler has not received, or the end sends more, the kernel resets its connection and drops what it
has not sent yet (`Reset`): that end reads nothing more. `Streams` knows none of this: an end says a
byte, the other hears the bytes in order, and the tunnel is closed for an end that has no more to
say, which loses nothing of what it said unless its reader is interrupted while it still has
something to say (`Reset`), or fails. `Tunnel` maps what is on the way to an end to the send buffer,
what the handler has in hand, and the inbox of the other end, in this order.

### HttpParser

The two parsers differ only in the start line and in a method test for requests (`RequestFrameBy`);
`NewParser(start)` makes either. Characters that every state treats alike are grouped into lexemes
(`HTTP/1.1` for a version, a header's name); every character at which the automata change state,
every digit of a number, and every byte of a body is a lexeme by itself, and body bytes may look
like framing. The status line is read state by state, with its digits and its reason phrase
(`StatusLine`, `StatusText`). A parser's state after a prefix is what it makes of a `recv` that
returned only that prefix: `Throw` may happen at any of them. What is sent (`wire`) is a message, or
a message with one lexeme replaced by `Noise` or left out; `clean` says that nothing was, and that
the message is in a spelling the parsers know. Messages without a reason phrase or without the space
before a value (`Unknown`), and with a Content-Length that is not the body's (framing "given"), are
sent as well and are not `clean`.

Numbers are read as glibc does: blanks, a sign, the digits (`Number`), the nearest long (`strtol`),
and for `atoi` its last bits (`Truncated`), so that a Content-Length of 4294967297 is 1.

`StoreFetched` has the guards of `get_from_server` (`is_chunked`, `response_may_store`; what the
request says, `request_no_store`, is left out and only forbids more), `StoreValidated` has none,
like `validation`. `Freshen` writes one header of a 304 (`Updates`) over the stored ones, or adds
it, as `freshen_headers` does in a loop in whose middle other handlers may serve or validate the
response. `Inspect` writes the stored response out for a client whose parser runs over it (phase
"client"). `Revalidate` builds the conditional request from the stored headers, and the request
parser reads it as the origin would (phase "server"). Header names are compared with case, sizes are
written with one digit where a sender means them (`MessagesAssumption`), senders send no empty chunk
but the last (`SendersAssumption`), and the `keepAlive` flag, which nothing reads, is left out.
`Written` is one turn of the loop in `inspect()`, which `HeaderText` repeats for a list of headers.

### Server, Log and Timestamps

`Server` has the table of descriptors (`file`), from which the kernel gives out the lowest free
number, and where every thread is in the calls that take, use or give back one. A path of a handler
is the sequence of its socket calls, its log lines and its waits for a peer; the data of requests
and responses are left out, so all paths are possible at any time. `client_fd` and `server_fd` are
what the `sock` guards own (the destructors run in `CloseServer`, `CloseClient`, `Catch`);
`server_fd` is set from `connect_to_host` on, and dropped if the log line between it and the guard
throws. `Throw` is any exception of any stretch of code. What only a peer can cause is `Broken`.
`AllocFails` adds the failures of `operator new`, in the creation of a thread, in `log_id`, and in
`add_response` (`AddThrows`). A call of the cache is one step here, with its mutex: a handler that
finds an entry (`Found`), or adds one, waits until `cache_mtx` is free, and after `AddThrows` it
never is. `Exit` is the end of the process: main returns, or an exception meets `noexcept`
(`Terminate`).

`Log` is one call of `log_id` (lock, open, write, close, unlock), which `Server` composes with its
table: opening the log file takes a descriptor, and when none is free the line is lost. After
`Throw` the mutex is locked for good, and the thread blocks itself at its next line. lock and open
are one step, since no other thread can see what is between.

`Timestamps` splits a log line into `time`, `gmtime`, `asctime`, the copy into a string, and
`log_id`. The results of `gmtime` and `asctime` are single variables, as glibc's buffers are; two
threads at once at a step that writes one may leave a mixture (`Torn`).

## 3. What TLC checks

| run | instance | what it shows |
|---|---|---|
| `cache` | 3 threads, 3 keys, 2 responses, capacity 2, failing allocations | `IInv`, `ImplementsLRU`; `NodesLostOnlyWhenFull`: while there is room no node dies that a thread in `get_response` has taken from its iterator; `IteratorsSurvive`: iterators die by the eviction of their own entry or by a rehash, and by nothing else |
| `proxy` | 2 handlers at a time, any number of requests, 2 URIs with 2 versions, capacity 1, 2 times | `Inv`: an entry is filed under its URI and was current at its Date, also after others freshened it through old pointers; `ReplyNotStale` |
| `proxy_ends` | 2 handlers at a time, 2 URIs, all methods, all answers, one origin silent and its clients not reading | `EveryRequestEnds` |
| `freshness` | all combinations of directives, dates and ages with arguments at the boundaries, 5 times, conversions right or late by 1 | `ServedIsAcceptable`, `StaleForever` |
| `tunnel` | 3 bytes each way, `recv` of 2, buffers of 2, resets after the end | `TypeOK`, `NoByteLost`, `LastBytesPassedOn`, `BytesArrive`, `ImplementsStreams` |
| `parser` | requests and responses, all framings, wrong and overlong sizes, folded headers, chunk extensions, trailers; each whole and with any lexeme after the first replaced or left out; stored headers replaced by others' | `ParsedIsSent`, `AcceptedIsDelimited`, `StoredIsFramed`, `ReplayIsFaithful`, `ConditionalAsksAboutStored` |
| `server` | 2 connection threads, 3 descriptors, 2 addresses to listen on, 1 connection waiting, failing allocations | `Inv`: descriptors in use are open, of their kind, and their thread's own; `LostOnlyThere`: the four places that lose one; `HandlersProceed`, `ConnectionsAccepted` |

Five runs check what a comment or a test document says and find it refuted:

* `proxy_no_store` (`OnlyStorableStored`): `validation` stores any 200, private and no-store ones
  too;
* `proxy_freshen` (`FreshensCachedResponse`): the response that `freshen_headers` writes need not be
  in the cache any more, and may be deleted;
* `tunnel_sigpipe` (`SendFailureThrows`): a failing send may end the process instead of throwing;
* `parser_stored_copy` (`StoredCopyIsWhole`): a response whose body ends with the connection is
  stored without its body;
* `log_time` (`ExpiryShownCorrectly`): the expiry time in the log may be the time of another
  thread's line.

The models hold more of what the code does against its comments. No run shows these; the properties
of the other runs name them as exceptions:

* an allocation that fails in `add_response` leaves the cache's mutex locked for good, so that all
  handlers that find an entry or add one wait for ever (`cache.cpp:30`, against the comment at 32).
  `HandlersProceed` excepts it (`Stuck`);
* an exception out of `log_id` leaves the log's mutex locked, and in a `catch` block it ends the
  process (`proxy.cpp:77`, against the comment at 39). `HandlersProceed` and `ConnectionsAccepted`
  except both;
* an Age near the largest long makes a stale response fresh (`proxy.cpp:512`, against 396-400), and
  so may a min-fresh or max-stale as large (478). `ServedIsAcceptable` and `StaleForever` except
  sums that do not fit (`AgeFits`, `LifetimeFits`), and without these conjuncts TLC finds them
  violated;
* on a host that is not on UTC, dates are converted wrongly, and responses are served that are too
  old by the difference (`proxy.cpp:392`, against 396-400). `ServedIsAcceptable` promises no more
  (`ZoneError`);
* a Content-Length beyond an int is taken for its last bits (`httpresponseparser.h:296`).
  `AcceptedIsDelimited` speaks of ints;
* messages in spellings that HTTP allows are refused or misread, although `src/README.md:2` says
  that the proxy "sticks to RFC standards": no space before a value
  (`httpresponseparser.h:279-287`), no reason phrase (190-213), extensions and trailers with other
  characters than letters and digits (392-409, 465-491). `ParsedIsSent` speaks of the others
  (`clean`);
* a chunked 200 that answers a validation is stored decoded, with its Transfer-Encoding header, and
  no client can read what is served of it (`proxy.cpp:334`); and a 304 may overwrite the headers
  that frame a stored body (356). `ReplayIsFaithful` speaks of stored responses that their headers
  frame (`Framed`), and `StoredIsFramed` says that all are when they are parsed, but for chunked
  ones;
* an end of a tunnel that is closed while it is still sending loses what it has not read yet
  (`proxy.cpp:556`). `Streams` allows it (`Reset`).

**Bounds.** Three threads are needed for a reader, a writer that evicts, and a third whose reference
dangles; a third key makes an insertion overflow a cache of two places, the smallest in which order
matters; one node address more than the capacity lets an address be reused while a stale iterator to
its old content exists. `proxy` has capacity 1, so that two URIs evict each other, and two versions
and two times, so that an older answer can arrive after a newer one. Its responses live for no time,
so that they are fresh only when just received or for a client with a `max-stale` of 1, or are never
fresh. In `freshness` `LongMax` is 15: small arguments and `LongMax` reach both sides of every
comparison, and overflow in the lifetime and in the age. A conversion that is right or late by one
is the smallest that errs in both the lifetime and the age; hosts on UTC, and all others, are
covered by the proof. In `tunnel`, three bytes through buffers of two make `recv` and `send` split a
stream at different places. In `parser`, bodies have up to two bytes, enough for two chunks, and
bytes that equal CR, LF and digits. The digits are 0 to 2, and the largest int is 999, which a
status code still fits, the largest long 3999, so that four digits overflow an int and five a long.
A 304 brings a validator or another length. In `server` three descriptors are the listener's and two
for one handler, or for the clients of two, and the log's when one is free: the table fills up in
use, and by losses with less, and accept, connect and log_id each meet it full. With four, of which
two handlers can hold a server's as well, the run takes most of the time that is reasonable for it
and finds nothing either; that `Inv` and `LostOnlyThere` hold for any number is proved.

**Fairness.** `Proxy!FairSpec`: weak fairness of each handler's own steps (the scheduler runs a
thread that can go on); of connecting to, and being answered by, the origins in `Answering`, which
also end their chunked replies; and of sending to the clients whose requests are in `Reading`, since
`send_to` blocks until they read. Nothing is assumed of other clients, other origins, or tunnels: in
`proxy_ends` there are some of each, and `EveryRequestEnds` says that they do not keep the handlers
of the former from their end. A handler that waits for the cache's mutex is given strong fairness
(`InCache`): other handlers lock and unlock it again and again, and a mutex that is free again and
again is got in the end, as with glibc's on any scheduler that does not starve a runnable thread.
`Server!FairSpec` assumes the same of the log's mutex and the cache's and of each thread's own
steps, that a `connect` fails in the end if it does not succeed, and nothing else of clients and
servers: a handler may wait in `recv`, `send`, `poll` for ever. `HandlersProceed` excepts what
follows an exception between a lock and an unlock, out of `log_id` or `add_response`;
`ConnectionsAccepted` only the former, since the accept loop never calls the cache.
`Tunnel!FairSpec`: weak fairness of the handler, and of both ends reading what they are sent.
`BytesArrive` is false without the latter, since `sendall` blocks on a reader that does not read.

**Deadlock** is checked except in `cache` and `server`, where a failed allocation may leave every
thread waiting for a mutex, and the process may end. Ends that are meant (the tunnel closed or
silent, a message parsed) are explicit stuttering actions.

**Symmetry** is used in the cache run and in the proxy runs without liveness. Their properties are
invariants, box-action properties and a refinement without fairness.

## 4. What is proved

All theorems are for every value of the constants, under the named assumptions of the modules
(distinct model values, `Capacity` and the bounds of `Server` natural numbers, Horizon and LongMax
natural numbers, arguments integers or `Junk`; a tunnel's buffers of at least one byte; requests and
times of `Proxy` of their types, and enough node addresses for the cache; messages of `HttpParser`
with meant sizes of one digit, framed in one of the four ways, and without an empty chunk before the
last; an int that holds a status code and whose width divides a long's; headers of 304s without CR
and LF; dates whose distance is a long, as of years with four digits).

* `CacheInvariant`: `Spec => []IInv`. `IInv` conjoins `TypeOK`, `MutexOK` (the holder is the one
  thread between lock and unlock, or the one that threw), `MapOK`, `ListOK`, `SizeOK` (capacity + 1
  exactly while some thread is about to evict), `RefOK` and `ArgOK`. Links alone are not inductive:
  that a `next` pointer path visits exactly the map's nodes is a reachability statement. The history
  `older` replaces it: `ListOK` says that `older` is a total order of the listed nodes between
  `tail` and `head`, and that each cell's `next` is its immediate predecessor in it. `RemoveNodeOK`,
  `AddToHeadOK` and `MoveToHeadOK` say that the three list operations preserve this for any list,
  without mentioning threads; then there is one lemma per action.
* `RoomNoDangling`: if all keys fit in the cache, or while it has room (`Roomy`), no node dies of a
  thread in `get_response` that has gone on from its iterator to the node: only evictions delete
  nodes, and they happen when one key too many is in the map (`RoomBefore`). It says nothing of
  iterators, because of the rehash; `IteratorsKept` does: one that `find` returned is invalidated by
  the eviction of its own entry, which is the oldest of a cache that is full, or by an insertion
  that outgrows the buckets, and by no update, move or eviction of another entry.
* `CacheImplementsLRU`: a step of `Cache` is a step of `LRU` or stutters, under the mapping that
  hides the victim between insertion and eviction. `GetMove` is `Use`, `AddUpdate` is `Put`,
  `AddInsert` is `Put` or `PutEvict`, `Freshen` is `Revise`, and everything else stutters,
  `AddEvict` included. The proof needs `IInv`: that the cell before `tail` is the oldest is
  `TailIsOldest`.
* `ServingIsAcceptable`, `StalenessIsFinal`: from the invariant that what is stored passed
  `response_may_store`, and from lemmas that wrapped sums that fit are exact, that conversions of
  dates move lifetime and age by at most so much (`LifetimeIsBounded`, `AgeIsBounded`), and that age
  grows with time while the lifetime does not depend on it. Both are about all headers, zones and
  times whose sums fit a long, and the second about all that may follow until the sum of the age
  does not. Of dates and ages that are none, `StalenessIsFinal` holds too, whatever is in the
  uninitialized `struct tm`; `ServingIsAcceptable` leaves them out.
* `ServerInvariant`: `Spec => []Inv` of `Server`, which is inductive: `L!LogOK` (whoever is between
  lock and unlock is the mutex's holder, so one thread at a time has the log file open), `StagesOK`
  (a handler's stage tells which connections it has, and that it is not in `log_id` when it ends)
  and `OwnDescriptors`. Descriptors of different kinds differ because `file` tells them apart; those
  of one kind because a new one is free before. `PassesInv` covers the steps that keep the
  connections, whatever the stages.
* `DescriptorsLost`: every action outside the four places leaves `Lost` alone (`TakenAndGiven`,
  `HandlerLost`).

* `TunnelInvariant`, `TunnelTypes`, `BytesKept`, `LastBytes`. `NoByteLost` is about what an end has
  read, and a read moves a byte from a send buffer. `IInv` therefore says it of what was passed on
  (`Passed`: read or in the send buffer), keeps its first half for ended tunnels and readers that
  have gone, and adds how a tunnel begins (`BeginningOK`) and `LastBytesPassedOn` itself. A receive
  and a send then move a piece across the border of two neighbours in one concatenation; the lemmas
  for this (`Concatenated`, `CutSequence`, `PassOn`, ...) are about sequences alone.
* `TunnelImplementsStreams`: `Spec => Promised!StreamsSpec`. While the tunnel is open, what an end
  has read followed by what is on the way to it is its whole stream (`Owed`), the answer included. A
  handler's step changes neither the stream nor what was read; so what is on the way is unchanged as
  well (`Cancel`), and the step stutters, whatever it moved. An end's own steps are `Say`, `Hear`,
  `Stop` or `Leave`; the end of the tunnel is `Close` or `Fail`, and what is cut is a suffix,
  because the send buffer is the front of what was on the way. A reset after the end is `Reset`,
  which `Streams` allows only of an end that had more to say or was not heard to its last byte.
* `ProxyInvariant`: `Spec => []IInv` of `Proxy`: the cache's own `IInv`, unchanged, and `TypesOK`,
  `EntriesOK`, `HandlerOK`. `EntriesOK`: each entry, and each response that a handler is about to
  add, is filed under its resource, and its version was current at its Date. `HandlerOK` says what a
  handler knows at each stage: what it asks the origin about, and what it is told, is the version
  that its pointer still points to, unless the pointer dangles (`FoundOK`), and what the origin
  answered and what the client gets was current recently enough (`AnswersOK`). That a 304 is about
  the entry whose headers are then overwritten is where others, which freshen or replace that entry
  during the round trip, could break it: freshening keeps the version, and replacing leaves the
  pointer dangling. One lemma for each few actions that end in the same way; `RefKept`, `ArgKept`,
  `EntryKept` and `CacheKept` say what any step of the cache may do to another handler's pointer,
  argument and entries.
* `HandlersSafe` and `RepliesNotStale`: `Inv` and `ReplyNotStale` of `Proxy`.
* `AcceptedDelimited`: for any messages and any noise, so for any bytes that begin with a start
  line. What the content of a message has to do with a header line read long before is not
  inductive: the invariant `ParserOK` says of every state of the automaton which fields may be what
  (`StateOK`), and that what is left of the body and what has been read of it add up to the last
  Content-Length among the complete header lines (`FramingOK`, `Complete`; a line counts only when
  it has ended). `ConsumeOK` keeps it, with one lemma for each group of states. A parser without a
  body must not be trusted to have read no Content-Length: that of a GET request, and that of one
  that failed, are excepted, and so are lengths that are not an int, of which `atoi` makes another
  number. `StoredFramed` needs no such exception, since it is about the number `atoi` made: it
  follows from the same invariant that the headers of a parsed response frame its content, unless it
  was chunked. That the parsed bytes are lexemes at all is a statement about texts that are written
  from lists (`FlattenedPieces`, `InspectIsText`, `ConditionalIsText`), and that a size is a number
  one about a recursive function (`UnsignedIsNat`); both are proved by least counterexample
  (`LeastNatural`, `Iterated`), because the library's induction theorems cannot be instantiated
  here.
* `ReplayFaithful`, `ConditionalFaithful`: the invariant `ReadInv` adds to `IInv` that who reads a
  text that was written of headers and a body (`Says`, with the place where each header line ends)
  is at the place its state says (`Reads`): in the start line, at the start of the next line, in the
  middle of the kth name or value with just that much of it read, or in the body. `TextSays` gets
  the places from the pieces of the text, once for `inspect()` of a response and of a request;
  `ReadsOn` takes one lexeme, with one lemma for each part of a text; `ReadingEnds` reads the
  property off. The client gets the whole body, and no more, as long as the stored headers frame it
  (`Framed`), whatever the 304s since then wrote over them: that they did when the response was
  parsed is `StoredFramed`, and what freshening keeps of a stored response (its status, its content,
  headers without line ends) is `StoredOK`. `ReadInv` also says that a response is never taken for a
  GET request on the way (`ConsumeKeeps`). The status line is a text of its own, with its number and
  its phrase (`AnswerRead`). Of the conditional request, `ConditionalAsks` says what its one to
  three header lines ask, and no header of a GET is taken for a length.
* `SentIsParsed`: whatever a sender sends in a spelling that the parsers know (`clean`), with any of
  the headers and any number of chunks, is never refused, and is complete after its last byte, not
  before, with the content that was sent. Unlike `inspect()`'s, such a text has parts that repeat
  and depend on what was read (a size line says how much data follows it), and the content is added
  up over the chunks. The invariant `SentInv` therefore says where the whole reading leads, not
  where in a header it is: the parser's state is the one that consuming the lexemes received so far,
  one by one, gives (`Trace`), and the same consumption of the whole message ends understood. That
  it does (`MessageRead`) is a statement about texts alone. A reading of one text followed by one of
  the next is a reading of both (`ReadsBoth`), so it is put together from the start line, the header
  lines (`LineReadTo`, `FramingRead`, `ExtraRead`) and the body (`BodyRead`): counting up over the
  chunks (`ChunksRead`, `JoinedPieces`), a size line with its extension and its data
  (`SizeLineRead`, `ChunkDataRead`), then the last chunk and the trailer. It needs that a size of
  one digit is the number it spells (`OneDigit`), for `atoi` and `strtol` alike (`SizesRead`), and
  that the empty size line that ends a trailer counts as 0 (`NoDigits`).
* `HandlersKeepNodes`, `HandlersSeeLRU`: every step of `Proxy` is a step of the cache, leaves the
  cache alone, or is a race on a response that it returned (`CacheOf`), so what is proved of `Cache`
  under any callers holds under these: no node dies in the hands of `get_response` while the cache
  has room, and handlers see an LRU map. Both halves of freshening are `Revise` steps of it; a race
  on the headers is a stutter.

**Only model-checked:** liveness (`EveryRequestEnds`, `BytesArrive`, `HandlersProceed`,
`ConnectionsAccepted`), which the prover cannot do under fairness. The violations that the five runs
of section 3 find need no proof.

## 5. What is not modelled

* Memory contents after undefined behaviour (`fault`): the runs end there.
* Name resolution (`getaddrinfo`), and to which address `connect_to_host` connects: it reads
  `host_info_list` after it has freed it, so that `Server` lets it fail or succeed at will.
* `accpect_connection` formats an address that `accept` has not written when it fails
  (`Socket_connection.cpp:107`): the text is not used then.
* The choice of the server by the Host header, while the cache is keyed by the URI: clients are
  assumed to send the two in agreement.
* What the standard library does beyond its promises: a rehash leaves libstdc++'s iterators usable,
  which the model does not rely on. Of `atoi` beyond a long, which the language leaves undefined,
  glibc's result is taken.
* A 304 that carries the Content-Length of the response it confirms, which the parser waits for:
  senders in `HttpParser` send the body they announce. `Proxy` has an answer that does not parse as
  an outcome of its own.
* Header names in other letters than the code compares with (`parser_method.cpp:30, 41`), which it
  does not find.
* The duration of a round trip, which the comment at `proxy.cpp:499-503` adds to the age and the
  code does not.
* Vary, must-revalidate and heuristic lifetimes, which the code does not know.
* `urlparser.h` is included nowhere; the old tests are commented out.

## 6. Plan

Done, in this order: `LRU` and `Cache` with their proofs, `Proxy` over `Cache`, `Freshness` with its
proofs, `Tunnel`, `HttpParser`; then `Log` and `Server` with its proofs, `Timestamps`, `Streams`,
handlers that are reused in `Proxy`, and conditional requests in `HttpParser`; then the proofs of
`Tunnel`, with the refinement of `Streams`, and of `Proxy`.

Then the proofs of `HttpParser`: `AcceptedIsDelimited`, an invariant of single steps of the
automaton; `ReplayIsFaithful` and `ConditionalAsksAboutStored`, where a parser that reads what
`inspect()` has written is, after each prefix, at a known place of a known header; and
`ParsedIsSent`, where it follows what a sender writes, chunks included.

After that the models were brought closer to the code where an environment can hurt it: rehashing
(`Cache`), overflow of the age and local time (`Freshness`), clients that do not read (`Proxy`),
resets at the end of a tunnel (`Tunnel`, `Streams`), numbers of the width they have, the status
line, freshening, and spellings that are misread (`HttpParser`), and the cache's mutex (`Server`);
the proofs follow.

Left: nothing of safety that a run checks. Liveness stays with TLC.
