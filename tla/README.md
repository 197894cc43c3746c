# A verification of the L7 load balancer

TLA+ models of the load balancer in `src/`, the TLC runs that check them, and
theorems about them with proofs checked by TLAPS. `PROJECT.json` lists the
runs, the source lines behind every definition, the hazards the properties are
for, one mutation of the code's model for each property (which breaks it), and
the findings.

## The system

One process (or N of them, under a supervisor) runs one reactor thread and one
health-checker thread.

| Component | Source | State | Operations | Who calls it |
|---|---|---|---|---|
| Round-robin router | `router.py:23-75` | list of healthy backends, index | `next_backend`, `mark_healthy`, `mark_unhealthy`, under a lock | connections, health checker |
| Least-connections router | `router.py:78-183` | heap, counts, tiebreak, healthy set | the same and `on_disconnect`, under a lock | connections, health checker |
| Proxy connection | `connection.py` | state, buffers and offsets, backend, attempts, flags | four readable/writable handlers, `handle_timeout`, `_fail_backend`, `_send_error`, `_finish` | reactor |
| Reactor | `reactor.py` | selector table, connections by descriptor and by `id()`, deadline heap | a loop: select, dispatch, expire, reap | the worker |
| Health checker | `health_checker.py` | a thread and a stop event | probe each backend, mark it | its own thread |
| Supervisor, worker | `main.py` | child pids, signal handlers | fork, forward signals, wait | the operating system |
| HTTP parser | `http_parser.py` | none (the buffer is the connection's) | parse, frame, serialise | connections |
| Configuration, logs, mock backends | `config.py`, `logger.py`, `mock_backends.py` | constants, none, none | | |

What is hard in it:

- *Two threads.* The reactor's handlers and the health checker share the
  router. Each router call is atomic, a handler that makes several is not: in
  `_fail_backend` the pool may change between `on_disconnect` and
  `next_backend`.
- *Failure at every point.* A connect, send, receive or framing failure leads
  to a retry on another backend, whose connect may fail at once, inside the
  handler of the first failure. What the failed attempt left behind must not
  reach the next one, and every `next_backend` must be matched by exactly one
  `on_disconnect`.
- *Lazy deletion, twice.* The router's heap and the reactor's deadline heap
  both keep entries that are no longer true and decide later which ones are:
  by a count, or by an `id()` and a generation. Both keys can come back to an
  old value.
- *Timeouts.* They race late answers and relays under way.
- *Descriptor numbers.* The selector finds its keys by the number of a socket.
  A retry closes a socket and opens another, which often gets the same number,
  before the reactor can unregister the first; another connection may get it
  instead.
- *Signals* that arrive between the steps of start-up, in the supervisor and in
  each worker, also while a worker still has the supervisor's handlers.
- *Reading again from the start.* The whole buffer is parsed after each read,
  which may have ended anywhere in a message.

What makes each part correct:

- *Routers:* an answer is healthy and not excluded, `None` only if there is
  none, the least loaded (least connections), in rotation (both).
- *Connection:* a client gets one answer from one backend, which was sent the
  whole request; a request is tried on distinct backends, no more often than
  configured and not at all again if it is not idempotent; it goes without an
  answer only when attempts or backends are used up, or for a reason that the
  code never retries; counts are exact and come down; the connection ends.
- *Deadlines:* none is lost, slept past, or comes early.
- *Selector table:* who waits for a socket is watched for it; no key outlives
  its socket, no socket its connection; the loop goes on.
- *Supervisor:* one worker's end, or one signal, ends all; nobody is left
  behind; the exit code tells of a failure.
- *Parser:* it returns; a message is found when it is whole and not before,
  however it was cut; what is forwarded is the request that came.

## The modules

```
          BackendPool   (abstract router)          Exchange   (abstract client view)
           ^       ^                                   ^
   RoundRobin     LeastLoaded  <---- composed ---- ProxyConnection
       |           ^     (abstract router)
       |       LeastConnections                    Deadlines
 RoundRobinTurns   |
       \       LeastConnectionsTurns           Selector   Supervisor   HttpFraming
        \____ Turns ____/
```

An arrow up is a refinement: `RoundRobin` implements `BackendPool` and
`LeastConnections` implements `LeastLoaded` (a run and a theorem each),
`LeastLoaded` implements `BackendPool` (a theorem), `ProxyConnection` implements
`Exchange` (a run and a theorem). A plain line down is an extension by a
history. The modules `*_proofs` hold the theorems about the module they are named after.
`ProxyConnection` is composed with those two abstractions (as instances, with
its own `healthy` and `counts`), so it does not see the heap or the index but
relies only on what the routers are shown to promise. The modules `*MC` give
the constants values that a `.cfg` cannot express.

**LeastConnections** (`router.py:78-175`). `heap`, `counts`, `tiebreak` and
`healthy` are `_heap`, `_counts`, `_tiebreak` and `_healthy_set`; each method is
one action, since it runs under the lock. `_heap` is the set of its entries:
`heapq` is used only to take them in order, and no two entries are equal since
no two have the same tiebreak (`TiebreaksUnique`, proved). `Choose` is the loop
of `next_backend` that ends at a selectable entry: everything before it is
popped, excluded backends' entries are pushed back, the rest is gone. `last` is
a history of the latest call, by which the refinement sees the choice.
`on_disconnect` is called for counted connections only (`Release`), which
`ProxyConnection!CountsExact` justifies.

**LeastConnectionsTurns, RoundRobinTurns, Turns** add a history of whose turn
it is: `owed[b]` is the set of backends that have waited, healthy, since `b`'s
last turn. In the least-connections case only calls that find every backend
idle take turns, the load that `tests/TESTING.md:403` describes.

**RoundRobin** (`router.py:23-59`). `pool` is `_healthy` as a sequence (the
configuration may list a backend twice), `index` is `_index`, which only grows.

**ProxyConnection** (`connection.py`; `Accept` and `Reap` are `reactor.py`'s).
`conn[c]` is a record with the fields of the class that decide anything; `rcvd`
and `src` are histories: the bytes the peer of the current backend socket has
been sent, and the backends whose bytes the buffer holds. A handler is one
action, with its calls inlined: `Finish`, `SendError`, `PrepareRelay` and
`InitiateBackendConnect` are parameterised by the session that the handler has
built so far. The exception is `_fail_backend`: it makes two router calls,
between which the health checker may take the lock, and it may be entered again
by the connect it starts. `running` says which connection is inside it, and no
other handler runs meanwhile. A request is `ReqLen` units; a response is
`HeaderLen` units and a body, of one of the framings in `Shapes`, received in
pieces of any size, perhaps with a unit too many. A chunked response with
excess may or may not be cut (`Framed`): the parser takes a blank line in what
follows for the end of the trailers. An exception that leaves
`_initiate_backend_connect` is an outcome of it, with `reactor.py:159`'s effect.
A deadline may pass at any moment.

What the other modules about a connection look at is left out here:
`ProxyConnection` has no descriptors, no ids and no bytes. `Selector`,
`Deadlines` and `HttpFraming` each reduce the handlers to what they do to the
one thing they are about, and let everything else happen in any order, so each
allows at least the behaviours of the composed program.

**Deadlines** (`reactor.py:99-163, 330-345`, `connection.py:127-144`). The loop
goes through select, dispatch, expire and reap; `heap` is the set of the
`(deadline, generation, id)` tuples, `connById` is `_conn_by_id`. `addr` is
`id()`: a new connection may get the address of one whose object is free, that
is, one that was reaped and is not held by the loop's local variable `conn`
(`pinned`). Handlers are reduced to what they do to the deadline: refresh it
`n` times and go to a state (`Refresh`), nothing (`Ignore`), or end the
connection (`Finish`).

**Selector** (`reactor.py:142-362`, the sockets of `connection.py`). `table` is
the selector's dict of keys, `epoll` the kernel's list; both are by descriptor
number, but a socket that is closed leaves only the second. `conn[c]` has the
state and, by the number of the attempt, `backend_sock` and
`pending_backend_unregister`. A dispatch goes in steps, since a handler may
fail, connect again and fail again before the reactor sees any of it: `busy`
says how far it is (`fail`: in `_fail_backend`; `settle`: the handler has
returned and `_flush_pending_unregister` and `_transition` follow, as one action,
nothing else of this thread coming between; `raise`: an exception is on its way
to `_loop`). The kernel gives out the lowest free number, or the next one, as the
health checker's thread may hold one. `lost` is a history: the sockets that
were overwritten in `pending_backend_unregister`, or left there by an
exception. `Register`, `Modify` and `Unregister` model Python's
`EpollSelector` as `reactor.py` uses it (external), with the exceptions that
the reactor catches.

**Supervisor** (`main.py:49-203`, `reactor.py:79-97`). `worker[w]` says how far
each process is: `born` with the supervisor's handlers and a copy of its list
(`inherited`), `default` after the reset, `handled` with its own handler,
`running` once `start()` has set `_running`, `stopping`, or how it ended. A
signal is in `pending` until the process runs its handler, between any two of
its steps; one from outside reaches one process, be it the supervisor or a
worker, or all (`Signal`). `deaf` and `unlisted` are histories: the workers that ran a handler
to no effect, and those that were not in the supervisor's list when it
forwarded a signal.

**HttpFraming** (`http_parser.py`, as `connection.py:177-212, 301-346` calls
it). A buffer is a sequence of symbols: CR, LF and data bytes are symbols, and
so are, as if one byte, a start line, a header field, a chunk size and an
extension: what a symbol says is its `text`, a kind of byte or the name of a
field (`Texts`), and its `value`. The header section is read into a list of
fields (`FieldLines`) and from it into a dict (`Dict`, a list without repeated
names, in the order of insertion as Python keeps it); `First` is the search
for a name in any case. Delimiters are sought as the code seeks them, so bodies may hold CR,
LF, blank lines and size lines. The state is the message that the peer sends
and how much has come; `Whole` is the grammar, from which messages are built
and against which the parser is held. `IsMessage` is what is taken for granted
of a message: its fields and trailers are not line ends, and its headers tell
its length without contradicting each other. Bodies, chunk data and what
follows the message are any bytes, and there may be any number of fields,
chunks and trailers. Numbers may have a sign, as `int()` takes it
(`http_parser.py:106, 179, 231`): a Content-Length may be negative, and the size
line of a chunk may hold its size, a negative number, or none at all. A size
that takes `pos` back below the first byte, and a body's end below zero, are
counted from the end of the buffer, as Python's slices and `find` do
(`NextChunk`, `Body`). `Rounds` is where each round of the scan begins; the loop
ends just if a round that returns comes within as many rounds as there are
places (`Returns`), since a place that comes again comes for ever. A read after
which it does not end is the last (`Hangs`).

**BackendPool, LeastLoaded, Exchange** are the abstract specifications.

## The runs

| Run | Instance | Shows |
|---|---|---|
| `least_connections` | 3 backends, 7 tiebreaks | the heap implements the search for the least loaded backend; no healthy backend is lost; rotation until a backend comes back |
| `least_connections_flaps` | 3 backends, 8 tiebreaks | *violation* of `Rotation` |
| `round_robin` | 3 backends | the scan implements the pool; rotation while the pool is unchanged |
| `proxy_one` | 1 request, 3 backends, round robin, 1 retry, all framings, requests and headers of 2 units | one answer from one backend that got the whole request; retries; what a request without an answer went through; the connection ends |
| `proxy_two` | 2 requests, 3 backends, least connections, 2 retries | counts are exact, attempts distinct, with two connections and the health checker interleaved |
| `proxy_leak` | 1 request, 2 backends, least connections | *violation* of `CountsOnlyActive` |
| `proxy_truncated` | 1 request, 2 backends | *violation* of `RelayIsComplete` |
| `deadlines` | 3 connections, 2 addresses, 3 generations, 3 half seconds | no deadline lost or slept past; early only by a reused id |
| `deadlines_reused_ids` | the same | *violation* of `NeverPremature` |
| `selector` | 2 connections, 4 descriptors, 2 retries | who waits is watched, keys and sockets do not leak, the loop does not crash, but by a lost key |
| `supervisor` | 3 workers, 2 signals from outside, to one process or all | nobody left behind; the exit code; one end or one signal ends all but the deaf and the unlisted |
| `http_framing` | the messages of `HttpFramingMC`, cut anywhere | the scan of a body returns; messages are found whole and to the byte; the forwarded request is the one that came |

The bounds, and why they are enough. Three backends are the fewest with which
the least loaded, the next in turn and an excluded one are different, and with
which one retry does not exhaust the pool. Initially the heap has three entries
of three tiebreaks; seven allow a hand-out, its return, a flap and a stale
entry that becomes current again. `MaxIndex` lets the index go round a list of
three, two and one several times. Two units are the fewest of which a part can
be sent or received. One retry with three backends makes the bound on attempts
bind; two retries, the configured value, with three backends make the pool the
bound. Two addresses for three connections make a reuse necessary, and three
generations an older entry of the same connection. In `deadlines` the cap on a
select is two units and the shortest timeout one, so that a select that ignored
the heap would sleep past a deadline. In `selector` four descriptors are those
of two clients and two backend sockets, so that a third socket waits for one to
be closed and numbers must be used again, by either connection; two retries are
the fewest with which a socket is lost and another one opened after it. Three
workers let one be in the list, one be forked and one be unborn; two signals let
one be lost and the other be heeded. The messages of `http_framing` have up to
three header fields, two chunks, and bodies of every two CR, LF or data bytes,
or that look like the end of a chunked body, with what a pipelining client or
a confused backend may send behind them. Chunk sizes from -1 to -16 lead the scan
to every place before the size line, and below the first byte; Content-Lengths of
-1 and -15 end the body inside the headers and before them. `proxy_two` uses symmetry of connections
and backends, the deadline runs of connections; neither checks liveness.

**Fairness** is used in two runs. In `proxy_one`, for `EveryConnectionEnds`: weak
fairness of the steps inside `_fail_backend` (a handler that began goes on), of
`HandleTimeout` (a deadline of a live connection passes; `Deadlines` shows that
it is never lost nor slept past) and of `Reap` (every round of the loop reaps).
No fairness is assumed of clients, backends or the health checker. A peer that
trickles bytes moves its deadline for ever in the program; here a deadline
passes as long as the connection is not done, so the property is about peers
that do not. It is also taken for granted there that every handler returns, and
in `supervisor` that a worker's loop goes on, of which `HangsOnlyOnNegativeSize`
is the part that is not obvious: no parser but `try_consume_chunked_body` has a
loop that is not over a list, and that one ends unless a chunk size is negative.
In `supervisor`, for `OneEndsAllEnd` and `SignalEndsListed`: weak
fairness of the supervisor's steps, of its handler, and of each worker's
start-up and end, and its handler. The operating system runs every process and
delivers pending signals, and a worker leaves its loop because a select lasts at
most a second. Nothing is assumed of signals from outside or of crashes. The
other runs check safety only.

## Findings

- `Rotation` (`router.py:171`): `mark_healthy` pushes an entry although the
  one from before `mark_unhealthy` may be in the heap still. With equal counts
  both are current, and the backend gets two turns in a round.
- `CountsOnlyActive` (`connection.py:365`, `reactor.py:159`): a client that
  resets in the relay, or an exception in a handler, ends the connection
  without `on_disconnect`; the backend stays counted for the life of the
  process. `CountsExact` shows that nothing else makes the counts wrong.
- `RelayIsComplete` (`connection.py:298`): a body shorter than its
  Content-Length is relayed as if complete.
- `NeverPremature` (`reactor.py:131`): an entry left by a freed connection is
  taken for that of a new one with the same `id()` and generation, which is
  then timed out early. `EarlyOnlyByReuse` shows that this happens to none that
  was not given the `id()` of a closed one.

The following are consequences of the code as well, some of them against a
comment; they have no run of their own. The named property holds, and says
how far the code goes.

- A failed backend whose replacement fails at once is overwritten in
  `pending_backend_unregister` and its key stays (`StaleOnlyIfLost`), against the
  comments at `connection.py:118` and `reactor.py:219`. A backend
  socket that gets its number later is not registered, as `register` fails, and
  its connection waits for its timeout (`WaitingIsWatched`); a client that gets
  it makes `register` raise in `_accept`, outside the `try` of `_loop`, and the
  worker ends (`CrashOnlyIfLost`).
- A worker that a signal reaches before `start()` sets `_running` (`reactor.py:86`)
  or while it has the supervisor's handlers goes on (`deaf`), against the
  intention of `main.py:84` and `main.py:153`; one that was forked but is not yet
  in the list is not told (`unlisted`), nor are those forked after.
- A chunk size with a minus sign, which `int(size_token, 16)` reads
  (`http_parser.py:231`), moves the scan of a chunked body back. It may then come
  to the same place again and again, and the loop never ends, nor does the
  reactor go on. `try_consume_chunked_body` says that it "Returns `None` if more bytes are
  needed" (`http_parser.py:213-216`) and of what does not parse that it is treated
  as incomplete (`http_parser.py:233`). `HangsOnlyOnNegativeSize` shows that
  nothing else keeps it from returning.
- A negative Content-Length of a request takes the body's end before its start,
  so there is none, unless it reaches behind the headers' length: then the slice
  (`http_parser.py:95`) counts from the end of the buffer, and bytes that follow
  the request become its body (`FoundToTheByte`, `ForwardedIsTheRequest`). In a
  response it is as if it were absent (`connection.py:343`).
- An idempotent request with attempts and backends left is not always tried
  again. `HandleTimeout` answers 504 also when it was the connect of the first
  attempt that took too long (`connection.py:167`); a backend that closes before
  it has sent a byte is relayed as an empty response (`connection.py:286-299`);
  an exception ends the connection. `UnansweredHasReason` shows that there is no
  other way, but that the client is gone itself.
- Bytes behind a chunked response without trailers are taken for trailers when
  they hold a blank line, against `http_parser.py:213-216`, `connection.py:337` and
  `tests/TESTING.md:162`, where they are ignored; and all that has come is relayed of a response with a
  Content-Length (`FoundToTheByte`). Of repeated headers the last one is
  forwarded (`ForwardedIsTheRequest`).

## What is proved

For every value of the constants that meets the named assumptions
(`ConfigAssumption` of either router, `DeadlineAssumption`,
`ParameterAssumption` of the connection, `SelectorAssumption`,
`ProcessAssumption`, and `TextAssumption` and `MessageAssumption` of the parser):

*LeastConnections* (`LeastConnections_proofs`): `TypeOK`, `TiebreaksUnique`,
`HealthyAreSelectable`, and `ImplementsLeastLoaded`. `HealthyAreSelectable` is
inductive together with `TypeOK`: an operation that changes a count pushes an
entry with the new one, and `next_backend` drops an entry only if it is stale,
its backend is out of the pool, or it was chosen. The refinement follows from
it: the chosen entry is the first of the current ones, every candidate has a
current one, so its count is the least of theirs; and when nothing is
selectable, every healthy backend is excluded.

`RotationBeforeFlaps`, of the router with the history of its turns, if no
backend is configured twice. Until a backend comes back, an idle one has one
entry with count 0 and a busy one none (`OneZeroEntry`); whoever is owed a turn
is idle and its entry with count 0 is older than that of who owes it
(`OwedAreOlder`), so it would have been chosen first. The first of these is
what `mark_healthy` breaks.

`LeastLoaded` in turn implements `BackendPool`, the least loaded of the
candidates being one of them (`LeastLoadedIsPool`), and so does the router with
its heap (`HeapIsPool`): what `ProxyConnection` relies on holds for both routers.

*RoundRobin* (`RoundRobin_proofs`): `TypeOK` and `ImplementsPool`. The heart is
`ScanMeetsAll`: from any index, `n` steps modulo `n` meet every position, from
the uniqueness of division, so a scan that finds only excluded backends has
seen the whole list. Removing the first occurrence of a backend leaves the set
of members as it was (there was a second one) or without it.

`Rotation`, if no backend is configured twice: what the backend at the `k`-th
place from the index owes is among the places before it (`OwedAreAhead`); a turn
moves every place by one, and the first to the end, since the scan meets none
twice (`ScanMeetsOnce`).

*Deadlines* (`Deadlines_proofs`): `TypeOK`, `LiveAreScheduled`, `NeverOverdue`,
`EarlyOnlyByReuse`. `LiveAreScheduled` is not inductive: `_reap` takes an id out
of `_conn_by_id`, so the invariant adds that a connection that is done but not
reaped has its id as well (`Registered`), from which no live connection shares
it. `NeverOverdue` follows: the entry of a live connection is valid, so the
select timeout is taken from an entry no later. `EarlyOnlyByReuse` needs the
provenance of entries: each was pushed for a connection that has or had its
id, with that connection's deadline if the generation is still its own
(`Provenance`), so an entry that is taken for an early one was another's.

*ProxyConnection* (`ProxyConnection_proofs`): `TypeOK`, `AttemptsDistinct`,
`WholeRequestSent`, `RelayIsOneResponse` and `CountsExact`. The invariant is
about one session at a time (`SessionInv`): the attempts are as many as the
backends tried, what was forwarded is what the present backend has received
(`fwd = rcvd`), and the buffer holds bytes of no other. The counts are the one
thing that sessions share: `Counted` says they are the number of sessions that
hold each backend, and `Move` that a step changes one session, and the count by
what that session took or gave back. Each handler is shown to be a `Move` that
keeps `SessionInv`; that a `Move` keeps the whole is shown once.

*ProxyConnection implements Exchange* (`ProxyExchange_proofs`). An answer is
begun by an error page or by the first bytes relayed. `AnswerOK` says where a
session may have begun one: no page before it is over, no bytes before the
relay, and none that `_client_bytes_sent` does not tell of; this keeps a timeout
and a retry from adding to an answer. `UnansweredHasReason` follows from
the same invariant, by the handlers in which a connection can end. In
`_fail_backend` nothing was sent yet, so `_can_retry` can only refuse an
idempotent request for the number of its attempts, and the router's promise
does the rest; everywhere else, the reason is one of those the property names.

*Supervisor* (`Supervisor_proofs`): `TypeOK`, `NoneLeftBehind`,
`CodeTellsCrash`. The list that the supervisor waits by lags behind the forks;
`Listed` says how far, by where the supervisor is, and `CodeSoFar` what the exit
code tells before all have ended.

*Selector* (`Selector_proofs`): all its properties. Three invariants, each
resting on the one before. `IInv` follows sockets and keys: an open socket is the
client's or the `backend_sock` of its connection (`ConnOK`); a key is of a
socket that is open under that number, or is in `pending_backend_unregister` in
a dispatch under way, or is lost (`KeysOK`). `WInv` says that every connection
is watched, also in the middle of a dispatch (`WatchedOK`): the client from
accept to reap, the backend's socket between dispatches, and in one, what
`Settle` has still to do, by the state before it and the pending socket
(`Unsettled`). It rests on that a call of the selector changes only the key
under its own descriptor (`SameBut`). `TInv` bounds attempts and descriptors.

*HttpFraming* (`HttpFraming_proofs`): `TypeOK`, `HangsOnlyOnNegativeSize`,
`FoundWhenWhole`, `FoundToTheByte` and `ForwardedIsTheRequest`. The invariant is only that the
buffer is a prefix of the message (`Reading`); what has to be shown is what the
parser finds in a prefix.

- `Follows(b, at, t)` says that the buffer `b` goes on with `t` from a place, as
  far as it reaches. Each part of the grammar has one lemma that reads it
  (`HeadRead`, `ChunkRead`, `TrailerRead`), for buffers that end before it, in it
  and behind it.
- The end of the headers is the first blank line, since no field is a line end
  (`BlankLineIsLast`); chunk data and bodies may hold any number of them, and
  the scan skips them by their size (`ChunksRead`). Without a negative size each
  chunk takes one round, at most, and the one after the last chunk returns
  (`ChunkedBodyRead`), from which `HangsOnlyOnNegativeSize`. What follows an empty
  trailer is where the code may take more than the message (`TrailerRead`).
- The dict has the last value of each name (`DictIs`), and reading it back gives
  it again (`DictOfDict`): so the forwarded request, with one field more or one
  changed (`InjectForwardedForIs`), is a request again (`ForwardedRead`).
- The scan and the two loops over fields are recursive functions. That there is
  a function that meets each of their equations is proved (`RecursionExists`),
  and what it computes by induction over the set of the places where it does so:
  a set of naturals has a least element. The library's
  induction theorems, which take an operator, are not needed for that.

The proofs assume the models, as TLC does: the bounds `MaxTiebreak`,
`MaxIndex`, `MaxGen`, `MaxTime`, `MaxSignals` and `MaxDescriptor` are arbitrary
in them.

Every safety property of a passing run is a theorem. Only checked by TLC are
`EveryConnectionEnds`, `OneEndsAllEnd` and `SignalEndsListed`: liveness under
fairness is beyond the prover.

## Not modelled

- *Configuration* (constants), *logging* and the *access log* with
  `parse_response_status`, which it alone uses: nothing depends on them.
- *Mock backends*: a backend is an environment that may send, stay silent,
  reset or close at any moment.
- The *command line* of `main.py`.
- The *health checker's sweep*, one probe after another with a pause. Its marks
  come in any order and at any moment in the models, which allows every delay
  between a probe and its mark, so nothing the properties say depends on it. Its
  `stop()`, which waits a limited time for a thread that dies with the process
  in any case, is a step of a worker's end.
- The *text* of names, numbers, start lines and error pages: `HttpFraming` takes
  a field or a number as read. A size or a start line that does not parse, and a
  header line without a colon, is a symbol of its own there; messages with each
  of them are sent.
- *Memory*: the router's heap may grow without limit (`router.py:157`), and a
  peer that trickles bytes keeps its connection; nothing in the repository
  promises otherwise.
- Work done for nothing: a client's socket stays registered for reading while it
  is not read (`reactor.py:268`).

Nothing else of the program has state that the properties could depend on. A
closer model of the health checker's sweep would be the next thing, once a
property is about when a change of a backend's health is noticed.
