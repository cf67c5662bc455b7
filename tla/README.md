# Verification of cpp-demo

TLA+ models of the concurrent programs of this repository, checked with TLC on
small instances and, where it matters most, proved with TLAPS for every value
of the constants. The repository is a collection of independent demonstration
programs; the ones with state, threads and protocols of their own are modelled,
the ones that call a library and print are listed below and left out.

## 1. Inventory

| Component | State it keeps | Operations | What is hard |
|---|---|---|---|
| `grpcdemo/server_async.cc`: asynchronous server | `sessions_`, `session_id_allocator_`, `running_`, `server_`, two completion queues; per session `status_`, `message_queue_`, `request_` | `Start`, `Stop` (in the signal handler), `AddNewSession`, `GetSession`, `RemoveSession`, `ProcessEvent`, `SendResponse`; accepter, worker and broadcast loops | three threads, a signal handler, tags that come back after their session is gone, shutdown in the middle of anything |
| `grpcdemo/client_async2.cpp`: client with callbacks | `running_`, `g_running`, the stream, the queue, one context per request | `run`, `sendRequest`, `stop`, the callback thread, `signalHandler`, `main` | `stop` from two places, a tag shared by start and reads, callbacks that must be called once |
| `misc/producer_consumer.cpp` | `buffer`, `notified`, the condition variable | `producer`, `consumer` | the lock is dropped between test and use; spurious wakeups |
| `abseil/abseil_sync.cpp` | `inventory`, `stop` | conditional critical sections with timeouts | unsynchronised `stop`, a timeout that also returns with the lock |
| `asio/timer/*` | `count_`, timers, a strand | self-rearming handlers | two handlers on two threads, kept apart by the strand |
| `asio/allocation`, `asio/daytime`, `asio/buffer` | a connection, one slot of handler memory, a reference-counted buffer | accept, read and write handlers | objects kept alive only by their handlers |
| `tls/*`, `http/tcp_reuse.cpp` | a socket and an SSL object, a saved session | connect, handshake, write, read, close | order of calls, error paths that leave early |
| `misc/fsmlite_test.cpp` | parser state, the request, a buffer | 32 rows of a transition table | boundaries (body length), results stored in copies |
| `grpcdemo/service_impl.cc`, `client.cpp`, `client_async.cpp`, `server.cpp` | streams, `running_` | the handlers of the RPCs, a writer thread in one client, two threads and a signal handler in the other | flow control in both directions, half-closed and cancelled streams |
| the rest | none that lasts | library calls | nothing a model would tell |

How they interact: the greeter programs talk over one gRPC stream `SayHello3`,
a sequence of requests in one direction and of replies and broadcasts in the
other. Inside a greeter program, threads share the objects named above and
exchange *tags*: an operation (`RequestSayHello3`, `Read`, `Write`) is started
with a tag, and the tag comes back from a completion queue, with `ok`, when the
operation is over. The synchronous service and its two clients use the same
interface with blocking calls. `asio/allocation/client.cpp` talks to any of the
asio servers over one socket; the HTTP and TLS programs talk to servers outside
the repository. The other programs do not interact.

What makes each modelled component correct:

* **Server.** One `Read` and one `Write` per stream at a time, although two
  threads write; responses leave in the order of acceptance and none is stuck
  in the queue; replies match requests; a tag is processed by the session it
  was made for, in a status that expects it; no session stays in the map for
  ever; there is always one session to accept the next client, and none is left
  when the accepter has gone; nothing is broadcast to cancelled sessions; a signal
  ends the process.
* **Client.** One `Read` at a time; a request's context is freed and its
  callback called once, after gRPC gave the tag back; no join waits for ever.
* **Producer and consumers.** No lost wakeup, no item lost, repeated or
  reordered, everything consumed in the end.
* **Inventory.** Changes only under their condition, each printed before the
  next; the test ends although `stop` is a plain `bool`.
* **Streams.** A call that ends well is complete and in order; nobody waits for
  somebody who waits for him; a signal ends the client.
* **asio servers.** A connection lives exactly as long as its operations, one
  handler storage is enough for every operation that fits into it, what is echoed
  is what was sent, no client waits for ever.
* **HTTP and TLS.** The socket outlives the SSL, a response belongs to its
  request, a session is kept only once its handshake is over and never offered
  together with false start, the program ends unless a silent server holds it.
* **Parser.** The fields of an accepted request read back as the request, the
  body ends where its length says.

The places in the code that are hard to test are listed as hazards in
`PROJECT.json`, each with its line and the properties that watch it.

## 2. Modules

| Module | Models | Uses |
|---|---|---|
| `GreeterSession` | class `GreeterSession`, tags, and gRPC as the server uses it | |
| `GreeterServer` | class `GreeterServer`, its three threads, `Start`, `Stop`, the clients | extends `GreeterSession`, instantiates `ResponseFifo` |
| `ResponseFifo` | abstract: what one stream promises | |
| `GreeterServerProofs` | theorems on `GreeterServer`: its sessions, shutdown, the refinement of `ResponseFifo`, the order of replies | extends `GreeterServer` |
| `GreeterClient` | `client_async2.cpp` | |
| `GreeterClientProofs` | theorems on `GreeterClient` | extends `GreeterClient` |
| `ProducerConsumer` | `producer_consumer.cpp` | |
| `ProducerConsumerProofs` | theorems on `ProducerConsumer` | extends `ProducerConsumer` |
| `GreeterStream` | `service_impl.cc` composed with `client.cpp` and with `client_async.cpp` | |
| `GreeterStreamProofs` | theorem on `GreeterStream` | extends `GreeterStream` |
| `Inventory` | `abseil_sync.cpp` | |
| `InventoryProofs` | theorems on `Inventory` | extends `Inventory` |
| `AsioEcho` | `asio/allocation`, `asio/buffer` and `asio/daytime/server_async.cpp` composed with `asio/allocation/client.cpp` | |
| `AsioEchoProofs` | theorems on `AsioEcho` | extends `AsioEcho` |
| `HttpsClient` | `tls_session_ticket.cpp`, `tls_false_start.cpp`, `tcp_reuse.cpp` and their server | |
| `HttpsClientProofs` | theorems on `HttpsClient` | extends `HttpsClient` |
| `HttpRequestParser` | `fsmlite_test.cpp` | |
| `HttpRequestParserProofs` | theorems on `HttpRequestParser` | extends `HttpRequestParser` |

### GreeterSession and GreeterServer

*State.* Variables carry the names of the members without the underscore
(`status`, `message_queue`, `request`, `running`, `server`, `sessions`,
`session_id_allocator`); `sessions` is the key set of the map, and the members
of the session objects are functions of the id, because an id is never given
twice. The program counters `main_pc`, `stop_pc`, `accepter_pc`, `worker_pc`
and `broadcast_pc` say where each thread is; `stop_pc` belongs to the signal
handler, which runs on top of the main thread. `accepter_got` and `worker_got`
hold the tag and `ok` between `Next` and the end of the loop body.

*gRPC.* `op[s][e]` follows an operation: `idle`, `pending` once it is started,
`ok` or `fail` when its tag is on the queue, `idle` again when a thread took
it. `call[s]` is the call behind a session: `open`, `half` (the client called
`WritesDone`), `ended`. A pending `Read` completes with a request, or fails on
a half-closed or ended call; a pending `Write` succeeds on a live call and fails
on an ended one; a pending accept completes with a client, or fails when the
server shuts down. `Next` returns false when the queue is shut down and nothing
of it is outstanding. Breaking gRPC's contract sets `fault` and ends the
process: an overlapping operation, an operation on a queue after its
`Shutdown`, `Shutdown` through a null `server_`. A completion of an operation
whose session was destroyed is undefined behaviour: the tag may arrive
(`WorkerNext`) or the process may go down (`WorkerNextFreed`).

*Locks and steps.* A session's `mutex_` is held for one step only, so
`ProcessEvent` and `SendResponse` are single steps. `mutex_sessions_` is held
over several steps by the broadcast thread (shared, until the end of its sleep)
and by `Stop` (exclusive, while it cancels): `SharedHeld` and `ExclusiveHeld`
say when, and every other user of the map is guarded by them. The three threads
are born in one step; a thread that is born later is one that is scheduled later.

*Data.* A tag keeps its arithmetic: `id * 4 + event`, modulo `TagSpace`, taken
apart with division and remainder. A message is the number of the request it
answers, a broadcast is 0. `wire[s]` is what was given to `stream_.Write`; it
is a history variable, like `rounds`.

### GreeterClient

`main_pc` follows `main`, `run`, `sendRequest` and the destructor; `stop_pc`
follows `stop`, which the destructor calls and which the signal handler runs on
top of main; `callback_pc` is the callback thread. `read` is the operation with
the tag `nullptr` (the start of the stream and every `Read`), `write[r]` that
of request `r`, `result[r]` what its callback was called with. `run` is three
steps, `RunEnter` (`running_ = true`), `RunStream` (`AsyncSayHello3`) and
`RunThread`: a signal may come between any two, and one before `RunStream` has
the call started on a queue that is shut down. Faults are
overlapping operations, an operation after `cq_.Shutdown()`, a queue destroyed
with tags in it, and `stop` on a destroyed client. `Next` returning false (line
41) has no action: a `Read` is always under way when the thread waits
(`ReadUnderWay`), so the thread leaves through a failed completion instead.

### ProducerConsumer

Everything is touched under `mtx`, so a critical section is a step: `Produce`
(sleep, lock, push, set, notify), `Test` (lock, test `notified`, wait or
unlock), `Drain` (after the sleep: lock, empty the buffer, clear the flag).
`SpuriousWakeup` may end any wait. `consumed` is a history variable.

### GreeterStream

`net` is the call as gRPC keeps it: the messages under way in each direction, at
most `Window` of them before a `Write` blocks, the client's half-close, whether
the status is out, and whether the call is broken (`Break`, or `TryCancel` in
`stop`). A handler is a record: where it is, the names it has read, what is left
to write. `ServerRead` and `ServerWrite` are gRPC's calls, which hand over to
`SayHello` to `SayHello3`. In `client.cpp` `NextCall` goes from one block of
main to the next, whatever the status was; only `SayHello3` has a writer thread
beside the reader (`TwoThreads`). In `client_async.cpp` the signal may come
between `running_ = true` and the creation of the stream (`SetRunning`,
`StartStream`): the call is then born cancelled.

### Inventory

A pass through a thread's loop is `Test`, then `LockWhen` or `Timeout`, `Change`
and `print_inventory`, `Unlock`; the lock is a set of holders so that a mutant
can release it early. The data race on `stop` is the variable `seen`: each
thread goes on reading false until the store reaches it (`StoreArrives`).

### AsioEcho

One thread runs each server's `io_context`, so that a completion with its
handler is one step. Of a connection, `ops` are the operations asio has
outstanding, and `self` those among them whose handler holds a reference: each of
`doRead`, `doWrite`, `doWriteShared` and `handle` says for itself what its handler
captures, and `Release` destroys the connection when no reference is left, whatever
is outstanding. `allocate` and `deallocate` are those of `handler_memory`, called
by asio around every operation; `heap` is the set of operations that did not get
the storage, because it was in use or because they do not fit (`Fits`, line 17).
How large an operation is asio decides by its type, hence the constants
`ReadSize`, `WriteSize` and `SharedWriteSize`. `Completed` is external: asio
frees an operation before it calls the handler. A byte is the number of the line
it belongs to, so that `EchoIntact` can tell lines apart; the text around a line
is one byte on each side. `program` chooses the server: `data_` used for both
directions, a shared buffer per response, or one message and no read.

### HttpsClient

The three programs are one state machine because they are one text three times;
`program` chooses what differs: whether there is TLS, when the session is kept
(`Keep` right after the handshake, `KeepSession` after the first exchange) and
when it is offered. `peer` is the server: whether it has sent its part of the
handshake, requests it owes an answer to, pieces under way, whether it has hung up.
`faulty` is a history variable: the server or the network did something that leaves
requests and responses out of step.

`ssl.finished` says that the handshake is over. With false start enabled
`SSL_connect` may return before it is, and a read finishes it (`Read`, and perhaps
`ReadEnds`); `session.finished` is what it was when `SSL_get1_session` took the
session. Whether a server gives a ticket, and whether a session can then be resumed,
is the server's and OpenSSL's affair and not modelled. The deleter of the SSL is two
steps: `Shutdown` sends the close_notify and may be answered at once, fail or raise
SIGPIPE; otherwise `Goodbye`, the second `SSL_shutdown`, waits for the server.

### HttpRequestParser

`transition_table` has the 32 rows in the code's order, each with the name of its
action and of its guard, as the code's rows name member functions; `Guard` and `Do`
call them. `process_event` takes the first row that applies, as fsmlite does. A
text is a sequence of tokens. In a header line, where every row only appends, a
whole piece is fed in one step. `Atoi` has no width: the lengths that are
declared are taken to fit an `int`. `Request` comes from `base/http`, which is not
in the repository: `Init` assumes that a default-constructed one is empty. With
anything else in its method no request line would pass `isValidMethod`.

## 3. Runs

| Run | Instance | What it shows |
|---|---|---|
| `greeter_server` | 2 sessions, 2 requests each, 2 rounds | `NoOverlappedOps`, `WriteInFlight`, `RepliesInOrder`, and that the sessions implement `ResponseFifo` (`ImplementsFifo`) |
| `greeter_server_clients` | 3 sessions, no requests, 2 rounds | `TypeOK`, `NoOrphanSession`, `EventMatchesStatus`, `BroadcastBeforeCancel`, `ListenerArmed`, `NoListenerLeft` |
| `greeter_server_live` | 2 sessions, 1 request, 1 round, fair | `StopEndsProcess`, `RequestAnswered` |
| `greeter_client` | 3 requests, fair | `TypeOK`, `NoOverlappedRead`, `ReadUnderWay`, `ReportedMeansDone`, `ForgottenOnlyAtEnd`, `ClientExits` |
| `greeter_client_tags` | 2 requests | `EveryTagReported` is violated (see the finding) |
| `producer_consumer` | 2 consumers, 8 items, fair | `FlagMirrorsBuffer`, `NoLostWakeup`, `InOrderOnce`, `EveryItemConsumed` |
| `greeter_stream` | 4 names, windows of 1, fair | `CompleteWhenOK`, `ClientEnds`, `StopEndsRun` |
| `inventory` | 2 producers, 2 consumers, limit 2, fair | `InventoryInRange`, `ChangesPrintedOneByOne`, `TestEnds` |
| `asio_echo` | 2 connections, 2 lines of at most 2 bytes, fair | `HandlerKeepsConnection`, `StorageSuffices`, `EchoIntact`, `ClientAnswered` |
| `https_client` | 2 connections, 3 requests each, fair | `SocketOutlivesSsl`, `NeverResumesEarly`, `KeptSessionFinished`, `KeepAliveInStep`, `ProgramEnds` |
| `http_parser` | fields of 1 token, header text of 6 | `RequestLineRoundTrip`, `BodyMatchesFirstHeader` |
| `http_parser_body` | the same | `PostBodyRead` is violated (see the findings) |

*Bounds.* `MaxSessions` counts ids, one of which is always the listener: with 2
a client and a listener coexist, with 3 a client comes or goes while another
one is connected. Two requests and two rounds make a session queue a response
while it writes, from both threads. `TagSpace` is 2^64 in the code; the
instances take the smallest power of two into which their ids fit, so that a tag that needs
more bits would wrap. `ClientConnect` keeps one id free, so that the accepter is
never stopped by the bound. `MaxSends` stands for the 100 iterations of main;
three of them reach the first, an inner and the last one. `MaxItems` bounds the
producer; with eight items the two consumers go through every combination of
test, wait and stale drain several times over. After
`MaxRounds` rounds the broadcast thread begins no other and leaves its loop once
`running_` is cleared.

The streams need four names: both windows of one, the handler's hand and the
writer's are then full at once, which is where writing before reading deadlocks.
With limit 2 the inventory is empty, full and between, and both kinds of thread
wait in each. `Capacity` 4 lets a line with its text fit, and two lines read
together overrun it; `ClientBuf` 2 makes the client read a response in parts and
fall behind. Of the operations, those of `allocation.cpp` fit into the storage and
the write of a shared buffer does not, so that both branches of `allocate` are taken. Three requests on each of two connections have a first, a middle and a last
one, and a connection with and without a kept session. `MaxText` 6
holds two header lines, which is what the second line's fate needs.

*Fairness.* Weak fairness of each thread: the operating system runs a thread
that can run. Weak fairness of what gRPC completes by itself: a `Write` on a
live or ended call, a `Read` on an ended one, an accept on a server that shuts
down; a client is supposed to receive, and nothing is assumed of when it
connects, sends, half-closes or leaves, or of whether a signal comes. In
`ProducerConsumer` only consumers are fair. In `Inventory` a thread's step is
fair while it stays enabled, nothing is asked of the mutex, and a store reaches
every other core in the end. In `GreeterStream` and `AsioEcho` messages that
have somebody to receive them move on; signals, lost connections and the user's
next line need not come. In `HttpsClient` only the program is fair and nothing is
assumed of the server: `ProgramEnds` allows one way of not ending,
`<>[]AwaitsServer`, a connection that stays open and silent while the program is in
`SSL_connect`, in a read or in the second `SSL_shutdown`; there are no timeouts
against it. Runs with `CHECK_DEADLOCK FALSE` are of programs
that end. Two more remarks. `StopEndsProcess`
allows one way of not ending, `[]ClientHoldsServer`: a client that was accepted
when `Stop` went over the map but whose accept was not yet processed is not
cancelled (line 298), and `server_->Shutdown()` waits for it. And with
`MaxRounds` finite the broadcast thread does not take the shared lock for ever,
so that writers get the lock; the code relies on `std::shared_mutex` for that.

*Faults that are reachable.* In the server, once `Stop` runs: `AddNewSession`
(196, 221) or a `Read` or `Write` (106, 116, 122, 149) after a queue's `Shutdown`,
and `Shutdown` through a null `server_` when the signal comes between lines 175
and 183. The code has nothing against these that could be stated as a property.
In the client, overlapping `Write`s, the start of the call, a `Write` or a `Read`
after `cq_.Shutdown()`, a queue destroyed with tags in it and a signal after
`client.reset()` are reachable. They are listed as hazards with a note.

In `allocation.cpp` a block of nearly 1024 bytes makes the response longer than
`data_`, and line 122 copies it past the end: `overrun`, after which the model's
server stops. In the HTTP programs a write to a socket the server has closed may
end the process by SIGPIPE, and a failed connection ends it by `assert`; after an
invalid response the pieces that follow are read as the next exchange's. The
session `tls_false_start.cpp` keeps after a first exchange that failed may be of an
unfinished handshake; `KeptSessionFinished` is about the others. It says that the
session is taken late enough, not that it can be resumed: with TLS 1.3 a ticket
comes after the handshake or not at all, and the comment at line 241 only says
"might".

*Findings.* `fsmlite_test.cpp:115`: `onHeaderLineFinish` does not clear `temp_`,
so a second header line is appended to the first and becomes another value of
the first header. In main's own request `Host` comes first, the
`Content-Length` is never seen and the body is not read (`PostBodyRead`);
`BodyMatchesFirstHeader` is what does hold. `client_async2.cpp:45` leaves the loop on `!ok` before the tag is
looked at, so the branch of lines 62-65, which reports a failed request with
-1, cannot run: the callback of a request whose `Write` failed is never
called and its context is never deleted. `ForgottenOnlyAtEnd` says how far
this goes: it happens to the last tag taken, and only after the stream ended.

*Mutants.* For each property a definition is replaced by a plausible bug in the
same code (the operators marked "Mutant"), under which the property fails.

## 4. Proofs

`GreeterServerProofs` proves, for every number of sessions, requests and rounds
and every tag space with `4 * MaxSessions <= TagSpace` (`SessionAssumption`,
`RoundsAssumption`): `TypeCorrect`, `NeverOverlaps`, `QueueIsServed`,
`NoOrphans` and `EventsMatch`, the theorems for `TypeOK`, `NoOverlappedOps`,
`WriteInFlight`, `NoOrphanSession` and `EventMatchesStatus`.

None of the five is inductive. The reason is the same for all: `status_` is
only right if it agrees with operations that are inside gRPC or whose tags are in
the hand of a thread. The invariant `IInv` therefore says for every session
(`Consistent`): an id not yet allocated has nothing; a tag is in one place,
inside gRPC *or* in a hand; a session that waits to connect neither reads nor
writes and its accept is outstanding; a connected one has its accept behind it and a
`Read` outstanding; a ready one has no `Write` and an empty queue; a writing one
has a `Write`. `AccepterInv` and `WorkerInv` say that each thread holds tags of
its own queue only and processes events only of sessions still in the map: the
first because each loop only takes its own events, the second because the worker
removes connected sessions only and the accepter unconnected ones, so neither
takes a session from under the other. `TagRoundTrip` is the arithmetic: a tag
gives back its id and its event, and so different operations have different
tags (`TagInjective`). The preservation proof has one lemma per action that
touches a session and one frame lemma (`SessionFrame`) for all the others.

*Shutdown and the listener* are two more invariants beside `IInv`. `StopInv`
ties `stop_pc` to `running`, `server` and the two queues, and says that the
broadcast thread is out of the map while `Stop` holds it: from it follow
`NoBroadcastAfterCancel` (`BroadcastBeforeCancel`). `ListenerInv` says that, until
the server shuts down, no session waits for a client while the accepter is about to
add one, and exactly one does while it waits for a tag or holds the one it waited
for: `OneListener` (`ListenerArmed`). It also says that no accept is outstanding
once the accepter is outside its inner loop (`NoAcceptLeft`); since a session that
waits for a client has its accept inside gRPC or in the accepter's hand (`IInv`),
none is left then: `ListenerGone` (`NoListenerLeft`).

`ServerImplementsFifo`, in the same module: the initial states map
to initial states of `ResponseFifo`, and every step of the server is, for every
session, an `AcceptAndWrite`, `Accept`, `WriteNext`, `GoIdle` or a stutter of the
abstract stream. It rests on `IInv`: a
session's queue is empty when it is ready, so a response that is written at once
does not pass another one. `AnswersInOrder` is the theorem for `RepliesInOrder`;
its invariant `ReplyInv` adds that a `Read` that succeeded has brought a request
(`Counted`), that a session without a client has neither read nor written
(`Fresh`) and that only successful completions are processed
(`ProcessesSuccess`).

`GreeterClientProofs` proves the client's five invariants for every number of
requests: `TypeCorrect`, `OneReadAtATime` (`NoOverlappedRead`),
`WaitsWithReadUnderWay` (`ReadUnderWay`), `ReportsOnlyWhatIsDone`
(`ReportedMeansDone`) and `ForgetsOnlyLastTag` (`ForgottenOnlyAtEnd`). The
invariant follows a tag from gRPC to the callback thread's hand: the next `Read` is
started only by the thread that took the last one's tag (`ReadFollowsTag`), a
request not yet sent is untouched, a handled one was handled once, and a failed
completion means that the stream had ended.

`GreeterStreamProofs` proves `CallsComplete` (`CompleteWhenOK`) for every number
of names and every window. While the call can still end well (`Good`: not broken,
or broken after the status was out) the invariant says where each request and each response
is: read, in the handler's hand, under way, in the writer's hand or still to
write, and that these parts, put together, are all of them in order (`Upstream`,
`Downstream`, `Handler`). The status is the last thing the server sends
(`StatusLast`), so a client that sees it has taken everything before it.

`ProducerConsumerProofs` proves `NeverLosesWakeup`, `ConsumesInOrder` and
`FlagIsExact` (`FlagMirrorsBuffer`) for every set of consumers; the inductive
invariant is the conjunction of the type invariant and the three safety
properties. The stale test is harmless because the flag and the buffer change
together, in both directions.

`InventoryProofs` proves `InventoryStaysInRange` (`InventoryInRange`) and
`EveryChangePrinted` (`ChangesPrintedOneByOne`) for all sets of producers and
consumers and every limit. Neither is inductive: the invariant adds that a thread
between its lock and its unlock is the only holder, that a thread about to change
still has its condition, and that `last` equals the inventory whenever nobody is
between a change and its print.

`AsioEchoProofs` proves `ConnectionOutlivesOperations` (`HandlerKeepsConnection`),
`OneStorageSuffices` (`StorageSuffices`) and `EchoesInOrder` (`EchoIntact`) for
every set of connections and every size of the buffers, of the storage and of
asio's operations. The invariant of the first two (`OneOperation`) is that a
connection has at most one operation outstanding, that its handler is the one that
holds the connection, that it has the storage if it fits and memory from the heap
otherwise, `in_use` being exact (`Stored`; the daytime server has no such storage),
and that a `Write` stays within its response, so that `async_write` ends; a
connection not yet accepted is as it was made. The third has an invariant of its own, `EchoInv`: while a client is served,
what it has got, what is on the way to it, what is left of the response (`Rest`)
and what was not read yet are together all that it sent, the server's own text left
out (`Whole`). The lemmas it needs are about counting: a byte of the server's text
changes no count (`EchoInsert`, by a bijection between the positions), a
beginning counts alike (`EchoPrefix`), a line adds its length (`EchoAppend`). A
connection that is lost, and a server that overran `data_`, keep only what was
already written.

`HttpsClientProofs` proves four theorems for every number of connections and
requests. `SocketsOwned` (`SocketOutlivesSsl`) and `ResumptionExcludesFalseStart`
(`NeverResumesEarly`): `Owners` ties what is open to where main is;
`EarlyWithoutSession` is the reason for the second, false start is enabled only
as long as no session is kept, because `KeepSession` does both at once.
`ExchangesInStep` (`KeepAliveInStep`) and `SessionFinished`
(`KeptSessionFinished`) rest on `ExchangeInv`: as long as nothing was faulty, a
client outside an exchange has nothing owed or under way (`Quiet`), and inside one
the pieces the parser has taken and those under way make up one response, the one
to the current request (`Exchanging`); the session of
this connection was taken with the handshake over, because a read had finished it
or because nothing was started early, unless the first exchange brought no response
(`Kept`).

`HttpRequestParserProofs` proves `RequestLineReadsBack` (`RequestLineRoundTrip`)
and `BodyEndsInPlace` (`BodyMatchesFirstHeader`) for every `MaxField` and
`MaxText`, so for requests with fields and header lines of any length. Both
properties speak of the finished request only; the invariant (`IInv`, theorem
`ParserInvariant`) says for each state of the table what it keeps of the text.
While the line is read, its fields and `temp_` put together are what was fed
(`LineInv`). From then on the line ends at its first carriage return (`LineAt`).
`BlankInv` has the last tokens fed, by which the states of the headers differ:
from them it follows that CR LF CR LF occurs for the first time when
`Expecting_newline_3` takes its newline. `HeadersAt` is the
reason for the second theorem and for the finding above: `temp_` is not cleared
between two header lines, so every stored header begins with the first line, and
`contentLength()` finds the value of the first line or nothing (`FirstHeaderAt`).
`BodyInv` counts the body against that length. `FirstRow` goes through the table once:
a step is one of the 21 rows that go on, or one that leads to `Error`.

The two properties need facts about what is computed over a text of any length:
that a first colon exists where there is a colon, that `Atoi` is well defined, a natural
number (`AtoiNat`) and blind to what follows the first character that is no digit
(`AtoiStops`). The library's induction theorems have an operator as a
parameter and cannot be instantiated; `LeastElement` gets around that. It
derives from the well-foundedness of `<` that a set of naturals that is not empty
has a least element, and `UpTo` is the induction over a set that follows from it.

*What the proofs changed in the models.* The obligations for `HttpsClient` and
`GreeterStream` showed three `CASE` expressions (`Return`, `Parse`,
`AfterWrite`) whose guards overlapped: TLC takes the first arm that applies, but
the semantics of TLA+ leaves the choice open, so what was checked was not what was
written. They are `IF ... ELSE` now, as in the code; the state spaces are the same.
`RepliesInOrder` and `EchoIntact` speak of positions now and no longer select a
subsequence, which is the same statement without an induction over sequences.
The parser's rows name their guards, `process_event` says which row is first
instead of selecting it, and `Atoi` is a recursive function in place of a fold;
its state space, too, is the same.

*Only model-checked:* the liveness properties `StopEndsProcess`,
`RequestAnswered`, `ClientExits`, `EveryItemConsumed`, `TestEnds`, `ClientAnswered`,
`ClientEnds`, `StopEndsRun` and `ProgramEnds` (fairness and ENABLED are beyond the
prover), and the two runs that expect a violation. Every invariant, action property
and refinement of a passing run is a theorem.

## 5. Not modelled

`misc/lsignal.cpp`, `protobuf/*`, `std/*`, `memory/*`, `mpl/*`, `linux/*`,
`openssl/*`, `abseil/abseil_strings.cpp`, `abseil/abseil_callstack.cpp`: a
sequence of library calls whose results are printed, without state that
lasts and without concurrency. `asio/daytime/server_sync.cpp`, `client_sync.cpp`,
`asio/use_service.cpp`, `asio/asio_hello.cpp`, `grpcdemo/server.cpp` and
`test.cc`: blocking calls one after the other, or the construction of library
objects. `asio/timer/*`: handlers that count; that two of them never meet is
the strand's promise and not the program's. `misc/matrix_fast_power.cpp` and the
other small algorithms: no state. In the TLS programs the printing of session
details and the command line are left out. The proto files: layouts from which code is
generated. Logging is left out everywhere. In the server, a signal that is
delivered to a thread other than main (it could deadlock with itself on
`mutex_sessions_`) and a second signal while the first is handled are left out.

## 6. Plan

1. The timers with the strand as an abstract mutual exclusion.
2. The fast power of `misc/matrix_fast_power.cpp` against the naive one.
