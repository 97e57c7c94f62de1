# SKDB verification project

TLA+ models of the protocols and concurrent components of SKDB (the `sql/`,
`skipruntime-ts/` and `skiplang/prelude` parts of the repository), checked with
TLC on small instances and, where TLAPS can reach, proved for every instance.

## 1. The system

SKDB is a SQL database whose queries are kept up to date incrementally. A
browser or node client holds a local copy of some tables and mirrors them with a
server over one WebSocket. The repository also holds the reactive service
runtime built on the same engine, the Skip compiler and its libraries.

| Component | State | Operations | Talks to | What makes it correct |
|---|---|---|---|---|
| Mux, client (`sql/ts/src/skdb_orchestration.ts`, `MuxedSocket`, `Stream`) | socket state, active streams and their states, `nextStream`, watermark, re-auth timer | open, close, error, send on socket and streams; WebSocket events; re-authentication after an `await` | WebSocket; its users through callbacks | frames in order, nothing after the last word on a stream, no stream out of nothing or twice, half-closed streams settle |
| Mux, server (`sql/server/core/.../Mux.kt`) | the same plus session timer, locks, observers | the same plus session timeout and `verify` | undertow channel, worker and task pools | the same; and locks taken after the state was read must not act on a stale state |
| Connection callbacks (`sql/server/dev/.../Service.kt`) | the handler of each stream | `onStream`, `onData` on a worker, `onClose`, `RequestHandler`, `ProcessPipe` | Mux server, `skdb` processes | a stream whose peer closed is closed; a process does not outlive its stream |
| Resilient socket (`ResilientMuxedSocket`, `ResilientStream`) | current socket, queue of waiting openers, failure detector, ping in flight | reconnect, ping, replay of streams | Mux client | one connection at a time; whoever waits is served by a connect loop; streams come back, also when a stale ping has condemned a new socket |
| Requests and answers (`skdb_orchestration.ts`, `Orchestration.kt`) | unfinished message and finished messages of a decoder | encode, decode, cut into chunks, put together | Mux streams | the server reads what the client wrote; the client reads what the server meant |
| Replication, client (`SKDBServer`) and server (`Skdb.kt`, `SqlTailer.sk`, `SqlCsv.sk`) | tables, tail watermarks, acknowledged ticks, sessions, rebuild signals | mirror, tail, write-csv, diff, purge | resilient streams, `skdb` processes | local and remote copies converge, no write is lost, repeated or undone across reconnection |
| Local database (`skdb_skdb.ts`, `skdb_database.ts`, `skdb_storage.ts`) | watched queries, ids, queued notifications, shared output, subscriptions, stored pages | exec, insert, insertMany, subscribe, watch, watchChanges, close, save | engine, in-memory file system, the owners' callbacks, IndexedDB | every watcher ends up knowing the table, whatever callbacks do in between |
| In-memory file system (`sk_mem_utils.ts`, `sk_types.ts`, `sk_posix.ts`) | files, descriptors, observers, flags | open, write, close, watch | engine, local database | what is written reaches the observer |
| Database in a worker (`worker.ts`, `skdb_wdatabase.ts`, `skdb_worker.ts`) | pending calls, subscriptions, wrapped objects | post, answer, notify, wrap, forget | page and worker event loops | every call is answered once and every message finds its callback |
| Reactive runtime and its server (`Runtime.sk`, `core/src/index.ts`, `server/src/rest.ts`) | handle table, resource instances, marks of garbage, subscriptions, waiting snapshots | POST/GET/DELETE of streams, snapshots, PATCH of inputs, collection, close | SKStore, HTTP/SSE, external services | a stream tells the data as it is and its instance lives; a snapshot waits for nothing but data that is loading |
| External services (`helpers/src`, `adapters/postgres`) | timers, requests, EventSources, triggers, listeners | subscribe, unsubscribe, shutdown, polls, events, notifications | runtime, HTTP servers, other services, PostgreSQL | data follow the source; what was opened is released |
| Errors across Skip and JavaScript (`sk_types.ts`, `runtime32_specific.c`, `Exception.sk`) | `exn`, `Utils.exception`, the tables of JavaScript errors and of stacks | try, throw, rethrow, leave a region, report a failure | compiled Skip code, the program | what arrives is what was thrown, although addresses are used again |
| SKStore engine (`prelude/src/skstore`) | directories, dirty sets, ticks, reader graph | write, update, lazy get, purge | runtime, SQL | an incremental update equals recomputation |
| Persistent heap (`prelude/runtime/*.c`) | free lists, reference counts, global lock, root | allocate, intern, free, commit | processes sharing the file | no object is freed while referenced, by crash or race |
| SQL evaluator, compiler, libraries, examples, website | - | - | - | not modelled: sequential computation or presentation |

What is hard: independent schedulers (the JavaScript event loop with its awaits,
the worker's event loop, the server's IO thread, worker pool and timer, one `skdb`
process per replication stream) act on the same streams and tables; the connection
may break between any two frames and the ends learn of it at different times;
closing is done by halves at two levels (stream and socket); callbacks call back
into the component that runs them; identifiers and handles are given out again.
`PROJECT.json` lists the hazards at their lines.

## 2. The modules

| Module | What it is |
|---|---|
| `MuxWire` | frames, the two FIFO queues, readiness of both WebSocket ends, loss of the connection |
| `MuxClient` | `MuxedSocket` and `Stream` of the TypeScript client |
| `MuxServer` | `MuxedSocket` and `Stream` of the Kotlin server, with the development server's callbacks |
| `Mux` | the two ends composed; the properties and the inductive invariant |
| `MuxProofs` | theorems and proofs about `Mux` |
| `Resilient` | `ResilientMuxedSocket`, `ResilientStream`, the ping and SKDBServer's policy, over sockets reduced to what their owner can tell |
| `ProtoMsg` | requests and their bytes, answers in chunks, `ProtoMsgDecoder`, `makeRequest` and the methods built on it |
| `ProtoProofs` | theorems and proofs about `ProtoMsg` |
| `ServerTail` | one table from the server to the client: tail process, resilient stream, decoder, write-csv |
| `ServerTailProofs` | theorems and proofs about `ServerTail` |
| `LocalTail` | one table from the client to the server: the session's updates, write-csv processes, acknowledgements, diff on reconnection |
| `LocalTailProofs` | theorems and proofs about `LocalTail` |
| `Mirror` | calls of `SKDBServer.mirror` that may overlap, from the teardown to the promise |
| `MemFS` | files, flags and observers of the in-memory file system (used by `LocalDb`) |
| `LocalDb` | the JavaScript side of the local database: statements, watches, notification loop, subscriptions, reload |
| `ClientProofs` | theorems and proofs about `Resilient`, `Mirror` and `LocalDb` |
| `WorkerApi` | abstract: what the `SKDB` interface promises the page |
| `WorkerRpc` | the database in a worker; implements `WorkerApi` (`ApiRefined`) |
| `WorkerRpcProofs` | theorems and proofs about `WorkerRpc`, the refinement of `WorkerApi` among them |
| `SkipService` | a Skip service: handle table, instances, streams, snapshots, garbage, the requests of the REST server and of `SkipServiceBroker` |
| `SkipServiceProofs` | theorems and proofs about `SkipService` |
| `External` | polled, timer, remote and PostgreSQL external services and their sources |
| `ExternalProofs` | theorems and proofs about `External` |
| `Exceptions` | errors that cross between Skip and JavaScript in the WebAssembly build |
| `MC*` + `MC*.cfg` | roots of the TLC runs, one per module above |

Three compositions are modelled as such: the two ends of the Mux protocol over the
wire (`Mux`), page and worker over their channels (`WorkerRpc`), and the local
database over the file system (`LocalDb`, `MemFS`). The replication modules each
take the rest as environment: a resilient stream is a stream that may fail and
comes back (`StreamsReturn` of `Resilient` is why it does), with an unknown part of
what was sent delivered (Mux's `InOrder` is why it is a prefix).

### Correspondence

`MuxClient`: `cstate`, `cactive`, `cnext`, `cwater`, `ctimer` are the fields
`state`, `activeStreams` (its keys), `nextStream`, `serverStreamWatermark`,
`reauthTimer`. `cstream` is the `state` field of every `Stream` ever made: its
user keeps the object after it has left `activeStreams`. `csigning` says that a
`sendAuth` is suspended at its `await`: the one of `connect` ("first"), whose end
hands the socket to its user, or a later one ("again"). `csent`, `cgot` and
`ctold` record what users did and saw (data frames sent, ranks given to `onData`,
`onClose`/`onError` called). A JavaScript handler runs to completion, so each is
one action; only `sendAuth` is two (`AuthTimer`, `AuthSigned`), and so are
`onSocketClose` and `onSocketError`, which run the callbacks of streams and owner
before they write the state: `creturn` is the state still to be written, and until
`CliReturns` writes it the owner may call `errorSocket` (line 456 does) and nothing
else happens at the client. Cases in which a
handler does nothing (for example `openStream` on a closing socket, which
rejects) are not actions.

`MuxServer`: `sstate`, `sactive`, `sstream`, `snext`, `swater` as above;
`stimer` is the session timer: armed, due (ten minutes have passed and the task
pool has yet to run it) or off. A handler is one action. The server's `onClose`
callback (`Service.kt`) answers `onSocketClose` with `closeSocket` before the
handler returns, so `CLOSE_WAIT` is not a resting state, and `TypeOK` says so. A
worker is the user of a stream: it may send, fail or close a stream at any time.
`SrvRecvExpired` is the message that finds the session too old:
`errorSocket(1003)` and then, since the code does not return, the message itself.

`MuxWire`: send on a WebSocket that is not open discards the frame; frames in
flight to a channel that closes are lost; the WebSocket Close frame travels in
the same FIFO as the data. Browsers stop delivering messages once `close()` was
called while node's WebSocket does not: `HearsWhileClosing` is either. The loops
over `activeStreams` visit them in insertion order in the code and in any order
in the model (`Orders`).

Abstractions: a payload is its rank on its stream; error messages and
`lastStream` are left out; authentication either verifies or not; ping and pong
are in `Resilient`.

`Resilient`: `cur` is `this.socket`, `failed` says that `permanentFailureReason`
is set, `reconn` that a `replaceFailedSocket` is in its connect loop, and the
users in state "wait" or "queue" (and `closer`) are `socketQueue`. `pc` and `at`
say where the coroutine of each user stands: "open" is a `ResilientStream` with a
`stream`, or a `makeRequest` that awaits its answer; "ping" and "queue" are the
two awaits of `replaceFailedStream`. `timer` holds the streams whose
`failureDetectionTimeout` is set. `shut`, `closed` and `faults` are history. An
action is a turn of the event loop with its microtasks; the resilient socket is
only entered from timers, socket events and user calls, and what runs between two
turns cannot be interleaved with another event. Two orders inside a turn matter
and are kept: streams hear of the end of a socket before the resilient socket
does (`Evict`), and the queue is served in order when a `closeSocket` waits in it
(`AttachAndClose`, any order). A socket that the network forgot, or whose
WebSocket closed while `connect` was signing, is "mute": it looks authenticated
and nothing arrives. One fact about time is used: a health check (10 s) that
began before a socket was attached ends before a failure timer (60 s) armed on
that socket. `ResilientMuxedSocket.errorSocket` has no caller and is left out;
calls of the owner are made in separate turns.

`ProtoMsg`: a buffer is a sequence of numbers, one per header field and one per
byte of a text; `ShortMod` is the number of values of a 16-bit length field, which
the client writes modulo 2^16 and the server reads as signed, `MaxQuery` is
`MAX_QUERY_LENGTH`. A request is encoded, decoded and compared; answers are cut into
chunks with and without the fin flag, and other messages may come between them, on a
mirror's stream (popped as they come) and on a request's, where the last one is taken
when `onClose` comes: behind all chunks if the server closed the stream
(`RequestCloses`), with those in flight lost if the socket was (`RequestCut`).

`ServerTail`: `hist` is the server's table after each tick, `tombLimit` the tick up
to which it has forgotten removals, `tailMark` what the tail process has told, `wire`
the chunks in flight (`NoCheck`: cut before the checkpoint and its fin flag),
`table` and `watermark` the client's copy, `bufs` the decoder, which outlives the
streams. `partial` is history: the rows a first transfer had brought when it was cut.

`LocalTail`: write number t touches row `written[t]`; a payload is a set of writes
and a checkpoint. `acked` is the watermark of the feedback table, `seeded` where
rows from the server started it, `up` what each stream's process has yet to read:
processes of abandoned streams go on reading next to their successor. `Send` is
`ResilientStream.send`, which swallows data while it has no stream.

`Mirror`: `stage` and `setup` say where each call of `mirror` is, as a whole and for
each table; `localTailSession`, `mirroredTables` and `mirrorStreams` are fields of
`SKDBServer`, `sessions` and `openStreams` what the local database and the
connection really hold. Call 1 is the one `connect` makes. A stream that fails is in
`replacing` until it is attached again; the close of a later call does nothing to it
there, so it comes back and sends its old request: `revenants` are those.

`LocalDb`: all but storage is synchronous, so the interleaving is that of callbacks
that call back: `stack` holds the calls and callbacks that have not returned.
`marked`, `notifications`, `notifying`, `userFuns`, `funLastTick`, `freeQueryIDs`,
`queryID` are the fields of `LinksImpl`, `out` is `stdout_objects`, which nested
calls share. `disturbed` excuses two things the code does: a callback that throws
leaves the rest of its batch untold, and what a statement selects next to writing is
taken by a watcher. An exec of several statements may fail after some were committed
(`ExecFails`): it then throws past `notifyAllJS`, and what it marked stays marked until
the next call (`torn`). `close` is not guarded in the code, so a watch may be closed
again, by then with the id of another: that one is in `robbed`. `fs` is a `MemFS`: the engine opens a subscription's file with
flags, writes the rows and a checkpoint, and the close tells the observer. `save`
changes nothing, because `SKDBMemory.update` throws. `Reload` is a crash and restart
at any time: memory is lost, the stored image comes back.

`WorkerRpc`: `calls`, `callbacks` and `subscriptions` are the page's, `runner`,
`wrapped`, `wrappedId` the worker's; `running` are the promises `apply` waits for.
A promise already kept is answered in the same turn (`TurnOver`). The refinement
maps calls without outcome to `pending`, those with one to `done`, the database's
queries to `open`, and the watches whose close was answered to `closed`.

`SkipService`: a call into the native runtime does not yield, so a request handler
is one step, with the changes the runtime makes in it: instances swept, subscribers
told, handles registered and dropped. `handles` is the table with its free list,
`held` the native objects in use with the JavaScript object each stands for,
`dropped` those a finalizer has yet to release. A resource is the sequence of calls
its `instantiate` makes; its data are a version number. `resp` are the requests for
streams and snapshots; `left` says that the broker that asked has timed out.

`External`: each source is a version per key. Polls may overlap (`InFlight`), the
remote service's resource is made by a POST that the unsubscription may overtake,
the adapter's queries run in order and its setup is SELECT, CREATE FUNCTION, CREATE
TRIGGER. A write changes a row, removes it or gives it another key. `byText` are the
entries under the text of an integer key, which is how the driver returns a `BIGINT`.
`opened` are the instances `open_instances` has, also those unsubscribed while they
were set up. `early`, `missed` and `moved` are history: instances closed before they
were open, rows whose last write fell between SELECT and trigger, rows whose key was
changed. Taken for granted: the key column is unique; keys are in the range of exact
integers; an instance id is not used again; a notification behind the answer to
CREATE TRIGGER finds the listener registered.

`Exceptions`: `stack` are the frames of Skip and JavaScript code and of `etry`, in its
try or in its handler; `utils` has the variable `exn` of the C runtime and the fields
`exception`, `exceptions` and `stacks` of `Utils`. An exception is told from others by
its origin, the throw it began with, and may be at any address nobody holds. `Region` is
a try of `withRegion*`, whose handler copies the exception out of the memory it
destroys. `Fails` is the way a service call reports a failure: Skip has caught its own
exception, and JavaScript throws an Error made of it. JavaScript code called by Skip is
taken to let an Error thrown by Skip itself pass, as that of the repository does.

## 3. What the runs check

Deadlock checking is off except in `exceptions`: sessions end, and bounded clients stop.
Every bound is a constant of its module with a comment. `HearsWhileClosing = TRUE`
is the environment with more behaviours.

* `mux` (1 stream, which either side may open, 2 data frames per side, users send while
  fewer than 3 frames are queued, fair; the connection may break and users may close or
  fail sockets and streams at any step): `TypeOK`; `FinalFrame`, nothing follows
  the last word on a stream; `InOrder`, data reach a user without gap or
  repetition; `AnswerComplete`, when the server's close makes `onClose` fire the whole
  answer has arrived (of a lost socket this is not so, and `AnswerIsLast` of `proto` says
  what is); `StreamLifecycle`, streams only go forward; `ClosedIsFinal`, a closed client
  socket is left in two ways only, the resumed `sendAuth` and the return of an
  `onSocketClose` whose callbacks closed the socket, without any stream, and a closed
  server socket hands out no data; `ClosingEnds`,
  a stream half closed by the client is settled; `TeardownReaches`, the end of a
  channel reaches the other end; `PeerOpened`, streams exist only where the peer opened
  them and watermarks trail counters; `EndsAgree`, when both sockets are up and nothing is
  in flight, the two ends of a stream that both know agree. Two data frames are needed for
  order, three queue places for a close behind both. Streams meet only in `closeAll` and
  in the counters; the theorems about the safety properties are for any number of them.
* `resilient` (2 resilient streams, 2 requests, 2 failures among: the socket
  closes, falls silent, is refused, a stream is reset, a pong is late, a fresh
  socket is mute; fair): `OneConnection`, `NoOrphans`, `AttachedToLive`;
  `StreamsReturn`, every stream that is being replaced is attached again unless the
  connection was closed or refused; `SilenceIsNoticed`. A failure costs a socket and
  one more for each stream whose health check it leaves behind, so
  `MaxSockets = 1 + MaxFaults * (1 + |Streams|)` never binds; `StreamsReturn` would
  fail if it did.
* `proto` (length fields of 8 values, texts of up to 13 bytes, `MaxQuery` 12, so that
  lengths in the upper half of a field, lengths it cuts and queries above the maximum
  all occur; 5 chunks): `RequestUnderstood`, a request that fits is read as it was
  written, and what becomes of each kind that does not; `Reassembled` and
  `AnswerIsLast` for the two ways answers are taken, the latter also when the stream is
  cut.
* `server_tail` (2 rows, 4 versions, 2 failures, 1 purge; fair):
  `SnapshotUpToPartial`, a non-zero watermark names a version and the copy is that
  version, up to rows of a cut first transfer; `WatermarkForward`; `Converges`;
  `MirrorResolves`. Two failures are needed for a fragment left in the decoder by one
  stream to meet a stream that is cut again.
* `server_tail_ghost` expects a violation: without "up to", `SnapshotExact` is what
  the comment at `skdb_orchestration.ts:1587` says of a non-zero checkpoint. A row
  of a cut first transfer that is deleted before the client reconnects stays.
* `local_tail` (3 writes to 2 rows, 3 streams, 1 refusal, 1 purge; fair):
  `AckedIsApplied`, an acknowledged write is on the server or was refused;
  `ServerForward`, no process of an abandoned stream undoes its successor's work;
  `EverythingAcked`. Three writes let one row be written again across a failure.
* `mirror` (connect's call for three tables and one of: a call for a missing table,
  a call for a view and a table with the legacy schema; a request refused, a stream
  lost): `ReplaceSemantics`, every stream is known to the next call or is one that
  came back, and once the latest call is through and calls did not overlap all but
  those is its own.
* `worker` (4 calls out of 13 kinds, 1 notification; fair): `NoOrphanReturn`,
  `ClosedIsReleased`, `HandleValid`, the refinement `ApiRefined`, and `Answered`. Four
  calls are create, watch, its close and one more.
* `local_db` (5 operations, nesting 4, 2 watches, 1 subscription, 2 rows, one row per
  statement of `insertMany`): `WatchersRight`, `IdsDisjoint`. Four levels
  are a call, its loop, a callback and a call made by it.
* `skip_service` (three resources: map and reduce, external, failing; 2 instances, 2
  requests, 1 change): `StreamsRight`, an open stream is the one subscriber of
  an instance that lives and has told the current data; `HandlesRight`, a native
  object reaches its own object although ids are given again; `SnapshotsWait`, a
  snapshot that is not answered has an instance that lives, a checker in use and
  external data that is loading. That loading ends is up to the external service and
  is not claimed.
* `external` (2 instances of one kind of service, two integer keys, INTEGER or BIGINT,
  and a text key, 2 writes, 1 failure, 2 overlapping polls; fair): `Released`; `Follows`,
  but for what section 6 tells of the PostgreSQL adapter.
* `exceptions` (4 addresses, 5 frames, 3 throws; addresses are symmetric): `ErrorsArrive`,
  the Error that flies is that of the exception thrown last and a handler finds its own
  exception, with its own stack; `ExceptionIsHandled`, no Error outlives its handler in
  `Utils.exception`. Five frames are a handler, JavaScript it calls, and a try in what that
  calls; three throws are one for each and one more.

Fairness. Mux: a frame that has arrived is handled (the event loop and the IO thread
run), a signature completes, a lost connection is noticed (TCP and undertow's
close listener), and the worker runs `stream.close()` for a stream whose peer
closed, which `Service.kt` queues on the worker pool. Timers, users and the loss
of the connection are never forced. In `Resilient` timers fire, a health check
ends by pong or by timeout, and the connect loop succeeds some time after each
failure (the server can be reached again); failures are finitely many. In the tails
the processes run, the stream delivers and a failed stream is replaced, which is
`StreamsReturn`. In `WorkerRpc` both event loops
deliver and promises that wait for nobody are settled; nothing is assumed of the
network. In `External`
timers, requests, queries and events come, for each instance. `Mirror`,
`LocalDb`, `SkipService` and `Exceptions` state no liveness.

Every property has a mutant, a plausible defect of the code under which TLC
finds it violated; the mutated operators stand before the ones they replace.

## 4. What is proved

`MuxProofs`, for every number of streams, of data frames and of queued frames,
and for both kinds of delivery (assumption `MuxBounds`: `MaxId` is a positive
natural, the other bounds naturals):

* `TypeCorrect`: `Spec => []TypeOK`.
* `StreamInvariant`: `Spec => []StreamInv`.
* `LastWordIsLast`: `Spec => []FinalFrame`.
* `StreamsComeFromPeers`: `Spec => []PeerOpened`.
* `StreamsMoveForward`: `Spec => StreamLifecycle`.
* `SocketInvariant`, `FlowInvariant`, `EndingInvariant`: `Spec => []SocketInv`,
  `[]FlowInv`, `[]EndingInv`.
* `ClosedStaysClosed`: `Spec => ClosedIsFinal`, with its two ways out of CLOSED.
* `DataInOrder`: `Spec => []InOrder`; `AnswersComplete`: `Spec => AnswerComplete`.
* `EndsSettle`: `Spec => []EndsAgree`.

`FinalFrame`, `PeerOpened` and `StreamLifecycle` are not inductive. `StreamInv` adds that
every queue is `Consistent` with the stream states of its sender (a frame in flight is about a
stream its sender has, and a sender whose close or reset is in flight has ended
its half) and the `Counters` of both ends (a stream lies below the counter or
watermark it came from, active streams exist). With it: a sender adds frames only
for streams whose half is open, so never behind a last word; the head of a queue
names a stream the peer has, so what the watermark lets in was opened by the
peer; and an identifier above the watermark has no stream yet, so making one goes
forward. The proof goes action by action for each end (`CliUserLedger`,
`CliSystemLedger`, `SrvUserLedger`, `SrvSystemLedger`), then joins the ends.

The other four are about what is in the queues, and rest on three more invariants:
`SocketInv`, proved from `StreamInv`, and `FlowInv` and `EndingInv`, proved from both. `SocketInv` says which states of the sockets go
together: nothing is in flight to a server that closed its channel, a server that
sent goaway sends no data behind it, a client whose channel is open is before or
after its credentials, or has closed on a server that has too. `FlowInv` counts: on a stream whose receiver
still listens, the data in flight have exactly the ranks that follow what was
received, and, while the sender's channel holds or a close of the stream is queued
behind them, they end with the last rank sent. So the next frame has the next rank
(`InOrder`), and a close that is heard finds nothing missing (`AnswerComplete`).
`EndingInv` says that an end which closed or failed a stream has told the other:
its close or reset is in flight, or the other end knows, or the other end never made
the stream and nothing in flight can make it do so; and that a stream leaves
`activeStreams` of a working socket only when it is closed. With empty queues
only the settled pairs of states are left (`EndsAgree`).

`ClientProofs` on `Resilient`, for any sets of streams and requests and any number of
sockets and failures (assumption `ResilientBounds`: streams and requests are disjoint
and there is a first socket):

* `ResilientInvariant`: `Spec => []ResilientInv`, which includes `TypeOK`.
* `OneConnectionAlways`, `NobodyOrphaned`, `StreamsOnLiveSockets`: its parts
  `OneConnection`, `NoOrphans`, `AttachedToLive`.

The parts need each other and `SocketInv`: that nobody waits without a connect
loop needs that without a current socket there is a loop, a refusal or a closed
connection; that the loop does not leave a socket behind needs that it runs only
without one; that streams sit on live sockets needs that a socket which is closing
was closed by the owner. One lemma per action, each in the order types, sockets,
queue, users.

`ClientProofs` on `Mirror`, for any calls naming any tables, views, tables with legacy
schema and missing ones, and any number of refused requests and lost streams (assumption
`MirrorConstants`: the metadata tables are not views, as `privacy/init.sql` creates
them, and a table is of one of these kinds):

* `MirrorReplaces`: `MirrorSpec => []ReplaceSemantics`.
* `MirrorTypesRight`: `MirrorSpec => []MirrorTypeOK`.

That every stream is known to the next call, or came back after one had closed it, holds
whether calls overlap or not. The rest of `ReplaceSemantics` is about a call once it is
through; what holds on the way depends on how far it is and on what earlier calls left
behind. `MirrorInv` says, while no call has overlapped another: earlier calls are over and nothing of theirs is under way (`EarlierOver`); the streams
and the session in place are those of the latest call, or there are none
(`LatestServed`); its mirrored tables are those whose setup is done and that are not
views (`LatestTables`); and how far that call is decides which of its fields are set
(`LatestStage`). Streams that came back are of earlier calls. A setup that answers late, after its call was rejected, keeps this
because it only adds a table to `mirroredTables`.

`ClientProofs` on `LocalDb`, for any finite set of rows, any batch size, any number of
operations, watches and subscriptions and callbacks nested to any depth (assumption
`LocalDbConstants`):

* `WatchersKnowTheTable`: `DbSpec => []WatchersRight`.
* `IdsStayDisjoint`: `DbSpec => []IdsDisjoint`; `DbTypesRight`: `DbSpec => []DbTypeOK`.

`DbInv` is the inductive invariant, and its parts answer the ways in which nested
callbacks could go wrong. `IdsOwned`: an id with a callback is that of the watch it
calls, open and not robbed by a second close of another, although ids are freed and
taken again under the loop. `StackShape`: at most
one loop of `checkNotifications` is on the stack, exactly when `notifying` is set, also
after a callback has thrown. `SubsRight`: the files of subscriptions are closed and in
order, and their owners know the table; it needs that what `notifySub` writes is what
changed, which is shown through the flags of `MemFS`, the recursion over the files, and
`SetToSeq`. `TicksPast`: no tick the code remembers is ahead of the engine's. Unless
something has `disturbed` them: `Pending`, an owner that does not know the table has
its id in a batch that is queued or in the loop's, or is marked, which only a call that
failed after it wrote leaves behind; `MissedChanges`, what an owner of
`watchChanges` has missed has changed since the tick it will be told from, also when a
callback that is still running is about to set that tick to the one it was called with;
`OutputClean`, the output all calls share holds nothing that would reach the wrong
owner when the loop prints the next query; `NothingQueued`. So when the stack is empty
no loop runs, nothing is queued, and `Pending` leaves only owners who know the table
and, after such a failure, those marked.
TLC checks `DbInv` on the instance of `local_db` as well (not part of the run, which it
makes half as long again).

`LocalTailProofs`, for any set of rows and any bounds on writes, failures, refusals
and purges (assumption `LocalTailBounds`: rows are finite, bounds are naturals):

* `PushInvariant`: `Spec => []PushInv`.
* `ServerNeverBack`: `Spec => ServerForward`.
* `AckInvariant`: `Spec => []AckInv`.
* `AcksAreTrue`: `Spec => []AckedIsApplied`.

`ServerForward` is about steps and does not follow from the code of one step: a
process of an abandoned stream may still hold a payload made before its successor's.
`PushInv` says what every payload in flight holds, on live and abandoned streams
alike: of each row only the last write up to its checkpoint, with the checkpoint at
most the client's tick; and that the server's rows come from writes up to its
watermark. So a payload that is accepted, being ahead of the watermark, puts in place
of a row a write that is no older. That the payloads keep this while the client goes
on writing is `Growth`: what was a last write up to a checkpoint remains one. Each
action has a lemma that gives both `PushInv'` and the step property.

An acknowledgement is a tick, and says nothing of which writes arrived. `AckInv` says
why it may be believed: of the last write to each row up to the server's watermark,
up to what is acknowledged and up to every answer on its way, each is on the server,
was refused, or came before server rows started the watermark (`Covered`); a payload
ahead of the server's watermark skips no such write that is not in front of it on the
same stream (`PayloadsCover`, `CurrentCovers`); and nothing an abandoned stream
carries is ahead of the stream in use (`CurrentIsLast`), which is why the short cut
of write-csv for what it has seen throws nothing away.

`ServerTailProofs`, for any finite set of rows, any history of the table, any interval
of checkpoints and any bounds on failures and purges (assumption `TailBounds`):

* `TailInvariant`: `Spec => []TailInv`.
* `SnapshotStays`: `Spec => []SnapshotUpToPartial`.
* `WatermarkGoesForward`: `Spec => WatermarkForward`.

What the client will have depends on all the chunks in flight and on the decoder that
outlives the streams, so `TailInv` runs ahead: there is a sequence of client states,
the first the present one and each the one before after its chunk (`Delivered`), in
which every state is `Sound` (the copy is the version of its watermark up to rows of
cut transfers, and every diff that waits in the decoder is one from that version), and
the last has caught up with what the tail process has told. Receiving a chunk drops
the first state, a round of the process adds states at the end, a failure keeps only
the first. A diff left by a cut stream is harmless because applying the diff from t to
u after the one from t to s gives what the later one gives alone.

`ProtoProofs`, for any set of bytes, texts of any length, any number of chunks, any
`MAX_QUERY_LENGTH` and every width of the length fields of at least 6 values (assumption
`ProtoBounds`; the fields are 16 bits wide, and with 6 values the size of a batch of two
is not taken for a negative number):

* `ReplyInvariant`: `Spec => []ReplyInv`.
* `MessagesReassembled`: `Spec => []Reassembled`; `AnswersAreLast`: `Spec => []AnswerIsLast`.
* `RequestsUnderstood`: `Spec => []RequestUnderstood`.

`ReplyInv` runs ahead in the same way: the chunks in flight take the decoder from what
it holds to what the server means (`InStep`), and no chunk takes a message back, so
what was popped is a prefix, also when the rest is lost. `RequestsUnderstood` needs what `decodeProtoMsg` makes of
every encoding, batches of two tails included: the read of a batch is a recursive
function of the number of tails read, and the proof follows it from tail to tail.

`WorkerRpcProofs`, for any number of calls and notifications of any of the methods
(assumption `WorkerBounds`):

* `WorkerInvariant`: `Spec => []WorkerInv`.
* `NoMessageOrphaned`, `HandlesStayValid`, `ClosedReleased`: `NoOrphanReturn`,
  `HandleValid`, `ClosedIsReleased`.
* `ImplementsApi`: `Spec => ApiRefined`, the refinement of `WorkerApi`.

`WorkerInv` follows a call through the two channels: one without outcome is in one
place at most (`OnePlace`); a close that has run in the worker has left nothing there,
and no notification of the watch is behind its answer (`ClosesDone`, `NotesInTime`),
which needs that the channel to the page is FIFO; an entry of the wrapped table is of
one call and stays until a close is posted (`EntriesRight`). For the refinement each
action of the page and the worker is a step of `WorkerApi` or leaves its variables
alone; `WorkerApi` states no fairness, so its safety is all there is to implement.

`SkipServiceProofs`, for any resources (sequences of the calls `instantiate` makes), any
number of external services, instances, requests and changes (assumption
`ServiceConstants`):

* `StreamsStayRight`: `Spec => []StreamsRight`; `HandlesStayRight`: `Spec => []HandlesRight`;
  `SnapshotsWaitForData`: `Spec => []SnapshotsWait`.
* `ServiceInvariant`: `Spec => []ServiceInv`, the conjunction of what they need.

For streams, `StreamInv` adds that a stream is open on an instance clients may name and
a snapshot waits on one they may not, so that answering a snapshot marks no streamed
instance. For handles, `TableInv` adds that every id is that of a free slot, of an
object in use or of one to be collected, and of one of them only (`Partition`), and
that the service's own objects keep the first ids, so that the handle of an error is
never one of the two that stand for "unknown" and "in use". An `instantiate` registers
any number of objects in a row (`RegisterAll`), each of which keeps the partition.

`ExternalProofs`, for any finite sets of instances and keys and any bounds on writes,
failures and overlapping polls (assumption `ExternalConstants`):

* `ReleaseInvariant`: `Spec => []ReleaseInv`.
* `ReleasedStays`: `Spec => []Released`.

A trigger is removed by a query that waits behind others, so `ReleaseInv` describes the
queue: an instance is set up by at most one pending query and only while it opens (or
was closed before it had opened), a shutdown's drops come before the end of the
connection and name all that `open_instances` has, and a trigger whose instance was
closed has its drop in the queue. What was closed too early is let go of by the shutdown.

Recursive functions. The induction theorems of the library cannot be instantiated
here, but a least counterexample can be taken: a set of naturals that is not empty has
a least element (`Least`, from the well-foundedness of `<`). This is how the lemmas
about `RegisterAll`, `FlattenSeq`, `writeCsv`, `FilesAfter` and the read of a batch
are proved for every length.

Every invariant, action property and refinement that a passing run checks is also proved,
but for the two of `exceptions`. Only model-checked besides is liveness under fairness,
which is outside the prover's reach: `ClosingEnds`, `TeardownReaches`, `StreamsReturn`,
`SilenceIsNoticed`, `Answered`, `Converges`, `MirrorResolves`, `EverythingAcked`,
`Follows`. What some of them leave out: `Answered` all calls on
a remote; `EverythingAcked` takes an order
to rebuild for an end.

## 5. Not modelled, and what could come next

* The locks and threads inside the server's handlers (`Mux.kt`: the state is read,
  the lock released and taken again). A module `MuxServerThreads`, with the
  lifecycle of `Mux` as its abstract specification, is the first thing to add.
* Several clients of one server: conflicts between their writes and access rules.
* SKStore's incremental maintenance, SQL parsing and evaluation: large pure
  computations. Only what replication and subscriptions see of them is here.
* The persistent heap: memory layout in C.
* The glue between JavaScript and the engine (`skipruntime_module.ts`, the rest of
  `sk_types.ts`, the JSON converters, the native addon) that passes values through; the
  causes of errors; a null parameter of a call to the worker, on which `worker.ts:286`
  throws; integer keys of a database beyond 32 or 53 bits; reading and
  `appendToFile` of the in-memory file system; `storePages`, which no call reaches.
* `skdb_group.ts`: short sequences of statements whose meaning is that of the access
  rules.
* Compiler, `skargo`, JSON, date, TOML and semver libraries, command line, examples,
  editor support, website: sequential computations or presentation.

## 6. What the code does that a reader may not expect

Met while modelling; the properties are stated around them, and the models have them.

Mux and resilient socket
* `sendAuth` resumes after its await whatever happened meanwhile
  (`skdb_orchestration.ts:1057`), and the server's `onSocketMessage` handles the
  message for which it has just called `errorSocket(1003)` (`Mux.kt:564`), although
  `rfc/003-protocol.org:70` says that in CLOSED nothing may be sent or received.
  `onSocketClose` writes CLOSEWAIT over the
  CLOSED its owner's callback has set (939-945), on a WebSocket that is gone. On a
  client that still hears while it closes, a socket revived that way may have
  ignored the first frames of a server-opened stream; `InOrder` leaves those out.
* A stream pings the socket that is just closing; ten seconds later the missing pong
  makes `replaceFailedSocket` drop the socket that is current by then (520, 494).
* A resilient stream closed while it is being replaced comes back and sends its
  request again (552, 630), also one that `mirror` closed (1820).
* The loss of the socket is told to `makeRequest` as the same `onClose` as the end of
  the answer (939, 1531): the last message that arrived is taken for the answer.
* Lengths are written modulo 2^16 and read as signed: a schema query for a name of
  32768 bytes becomes one for all tables, a database is created under what is left of a
  name of 65536 and more (`Orchestration.kt:119`).
* A stream opened and closed without data is unknown to the server, which ignores
  its close (1546); `openStream` after `closeSocket` waits for ever (432).

Replication
* Rows of a cut first transfer survive (`server_tail_ghost`).
* The feedback watermark may start past writes that were never acknowledged
  (`SqlCsv.sk:381`); the purge limit may make a client that lost nothing rebuild
  (`SqlEval.sk:1760`), which `EverythingAcked` accepts; a refused write is not told to the application
  (`skdb_orchestration.ts:1633`).
* A call of `mirror` made while an earlier one sets up tables, or a retry after a
  rejected one, ends with the tables of both (1820-1832, where the comment says "mirror has replace semantics").

Local database and worker
* `save` always rejects: `dirtyPagesMap` has no value before `clear`
  (`skdb_skdb.ts:112`), so IndexedDB keeps the image of the first start.
* An exec of several statements that fails after the first leaves watchers untold
  until the next call (`skdb_skdb.ts:399`). Closing a watch twice may silence another
  that has its id by then (436).
* A watch with an invalid query keeps its id; files of subscriptions only grow;
  `withChange` reflects the last write only (`sk_mem_utils.ts:51`); the decimal
  `O_*` flags share bits, so append with create_new reads back as truncate. A
  subscription callback that runs a statement would overwrite the output of the
  call that notifies it; the model assumes it does not.
* Two `create` calls under way replace the database (`worker.ts:298`);
  `connectedRemote` before `connect` wraps undefined, and calls on it are never
  answered (`skdb_wdatabase.ts:259`).
* `SKDBGroupImpl.lookup` reads `adminID` for the owner (`skdb_group.ts:35-42`).

Reactive services
* DELETE only marks an instance, so a GET within the next 30 seconds subscribes to
  it; an instance that is never subscribed nor deleted is never collected. A snapshot
  waiting when the service closes is not answered, nor one of data whose external
  service never reports (`remote.ts:83` only logs a failed POST); `loading()` answers
  those of the waiting snapshots that are old enough with the old data.
* An external service that throws in `subscribe` leaves its context on the stack
  (`Runtime.sk:509`); the model assumes it does not.
* `getStreamUUID` takes the text of an error for a uuid, and one that times out
  leaves its instance behind (`helpers/src/rest.ts:217`); `fetchJSON` drops falsy
  bodies.
* A timer resource's tick erases its other names (`external.ts:99`). An instance
  unsubscribed while it is being set up leaves its EventSource, or its trigger,
  behind until the shutdown; PostgreSQL listeners are never removed. A write between
  SELECT and trigger is missed until the row is written again, a row
  that is given another key stays under the old one, a BIGINT key is a
  text in the first data and a number in what follows. A text key
  notified to a listener with integer keys ends the process
  (`adapters/postgres/src/index.ts:237`), and so does an unsubscription after the
  shutdown, whose query is refused.

Errors
* JavaScript code called by a Skip handler that caught an Error of Skip itself, and had
  Skip throw again from the same address, would make it throw the outer error
  (`sk_types.ts:520`); none in the repository does. A commit deletes an external
  exception that only a handler holds: thrown again it is "Unknown".
