# rpcx in TLA+

Specifications of the concurrent parts of this fork of rpcx. TLC checks them on
small instances; most of the safety properties, and that a client implements the
abstract call service, are also proved with TLAPS, for every value of the
constants. `PROJECT.json` lists components, runs, mutants of the definitions
that each property must notice, the source lines of each definition, findings,
hazards and theorems.

## The system

An rpcx program uses one side or both of the following.

| part | code | state | operations | module |
|---|---|---|---|---|
| client connection | `client/client.go` | `seq`, `pending`, `closing`, `shutdown`, `pluginClosed`, one seq cell per call | `Call`, `Go`, `SendRaw`, `send`, `input`, `heartbeat`, `Close` | `RpcClient`, `CallService` |
| shared clients of an XClient | `client/xclient.go` | `cachedClient`, the sticky client, breakers, singleflight, `mu`, `isShutdown` | `selectClient`, `getCachedClient`, `removeClient`, `watch`, `Close` | `XClientCache` |
| operations of an XClient | `client/xclient.go` | local variables, the channel `done`, a `MultiError` | `Call`, `SendRaw`, `Go`, `Oneshot`, `Broadcast`, `Fork`, `Inform` | `XClientOps` |
| discovery and selectors | `client/multiple_servers_discovery.go`, `client/selector.go`, `client/ping_utils.go`, `xClient.watch` | `pairs`, `chans`, one goroutine per update, `servers`, the selector | `Update`, `WatchService`, `RemoveWatcher`, `NewXClient`, `watch`, `Select`, `UpdateServer` | `Selection` |
| server | `server/server.go` | `activeConn`, `handlerMsgNum`, `inShutdown`, `doneChan`, the worker pool, `logicLockPool` | accept loop, `serveConn`, `processOneRequest`, `Close`, `Shutdown` | `RpcServer` |
| registration and one request | `server/service.go`, `server/plugin.go`, `server/pool.go`, the handling of a request in `server/server.go` and `server/context.go` | `serviceMap` and its RWMutex, the pools of argument and reply objects, the plugins, what they announce | `Register`, `RegisterFunction`, `UnregisterAll`, `Add`, `Remove`, the hooks, `readRequest` to `processOneRequest` | `Dispatch` |
| messages and buffers | `protocol/message.go`, `protocol/compressor.go`, `util/buffer_pool.go`, `util/compress.go` | header bits, pooled buffers with their contents, gzip buffers, the stream | `EncodeSlicePointer`, `WriteTo`, `Decode`, `Reset`, `Get`, `Put`, `Zip` | `Wire`, `BufferPool` |
| OneClient and its pool | `client/oneclient.go`, `client/oneclient_pool.go` | `xclients` and its RWMutex, the settings new XClients get | the double-checked creation, `SetSelector`, `SetPlugins`, `Auth`, `ConfigGeoSelector`, `Close` | `OneClient` |
| streams and file transfer | `server/stream.go`, `server/file_transfer.go`, `SendFile`, `DownloadFile` and `Stream` of `client/xclient.go` | tokens in an LRU cache, the accept loop, one connection per transfer | both sides of a transfer | `Transfer` |
| Redis registry plugin | `serverplugin/redis.go` | `Services`, `kv`, two locks, `dying`, `done`, `stopAttempt` | `Start`, refresh, `Register`, `Unregister`, `Stop` | `RedisRegister` |

How they interact: an XClient operation asks the selector for a server and the
cache for a client of it (`Selection` gives the first, `XClientCache` the
second, `XClientOps` uses both as "a client or an error"); each client is one
connection (`RpcClient`, of which `XClientCache` keeps whether it is alive); the
connection is served by a server (`RpcServer`); the plugin announces the server
to a registry, from which discoveries read. `Dispatch` is what `RpcServer` takes
as one step, the service of a request; `Wire` is what both sides take as a
message. Two modules are compositions: `Wire` runs `BufferPool` under the
encoders and the reader of one connection, and `Transfer` runs `OneClient`, the
service that hands out tokens, the accept loop and the connections together.

What is hard in this code: a call is completed by whoever takes it out of
`pending`, of which there are five; sequence numbers travel through a cell in a
context that callers may share; a client is shared by goroutines that fail at
different times; `Broadcast` dials while it holds the mutex; `Shutdown` polls a
counter that requests raise themselves; the Redis plugin must stop although
Redis does not answer; a request borrows objects that go back to their pools at
different places on different error paths; functions become visible before
their pools exist; buffers are reused with their old contents; a transfer is
started by whoever presents its token first.

## Modules

Sections under a mutex are single steps unless they wait for something. Messages,
payloads, names and errors are reduced to what the code tells apart. Names of
actions and variables are those of the source where there is one.

- **RpcClient.** `spc` is the program counter of the goroutine that sends a
  call, `cpc` that of its caller, `ipc` that of `input`. Responses arrive in any
  order, or never. `Panics` lets a codec or plugin panic while a response is
  handled. `slot` is what `context.Value(seqKey)` holds, so callers that share a
  context overwrite each other's cell, as in the code.
- **CallService.** What a client promises, without connections or numbers.
  `RpcClient` maps its state to it at its end (`Phase`, `AnswerOf`, `Outcome`;
  `ImplementsCallService`). `SafeSpec` is the part without fairness.
- **RpcServer.** `cpc` is `serveConn`, `rpc` the handling of a request, `spc`
  `Shutdown`. With `Workers > 0` requests wait in the pool's queue;
  `serveConn`, and with `AsyncWrite` a worker that has a response to write, wait
  when it is full. The pool is external: `Submit`, `Busy` and `Scheduled` model
  it, and tasks go on after `StopAndWaitFor` has given up. A `conn.Write` has a
  beginning and an end (`WriteReturns`), and until it returns it keeps its
  goroutine or worker. `early` records what had been read when `Shutdown` began.
- **XClientCache.** Goroutines in `Call`, `Go` or `SendRaw` (`Callers`) and in
  `Broadcast`, `Fork` or `Inform` (`Fans`), which keep `mu` while they dial.
  singleflight is external: `Join`, `Delivered` and `Forget` model `Do` and
  `Forget`. `Close` happens once.
- **XClientOps.** One operation in every fail mode. It assumes that selection
  gives a client or an error, which sticky selection does not guarantee.
- **Selection.** One client; the names of its specification begin with
  `Selection`. A minute's timeout of a sender may fire whenever
  the channel is full. In `BuildRing` sets of one element bind intermediate
  results, which TLC would otherwise evaluate again and again.
- **RedisRegister.** Redis is the set of nodes of this server. A write is
  applied, fails, or is applied while its answer is lost; it may also never end.
  `orphans` and `stranded` are histories that state the exceptions named below.
- **Dispatch.** `gpc` is the place of a registration, `upc` of `UnregisterAll`,
  `pc` of a request. `data` is the set of requests whose data an object holds, so
  that a reused object that was not reset shows. Loops over the plugins take one
  step per plugin and index the current slice, which `AddPlugin` and
  `RemovePlugin` change. A method or function has a signature (`Sigs`), which gives
  the types of its pools; a name may be registered again with another one. The
  functions of a service are read without the lock, in steps of their own
  (`Resolve`, `ReadFunction`). `MapFault` is the abort of the Go runtime when they
  are read while they are being written. What reflection finds in a receiver is
  chosen by `Ops`. `agreed`, `shifted`, `began`, `stayed` and `replaced` are
  histories.
- **BufferPool, Wire.** A byte of the header is the set of its bits; the stream is
  a sequence of cells: the header, a length, an element of a name or payload. A
  pooled buffer keeps its cells when it is reused. `Drafts` are the messages, `Zip`
  returns a slice of a pooled buffer, as in the code. A write that its deadline
  cuts leaves the connection open (`cut`); what follows the cut frame has no
  meaning for the reader, so its cells are left out and `Misread` gives any result.
- **OneClient.** `upc` is the place of a user, `gpc` that of a setter. Fields
  written before `RLock` are written in a step of their own. `newXClient` may
  fail, which leaves a nil XClient in the map.
- **Transfer.** Users send, download or stream; the call that asks for a token
  may fail or lose its answer and is retried; connections stall, break and are
  refused; the server's handlers are external.
- **MCRpcClient, MCRpcServer, MCSelection, MCWire, MCDispatch, MCTransfer** hold
  instances for TLC. The other runs use their module directly.

## Runs

| run | configuration | shows |
|---|---|---|
| `client_calls` | two callers with one context, or a one-way `Go` and two `SendRaw`; panics | replies are not mixed up (`OwnReply`), no completion signal is discarded, nothing is sent after close, a panic is the only way to lose a call (`NoCallLost`) |
| `client_live` | a caller and a heartbeat, contexts of their own | an unanswered heartbeat releases callers, a cancel removes its own call, refinement of `CallService` |
| `server_shutdown` | two connections, one not TCP, `LogicSync` requests of one user | started requests keep their response (`GracefulForStarted`), services of one user exclude each other |
| `server_live` | two requests or an idle connection, one worker and a queue of one, asynchronous writes without timeout, `Shutdown` or `Close` | `Shutdown` completes, `Serve` returns, connections are closed, every request that was read ends, unless a client never reads its response or the pool waits for itself |
| `xclient_cache` | a server, a caller, a `Broadcast`, two clients, breaker, sticky or not | no client known to be dead is handed out, late failures close no other client, searches end |
| `xclient_ops` | all operations and fail modes, no or two retries, two servers | `CallResult`, `NoRetryAfterAnswer`, `ForkReply`, `FanEnds` |
| `redis` | two services, one user, two goroutines that stop | no node comes back, `Stop` cleans up and is bounded, one cleanup at a time |
| `selection` | six selectors, four lists, two updates | selections come from the list in force, rounds are fair with and without weights (`SelectsFairly`), the last update arrives (`Converges`), senders end |
| `dispatch` | eight scenarios of requests, registrations, `UnregisterAll` and plugin changes | responses carry their own request's data, pools exist when needed unless a function is being replaced, calls are guarded by `PreCall`, announcements are served and withdrawn, requests end |
| `wire` | two writers, three messages of three kinds, two buffers | the reader gets what was written whole before the first frame that a deadline cut, and accepts nothing else unless one was cut (`ReadsWhatWasSent`), both encoders agree except where `WriteTo` gives up on a compressor, no buffer is shared |
| `wire_zip` | two writers that compress | *violated*: a gzip buffer is reused before its content was copied |
| `transfer` | an upload and a download, two streams, users and setters of the OneClients | one XClient per path, settings reach every XClient, a token starts the handler it was issued for, and is refused only when later ones crowded it out (`TokensDecide`), nil means that the file has arrived (`FilesWhole`), the accept loop goes on |

The bounds. Two callers, requests or servers give every pair of steps that can
interfere; a third adds no kind of step. In `client_calls` `MaxSeq` is the number
of calls. In `dispatch` a scenario fixes who takes part, because all of them
together are out of reach: every pair of a request, a registration,
`UnregisterAll` and a plugin change occurs in one, and so do two requests on one
pool, two registrations of one path, and a plugin that is removed and added
again during `UnregisterAll`; four objects are enough for two requests
that hold two each. In `wire` buffers of three sizes hold the messages, of which
one is too long for the reader and for the largest pooled buffer, one uses every
flag of the header, metadata and an unknown compressor, and one gzip. In
`transfer` files have at most `Size` chunks, `MaxTokens` allows one retry, and
`MaxIndex` lets the pool's index wrap. In `xclient_cache` two clients allow one to replace the other; when
both are used up dialling fails. In `redis` one more attempt than stoppers is
enough because attempts nobody waits for are used again. In `selection` the
channel holds one list instead of ten, so that it fills up; four selections make
a full round of every ring; the lists include an empty one, one without weights,
and one reduced by state and group. `CHECK_DEADLOCK FALSE` stands where the
system really ends: a stopped server or plugin, an operation that returned.

Fairness. Goroutines that can run do run (weak fairness; in `selection` only the
senders of updates have to), timers fire, and a
mutex or a `LogicSync` lock that is free again and again is obtained (strong
fairness; Go's mutex hands over to waiters after a millisecond). Reads of a
connection that this side has closed return, and so do writes; other writes
return only when `WriteTimeout` is set, which `server_live` does not assume. Nothing makes a peer, a server or
Redis answer. Dialling ends in `xclient_cache`, where it has a timeout; services
return in `server_live` and `dispatch`; there the RWMutex hands over to waiting
readers when a writer releases it, and registrations are finite. In `transfer`
the server's accept loop and handlers go on, while clients may be silent, which
`Served` excepts. In `client_live` the heartbeat's
timeout is the only deadline.

## Findings

- `wire_zip`: `Zip` returns a slice of a buffer that is already back in its pool.
  A second compression overwrites it before the first message is encoded, and the
  reader gets the other message's payload or a broken gzip stream.

Properties that fail and are defined in the modules, without a run in the list:

- `Graceful` (`RpcServer`): `handlerMsgNum` is raised by the goroutine of a
  request after it was started, so `Shutdown` may see zero while a request that
  was read waits (`server.go:549, 564`, against the comment at 1013-1014).
  `GracefulForStarted` is what does hold, and is proved.
- `BroadcastSuccess` (`XClientOps`): the goroutine of a server reports to `done`
  before it appends its error, so `Broadcast` may return nil for a failure
  (`xclient.go:985`, against 931).

Seen while modelling, without a run of their own:

- a cancel that precedes the store of the sequence number completes whatever
  call has number 0 (`client.go:326`);
- a client that dies before its singleflight call returns is handed to everyone
  who joins the call (`FreshClient` excepts it as `InFlight`);
- a client dialled during `XClient.Close` is cached and stays open, and a
  second client may replace a live one that nobody then closes;
- `SendRaw` returns a nil error after failed attempts (`xclient.go:822, 849,
  881`); Failbackup returns nil without a reply when the second request cannot
  be sent; negative `Retries` return nil without a call;
- sticky selection may return neither client nor error, and closes a client
  that others use;
- the weighted selector uses the list before the last one, and panics with `mu`
  locked when that one was empty; so does `WeightedICMP` when no server answers;
- with `AsyncWrite` a worker submits the write to its own pool: one worker and a
  full queue wait for each other (`Exhausted` in `RequestsEnd` and
  `ShutdownCompletes`);
- out-of-order senders may leave the older of two lists in force, and an update
  between `GetServices` and `WatchService` is missed (`Converges` excepts both as
  `unordered`);
- a Redis `Start` whose first write fails closes the store, after which `Stop`
  deletes nothing and returns nil, whatever "Stop unregister all services"
  (`redis.go:194`) says: `StopCleans` counts the nodes of the services that were
  registered by then among those that may be left (`stranded`);
- a write that its deadline cuts leaves the connection open, on the server
  (`server.go:396-418`) and on the client (`client.go:594-613`), and the reader
  takes the next frame for the rest of the cut one (`ReadsWhatWasSent` excepts it
  as `cut`);
- `WriteTo` returns an error after it has written the header when the compressor
  is unknown or fails, where `EncodeSlicePointer` sends the message uncompressed;
- `DNSDiscovery.Close`, `StreamService.Stop` and `FileTransfer.Stop` close
  channels that were never made;
- a request reads the function map without the lock that writes it
  (`server.go:767, 866`), which the Go runtime may answer with an abort
  (`MapFault`);
- a function that is registered again with other types is visible before their
  pools are, and a request that has done its second lookup then panics in `Get`
  (`service.go:231-236`, `server.go:866-872`; `PoolReady` excepts it as
  `Replacing`);
- a plugin that is only a `RegisterFunctionPlugin` has no `Unregister`, so
  `UnregisterAll` never tells it to withdraw what it announces;
- the loops over the plugins index a slice that `Remove` shortens meanwhile, and
  panic or skip a plugin (`GuardedCall` excepts requests that saw a change);
- when `newXClient` fails, `OneClient` stores a nil XClient, and `Auth`,
  `SetPlugins`, `ConfigGeoSelector` and `Close` then panic with `mu` locked;
- a connection that sends no token keeps the accept loop of streams and file
  transfers waiting; `EnableStreamService` drops the acceptor it is given
  (`stream.go:48`);
- `DownloadFile` returns nil with an empty file when its token is refused, and
  `SendFile` returns nil when its context is done (`xclient.go:1269`, against
  1216).

## Proofs

Each proof shows `Init => IInv`, `IInv /\ [Next]_vars => IInv'`, one step per
action, and derives the properties from `IInv`. TLC has checked the inductive
invariants on the instances of the runs before they were proved; they are not
listed in the runs, where the proofs would make them redundant. Constants are
constrained only by the named assumptions, which TLC evaluates in the runs.
The proofs of a component are in a module of their own; two modules hold the
proofs of two components each, `RedisOneClientProofs` and `WireSelectionProofs`.

- **RpcClient** (`RpcClientProofs`), from `CallsAssumption` and `SeqAssumption`:
  `TypeOK`, `OwnReply`, `DoneNeverDiscarded`, `NoCallLost`,
  `NothingSentAfterClose`, `CancelExact`. `OwnReply` is not inductive: one must
  know that numbers are unique (`NumberInv`), that `pending` and the wire hold
  calls under their own numbers (`PendingInv`, `RequestInv`), that a call
  completed without error was answered (`ReplyInv`). `DoneInv` counts
  completions by place, `CellInv` says that the cell of a private context holds
  the call's number, `ConnInv` ties the flags to the connection. That users of
  `SendRaw` keep their numbers apart from those of `send` is an assumption the
  code leaves to them.
- **RpcClient implements CallService** (`ClientIsCallService`, same module): the
  initial states map to the initial state of the service, and every step maps to
  a step of it or to a stutter. `RefineStep` has one step per action; `PhaseIs`,
  `OutcomeIs` and `AnswerIs` say which variables the mapped state depends on.
  The steps that answer a call need `AnswerInv` (a request on the wire has left
  its sender, an answered call cannot be completed again, the end of input is
  the last step of `input`) and `NoCallLost`, from which it follows that the
  client is up when a response finds its call. The step of a caller that returns
  needs `ReplyInv`.
- **RpcServer** (`RpcServerProofs`), from `RequestsAssumption` and
  `LocksAssumption`: type correctness, `CountsInProgress` (the counter is
  exact), `GracefulForStarted` and `LogicSyncExclusive`, along `LockInv` (a
  running service holds its lock), `OutcomeInv`, `SubmitInv`, `DoneInv`, and
  `DrainInv` (the connection of a request that had started stays open until
  `Shutdown` has seen that none is left).
- **XClientCache** (`XClientCacheProofs`), from `CacheAssumption`: `FreshClient`
  and `NoBystander`, along `PlaceInv` (what a goroutine knows at each place),
  `HeldInv`, `FreshInv` (the dead stay dead), `FlightInv` (nobody bars the client
  of a singleflight call that has not returned) and `ClientInv`.
- **XClientOps** (`XClientOpsProofs`), from `OpsAssumption`: `CallResult`,
  `NoRetryAfterAnswer`, `ForkReply`, and `DoneHasRoom` (no goroutine of a fan-out
  waits for the channel `done` after the operation has returned).
  `NoRetryAfterAnswer` needs `AttemptsInv`: an iteration makes at most one
  attempt, and all but the last have failed with an error that lets the code go
  on. `ErrInv` says what `err` knows of the attempts. `FanInv` counts: what the
  operation can still receive is in the channel or will be sent by goroutines
  that have not reported. `ForkInv` says that a goroutine sets the reply before
  it reports.
- **RedisRegister** (`RedisOneClientProofs`), from `RedisAssumption`: `TypeOK`,
  `NodesRegistered`, `StopCleans`, `OneAttempt` and `StoreOpen`. `LockInv` says
  who holds `lifecycleLock` and `storeLock`; `RefreshInv` ties the refresh to the
  store and to `done`; `AttemptInv` says that once a Stop has been in nobody else
  is in a critical section and none will be; `CleanInv` says how far a cleanup
  has got, and `StrandedInv` that before it only a failed `Start` closes the
  store. `RedisAssumption` has more attempts than stoppers, so that the bound
  on attempts refuses none.
- **OneClient** (`RedisOneClientProofs`), from `OneClientAssumption`:
  `OnePerPath` and `SettingsReach`, for `OneSpec`, in which users do whatever
  they like with the XClients they get. `MapInv` says that whoever creates an
  XClient holds `mu` and the map has none, `FieldInv` whose value a field may
  hold, `ReachInv` that a setting without a rival is in its field and in
  every XClient, created or being created, that its setter has not yet to visit. `TransfersUseOneClients`
  shows that `Transfer` implements `OneSpec`, so that both hold of it as well.
- **Transfer** (`TransferProofs`), from `TransferAssumption`: `TypeOK`,
  `TokensDecide` and `FilesWhole`. `CacheInv` ranks the tokens of an LRU cache:
  since a token was issued, at least as many others were as there are places
  after it, but for the place of a token the loop has just looked up. From it
  follows `CrowdInv`: a token not yet shown is cached, unless `waitNum - 1` later
  ones, and at least one, were issued. The run has two streams; the theorem has
  any number. `TokenInv`, `QueueInv` and
  `HandlerInv` follow a token from its reply to its handler.
- **Dispatch** (`DispatchProofs`), from `DispatchAssumption`: `SoleOwner`,
  `OwnData`, `PoolReady`, `AnnouncedServed`, `GuardedCall` and `Withdrawn`.
  `PoolReady` rests on `ReadyInv`: a function without pools has just been put into
  the map by the holder of the lock. A request that has done its second lookup had
  already found a function of that name, so that what it meets without pools
  replaces another. `ServiceInv` says that the service has not lost its functions
  between the two lookups, unless a service of methods took its place, in which
  the second read finds none. `SoleOwner` needs
  `PoolsApart` (no object is in two pools) and that whoever puts an object back
  drops it in the same step; `OwnData` needs `DataInv` (pooled objects are blank,
  an object in use holds its user's data) and `AnswerInv` (a response without an
  error has its payload from `Encode` on). `AnnouncedServed` needs `ServedInv`.
  `GuardedCall` needs `HookInv`: the loop of `DoPreCall` has asked every plugin
  up to its index, and while the plugins are the same its length is theirs.
  `Withdrawn` needs `UnregInv`: whatever an installed plugin still announces was
  registered meanwhile or is yet to be withdrawn. It is stated for plugins that
  were installed all the time (`stayed`): one that is removed and added again
  may miss a service.
- **Wire and BufferPool** (`WireSelectionProofs`), from `SizesAssumption` and
  `NilAssumption`: `BufferInv`, for any sizes and number of levels: a buffer from
  `Get` has the length that was asked for and is used by one goroutine, and every
  level holds buffers that are large enough. The first step is that `findPool` and
  `findPutPool` choose levels that fit. Two theorems are about the frames, for any
  names, encoded metadata and payload: `EncodersWriteTheSame` (`EncodeSlicePointer`,
  which copies to computed offsets of a buffer with old contents, writes what
  `WriteTo` writes piece by piece, unless that gives up on the compressor) and `FramesReadBack` (`Decode` takes the header,
  the length and the four fields out of a frame that went into it). Both go through
  `Frame`, which says where each cell is; `Placed` says that the copies of
  `EncodeSlicePointer` lie one behind the other and cover the buffer.
- **Selection** (`WireSelectionProofs`), from `SelectionAssumption`: `Converges`,
  for any number of updates and any capacity of the channel. `DeliveryInv` says
  where the pairs of the last update are: installed, last in the channel, or with
  the only goroutine that has still to send.

Only model-checked, because the prover cannot do it: all liveness (fairness and
`ENABLED`), and with it the fairness of `CallService`; and what is computed by
recursion over data, which are the rings of the weighted selectors
(`SelectsInstalled`, `SelectsFairly`) and the metadata, which `encodeMetadata`
folds into cells and `decodeMetadata` takes apart. The codec theorems take the
encoded metadata as given; that a whole message is read as it was sent, with its
metadata, header bits and compression (`ReadsWhatWasSent`, `EncodersAgree`), stays
with TLC.

## Not modelled

`PROJECT.json` gives the reason for each part. Transports, codecs, logging, the
code generator, the statistics pages and the converters have no state that
interleaves. Left out of the parts that are modelled:

- the contents of gzip streams, hashes and distances, which are opaque values;
- clients that share a discovery: `watch` and `NewXClient` sort the slice of pairs
  in place, the same one for all of them and for `GetServices`
  (`xclient.go:221`), so that two that sort at once may lose an entry; this needs
  the slice's cells as shared state;
- `SendMessage`, `Restart`, `ServeHTTP` and `ServeWS` of the server, and server
  pushes on the client: they hand bytes or connections on;
- the cached discovery, whose forwarding goroutine may send to a channel that
  `Close` has closed (`discovery.go:104`), and the discoveries that poll the
  network;
- the HTTP gateway and JSON-RPC, whose requests `Shutdown` does not count;
- the breaker's clock: in `XClientCache` an open breaker may close at any time;
- the mdns plugin and the plugins that check one connection or request.

## Plan

1. `CachedDiscovery`: the forwarding goroutine, and several clients on one
   discovery with its shared slice.
2. A composition of `RpcClient` and `RpcServer` over one connection: a call is
   executed at most once, and its reply is the service's.
