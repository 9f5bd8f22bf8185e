# A verification project for rdma-pmem

The repository measures ways to write to persistent memory of a remote machine
over RDMA.  This directory holds TLA+ models of its programs, TLC
configurations that check them, and TLAPS proofs of what matters most.

## 1. The system

| part | where | state it keeps | operations |
|---|---|---|---|
| `wsbenchmark` | `pmrdmabenchmark/src/wsbenchmark.c` | per connection: a `benchmark_node` (cm_id, QP, two CQs of one entry, buffers, statistics), a client worker thread and a server worker thread; globals `begin`, `stop`, `connects_left`, `disconnects_left`, `conn_index` | WRITE the buffer, SEND a flush request, server persists and SENDs a notification |
| `wibenchmark` | `wibenchmark.c` | the same | WRITE with immediate data, server SENDs a notification |
| `wrbenchmark` | `wrbenchmark.c` | the same, no server worker | WRITE, then a READ of length 0 |
| `wbenchmark`, `rbenchmark` | `wbenchmark.c`, `rbenchmark.c` | the same, no server worker | WRITE; READ |
| verbs, adapters, fabric | external | send and receive queues, completion queues, QP state | post, deliver, acknowledge, fail, poll |
| server memory | external, `libpmem` | data in the adapter, in the caches, on the media | place, evict, `pmem_persist` |
| connection manager | external, `librdmacm` | cm_ids at both ends, an event channel per process | resolve, request, reply, ready, reject, disconnect |
| `rdma-example` | `rdma-example/src` | a C++ client and a server for one client, each with one thread, one event channel, one completion channel and queue | connect, exchange buffer attributes, WRITE, READ back, compare, disconnect |
| `rwbenchmark` | `rwbenchmark/src` | the same client in a worker thread; an event-driven server with a `ClientSession` per client | the same |
| scripts | `pmrdmabenchmark/scripts` | `results.json`, processes on two machines | start, wait, kill, collect |

How they interact.  The main thread of a client resolves and connects its `-c`
connections in one event loop, waits for the server's metadata, starts one
worker per connection, sets `begin`, sleeps, sets `stop`, joins, disconnects.
The server's main thread accepts in an event loop, sends the metadata of each
node, starts one `server_worker` per connection (ws, wi), and waits for
disconnects in the same kind of loop.  Workers talk to the other side through
their queue pair only.  The five programs are five copies of one skeleton:
`connect_events`, `cma_handler`, `init_node`, `destroy_node`, `run_client`, ...
differ by a few lines, which the models take as parameters.

What is hard here: two threads, two adapters and the memory system interleaved
per connection; completion queues of one entry and one or two send slots, so
that every post depends on an earlier poll; `rnr_retry_count = 0`, so that a
missing receive ends the connection; completion status never looked at; data
that is acknowledged before it is placed and placed before it is durable;
failures at every call of the set-up; counters that decide when an event loop
ends; server workers that nobody joins and that `pthread_cancel` cannot stop;
a script that starts a client whether or not its server listens.
`PROJECT.json` lists the hazards line by line.

## 2. Modules

| module | models | state and actions |
|---|---|---|
| `Verbs` | RC queue pairs (external) | `sq`, `delivered`, `acked`, `rq`, `rcq`, `broken`; post, deliver, acknowledge, break, poll |
| `RemoteBuffer` | the server's buffer (external) | `nic`, `mem`, `pmem`: the number of the overwrite each line holds in the adapter, the caches, on the media |
| `BenchRun` | what the five clients share | `main`, `begin`, `stop`; `wpc`, `posted`, `ops` per worker |
| `RemotePersist` | abstract promise: a counted overwrite is durable | `issued`, `durable`, `counted`, `lost` |
| `WriteSend` | wsbenchmark's data path | adds `spc`, `unflushed` (server worker); one action per post and poll of `worker` and `server_worker` |
| `WriteImm` | wibenchmark's data path | adds `spc` |
| `OneSided` | w/r/wrbenchmark's data path | adds `program` (which of the three runs) and `next` |
| `WsLifecycle` | wsbenchmark from the running data path to the end of both processes | adds `smain`, `cmain`, `disconnects_left`, `disconnecting`, `heard`, `ended`, `unqueued`, `released`, `intruded`; one action per step of the main threads after the join, per destroyed object, and for a worker that touches what is destroyed |
| `BenchConn` | connecting, metadata, disconnecting, of all five | phases and counters of both main threads, both event channels, the cm_ids; one action per handler of `cma_handler` and per step of `run_client`, `run_server` |
| `NodeResources` | allocation and release, of all five | per node: fields not NULL, resources live; one action per release; the size test and the regions in the mapped file, in integers of `Width` bits |
| `Stats` | what a worker times and adds up, what `run_client` adds up and divides by, of all five | `clock`, `stats`, `total`, and `measured` as history; one action per call of `get_time_ns` |
| `CqChannel` | `process_work_completion_events` and the completion channel, of rdma-example and rwbenchmark | `cq`, `armed`, `events`, `unacked` per process; one action per call |
| `RdmaExample` | rdma-example's two programs | `cpc`, `spc`: where each main is; event channels, connections, the server's buffer; one action per step between two waits |
| `RunBenchmark` | `scripts/run_benchmark.py` with the servers and clients it starts | `k` and `main` of the script, a state per server and client process, `results` |
| `MC...` | definitions the `.cfg` files give to constants | |
| `BenchRunProofs` | lemmas on the verbs and on what the clients share | |
| `WsBenchmarkProofs`, `BenchmarkNodeProofs`, `WriteImmProofs`, `OneSidedProofs`, `BenchConnProofs`, `RdmaExampleProofs`, `RunBenchmarkProofs` | theorems: the first about `WriteSend` and `WsLifecycle`, the second about `NodeResources` and `Stats`, the others each about the module of their name | |

`Verbs` <- `RemoteBuffer` <- `BenchRun` <- `WriteSend`, `WriteImm`, `OneSided` by
EXTENDS, and `WriteSend` <- `WsLifecycle`; `WriteSend` and `WriteImm` instantiate
`RemotePersist`.  The data path modules start where `BenchConn` is in phase "running":
`MetadataPaired` and `ReceivesFirst` say that the state is then the one their `Init`
assumes (every connection established, the receive of the server posted, none at the
client).  `WsLifecycle` starts in the same state with the server's count of disconnects
at its full value, which is `DisconnectsCounted` of `BenchConn`.  What a server and a
client of different configurations do to each other in `RunBenchmark` is taken from
`BenchConn`, too.  `RdmaExample` EXTENDS `CqChannel` and stands apart: its programs
share no code with the benchmarks.

`map` in `PROJECT.json` names one of the five copies for each definition, not
always the same one, since the copies agree in what the definition says; where
they differ (`PostsFirst`, `Programs`) a constant tells them apart.

Conventions: an action is one call that another thread, the adapter or the
other machine can observe, together with everything the code does up to the
next such call.  Names are the code's.  Operators named `Bug...` are plausible
mistakes at the definition that follows them; no specification uses them, they
are there to show that each property can fail.

### Abstractions

* Data is the number of the overwrite it comes from.  `src_mem` is never
  changed by the code, so the real bytes could not tell overwrites apart; what
  the benchmarks are about is which overwrite is durable.
* A work request keeps its slot until its own or a later completion is polled,
  which is how providers free slots of unsignaled requests.
* Data of a WRITE is acknowledged when the adapter has it; it is placed at the
  latest when a later SEND, WRITE with immediate or READ of actual data of the
  same queue pair takes effect.  A READ of no data orders nothing.
* A failure of one end (`break`) makes its requests and receives complete with
  a flush error.  The other end notices only through retries of its own
  requests.  The opcode of a flushed completion is undefined, so the server
  worker may take it or drop it.
* `pmem_persist` flushes the lines in any order and returns when all are done.
* In `RdmaExample` each end has at most one request on its way, since the code
  waits for the completion of each; the resolution of address and route is one
  step with what follows up to `rdma_connect`; the client's string is `written`
  or not.  The server listens before clients start.  A request on its way may
  still take effect after its client has exited; one that has taken effect is
  acknowledged unless the fabric fails.  After a failed `ibv_post_send` both
  programs return `-errno`, which may be 0, and `main` then goes on without the
  request (`client_goes_on`, `server_goes_on`).  The server does so, too, if an
  event comes that is not the ESTABLISHED it waits for (`server_mistaken`).  A failed
  `ibv_req_notify_cq` always ends in an error: providers in which it can fail make a
  system call for it, which sets `errno`.
* The data path modules keep of the statistics `ops` only.  `Stats` has the
  others, and an operation of it is just a stretch of time.  Its clock never
  goes back (`CLOCK_REALTIME` may) and an operation takes a tick at least.
* In `WsLifecycle` the arrival of a DISCONNECTED and its handling are one step,
  evictions are left out (nothing there reads the media) and a behaviour has at
  most one mishap: a queue pair that fails, or a stranger's request.  What the
  server does to a node that a worker still polls is undefined: either nothing
  comes of it or the process dies (`server_worker_astray`).
* In `BenchConn` a request on its way reaches the server even if the client has
  given the connection up by `rdma_disconnect` meanwhile (`Requesting`).
* `NodeResources` takes numbers of `Width` bits for those of 32.
* `RunBenchmark` knows of a server whether it listens, serves or has left the
  port, and of a client whom it has reached.  A server may die
  while it serves; the worker of a wsbenchmark or wibenchmark client (`Notified`)
  may then wait for its notification for ever.  A client that fails while it
  connects and leaves a server half served is left out.  A server binds its
  port, or fails to, before the client `Lag` configurations later starts: each of
  them takes 0.1 s and a client's ssh.

## 3. Runs

Data path (constants: connections, cache lines, queue sizes as in `init_node`,
`MaxOps` operations per worker):

| run | instance | shows |
|---|---|---|
| `WriteSendBreak` | 1 connection, 2 lines, 3 ops, `--pmem`, either end may fail | durability, queue bounds, undisturbed persist, refinement of `RemotePersist` |
| `WriteImmSafe` | 1 connection, 2 lines, 3 ops, a send slot more than the code has, client end may fail, fair | one slot each way suffices, receives are in time, no completion queue overruns, the join comes, refinement of `RemotePersist` with memory for media |
| `WriteImmPmem` (violation) | 1 connection, no failure | `--pmem` makes nothing durable |
| `OneSidedRun` | `program` any of the three, 1 connection, 2 lines, 3 ops, either end may fail, fair | one completion per operation retires all its requests; the run ends even on failure |
| `WriteReadPlaced` (violation) | wrbenchmark, no failure | the READ of length 0 does not push the data out |

The status of a completion is never looked at.  A receive that is flushed
because the client's end has failed therefore passes for a notification, and its
operation is counted.  The models have this; the properties promise what is
counted only of clients whose queue pair has not failed.

When the server's end of wsbenchmark or wibenchmark fails, a client that waits
for a notification has nothing outstanding that could tell it: it polls for ever
and the join does not return.  That is how the code is; `StopJoins` is therefore
checked with failures of the client's own end only (of either end for the other
three).  `SuiteEnds` has the server that dies, and what becomes of the script.

Connections share only `begin`, `stop` and the join.  The runs of the data path
have one connection and use their states for operations and lines (`Teardown`
has two, and the proofs have any number).  Three operations let an operation
follow one that followed another, so that slots, receives and buffers are
reused; two lines let a buffer be half written, half persisted, half evicted.

Set-up and teardown:

| run | instance | shows |
|---|---|---|
| `Conn` | client -c 3, server -c 3 or 2; `sound` (nothing fails) or any call or message may fail; fair | paired metadata, receives first, counters, success is complete, the server waits for its disconnects, no node out of range; a sound run ends, with too few nodes, too |
| `ConnLate` (violation) | one connection fails while another resolves | the client waits for a disconnect nobody asked for |
| `Node` | any of the five programs, 2 nodes, client or server, with `--pmem` or without, any call of the set-up may fail; messages of 1, 3, 4, files of 1, 5, 6, offsets of 3 bits | no region is registered over freed memory but by two error paths; after which failures the clean-up is complete and after which it is undefined; (without flush buffers) device before cm_id; the nodes' regions are in the file and apart |
| `Teardown` | wsbenchmark, 2 connections, 1 op each, no `--pmem`, a client's queue pair may fail, a stranger may ask for a connection; fair | `rdma_disconnect` loses nothing, the server goes when all is disconnected, nothing lands in freed memory, both processes end |

`RegionsInside` is said of messages whose number times their length fits into
`Width` bits.  Past that, the size test compares a remainder and the regions
overlap; the run's 4 * 2 with three bits is such a case.

Any call of `alloc_nodes`, of `init_node` and of what `connect_handler` does after
it may fail in `Node`, the registrations and the test of persistent memory among
them.  Not every failure is cleaned up after: when the registration of
`metadata`, `mem` or `src_mem` fails, or the file is not persistent memory, the
`create_` function frees the buffer or leaves it, and its pointer set, and
`destroy_node` deregisters a NULL region or memory freed before.  `CleanupOutcome`
says that this, which is undefined behaviour, happens after these failures and no
others, that every other node loses all that `destroy_node` knows of, and that
`alloc_nodes` unwinds into cm_ids which are not there only if the mapped file was
the trouble.  `RegistrationsBacked` says where a region outlives its memory:
where the registration of `flush_notification` fails, whose error path frees
`flush_request`, too, and where that of `src_mem` fails, whose error path frees `mem`.

wsbenchmark and wibenchmark never deregister their flush buffers, so that
`ibv_dealloc_pd` is refused and the cm_id goes first.  `IdAfterDevice` leaves
them out; the process ends right after.

`DisconnectsAwaited` is limited to a server with a node for each connection:
with fewer nodes `connect_handler` refuses the last request, and that ends the
event loop of a server that may be serving the others already.  A client with
fewer connections than the server has nodes is not in `Conn`: both sides then
wait for ever, the server for connections, the client for metadata.  `Suite` has
such clients and what they do to the script.

Three connections are needed for `ConnLate` (one established, one failed, one
on its way) and let nodes be assigned in an order other than the client's.

Statistics and script:

| run | instance | shows |
|---|---|---|
| `StatsRun` | 2 workers, 4 ticks, workers may fail, `-v` or not | sums and jitter are those of the operations counted; what is printed fits together |
| `Suite` | 1 size, 2 benchmarks, 1, 2, 4, 8 threads, servers late by less than 3 configurations, left behind, without the port, or dying while they serve; `sound` or not; fair | what is recorded was measured with its own server; the suite ends, or hangs in one of two ways |

Four ticks are enough for two operations of a worker, and so for jitter, for
runs of no and of one operation, which divide by zero and stop the process, and
for workers that end at different times.  `TotalsFit` is said of runs in which no
worker has failed: the elapsed time of a failed one is an absolute time.

`ResultsMatch` depends on `Lag` being less than the length of the list of threads (6 in
the script, 4 in the run, hence 3).  All that a client and a server of different
configurations can tell them apart by is the number of connections.  With as many
configurations between them as there are thread numbers, a late server meets a client
with its own number of threads and another program, and their figure is recorded as if
it were one program's.  Within the bound a late server always meets another number of
threads, and either both fail, or the client waits for ever and `join` with it.

`SuiteEnds` names all that can hang the script: its client waits for metadata of an
older server with more nodes, or for a notification of a server that has died.
In `Suite` the second of the two benchmarks waits for notifications.

rdma-example:

| run | instance | shows |
|---|---|---|
| `Example` | two clients, any of which is started; `sound` (nothing fails) or any call, message or request may fail; fair | no lost wake-up, no request without the buffer, what is read back is what was written, both programs end well if one client is started and nothing fails |

Two clients are needed because the server, though it listens with a backlog of
8, ends with the first event it does not expect: a second request while it
serves the first client.  `BothSucceed` is therefore limited to one client.  A
client that goes on without its WRITE or READ compares what it has not read, and
one without its SEND writes to an address it was not told: `BuffersEqual` and
`OneSidedServed` are of clients that have posted these requests.

Fairness: threads are scheduled and spin until what they poll for is there;
adapters and the connection manager do not sit on a message for ever; evictions
and failures need never happen.  In `Teardown` the kernel also closes the queue
pairs of a process that has died, and in `Suite` the processes run on.  Undefined
behaviour, `break`, `server_dies` and the faults are under no fairness.
`CHECK_DEADLOCK FALSE` stands where the program may really stop: a worker whose
peer is gone, a process waiting for an event that does not come.

## 4. Proofs

Each of the invariants below follows from an inductive one that is proved for
every value of the constants: any connections, nodes, clients, lines of the buffer
and operations, with whatever fails.  The assumptions on the constants are named
in the modules that declare them.  Those that say something: at least two send
slots for wsbenchmark, and one for each request of an operation of the programs
without a server worker; at least one receive slot and one completion entry
(`VerbsAssumption`, `WriteSendAssumption`, `OneSidedAssumption`); finitely many
connections where they are counted; no client is called `"server"` or `"none"`
(`CqChannelAssumption`, `RdmaExampleAssumption`); the lists of the script are not
empty (`RunBenchmarkAssumption`).  Theorems under a hypothesis are `CountedDurable` and
`Refinement` of `WsBenchmarkProofs` (`--pmem` is given) and `FiguresMatch` of
`RunBenchmarkProofs`, all said below.

None of the properties is inductive.  The proofs go action by action, and
each actor has a lemma that says what a step of another leaves of its part.

### `WsBenchmarkProofs`: `WriteSend`

* `TypeCorrect`; `Invariance` (`IInv`); `WorkersInvariance` (`WorkersInv`);
* from `IInv`: `CountedPlaced`, `CountedDurable` (with `UsePmem`),
  `QueuesSufficient`, `ReceiversReady`, `CompletionsBounded`, `PersistAlone`;
* from `WorkersInv` and `IInv`: `JoinedQuiet`;
* `Refinement`: with `UsePmem`, `Spec` implies `Persist!Spec`.

`CountedIsDurable`, say, needs that a notification in the client's completion
queue means durable data, which needs that the server sends it only after its
persist, which persists the right data only if the whole overwrite was placed
when the flush request was delivered, which in turn needs that the client has no
newer WRITE in flight.  `IInv` says this per connection in four parts: while the
client's queue pair works, its queues have the shape its program counter says
(`ClientShape`); the same for the server (`ServerShape`); while both work, the
connection is in one of five phases (`Phase`: request not delivered, request
waiting, server working, notification posted, notification waiting), each with
what it knows of the copies of the buffer; and, failures or not, no copy is ahead
of the one it comes from and nothing counted over a sound queue pair is missing
(`DataFlow`).  `BenchRunProofs` holds lemmas on the verbs (what posting,
delivering, acknowledging, polling leave of each queue).  `JoinedIsQuiet` needs
`WorkersInv`, too, because the main thread looks at the workers' ends only, broken
or not.

### `WsBenchmarkProofs`: `WsLifecycle`

* `DataPathRefined`: `LifeSpec` implies `Spec` of `WriteSend`, so that all of the
  above holds to the end of both processes;
* `LifeTypeCorrect`; `LifeInvariance` (`LifeInv`);
* from `LifeInv`, `IInv` and `WorkersInv`: `ServedEnd`, `ReleasedRests`,
  `NothingLost`.

Every step of the main threads leaves the data path alone or forces a queue pair
into the error state, which is a failure in `WriteSend`.  `LifeInv` says what the
counters stand for (`MainsInv`: `disconnects_left` is the number of connections
not heard of, the client disconnects only after its join, the server leaves its
event loop with nothing left to hear, or for a stranger) and that released
memory is behind a broken queue pair with all of its data placed
(`ReleasedInv`).  `ReleasedRests` follows, since a broken queue pair takes no
delivery and only what is in the adapter can be placed;
`NothingLost` from `IInv` in the phase in which a sound connection is quiet.

### `WriteImmProofs`

* `TypeCorrect`; `Invariance` (`IInv`); from it `ReceiversReady`,
  `QueuesSufficient`, `CountedPlaced`, `JoinedQuiet`;
* `Refinement`: `Spec` implies `RemotePersist` with `mem` in the place of the media.

The argument is that of `WriteSend` with one request less and four phases.  As each
request is signaled and its completion polled, the shapes of the queues hold of
broken queue pairs, too, and so does `QueuesSuffice`.

### `OneSidedProofs`

* `TypeCorrect`; `Invariance` (`IInv`); from it `CountedReceived`,
  `QueuesSufficient`, `JoinedQuiet`.

The send queue of a worker holds exactly the requests of its operation that it has
posted (`QueueHoldsPosted`), since only the last one is signaled and its
completion, good or bad, empties the queue; and the adapter has received one
overwrite for each counted operation and for the current one once it is delivered
(`WritesReceived`).

### `BenchConnProofs`

* `TypeCorrect`; `Invariance` (`IInv`); from it `DisconnectsAreCounted`,
  `DisconnectsAreAwaited`, `MetadataIsPaired`, `ReceivesComeFirst`,
  `SuccessMeansComplete`.

What makes a counter right is what may still be in an event channel.  `IInv` says of
both channels that no event waits twice and in which state a connection is whose
event waits (`ClientChannel`, `ServerChannel`); from this each handler takes off its
counter a connection that was counted (`ClientCounts`, `ServerCounts`).
`DisconnectsAreAwaited` is of a server's end, `SuccessMeansComplete` of a client's.
`MetadataIsPaired` needs that no two connections have one node (`NodesTaken`) and
that metadata is sent once and of the connection's node (`MetadataInv`).

### `BenchmarkNodeProofs`: `NodeResources`

* `Invariance` (`IInv`), `TypeCorrect`, `IdsOutliveDevices`, `RegionsBacked`,
  `CleanupDecided`, and `MappedInside`, which is of messages that together fit into
  `Width` bits: whatever fails, for any number of nodes and any width.

`IInv` says how far `alloc_nodes` and `destroy_nodes` have come (`Control`), that what a
node has is in its fields (`Owned`), and that `destroy_node` has left nothing behind of
what it has been through (`Releasing`).  `CleanupDecided` needs the converse of `Owned`
for all that is still to be released at the nodes which lack no region they have memory
for (`Ready`), and that `destroy_node` does not get past one of the others (`Passed`).
`Unwound` says that an `alloc_nodes` which unwinds after `rdma_create_id` has a cm_id
for every node to go.  `RegionsBacked` is inductive with `IInv`: an error path frees
memory whose region is registered in the two cases named only.

### `BenchmarkNodeProofs`: `Stats`

* `StatsInvariance` (`StatsInv`), `StatsTypeCorrect`, `FiguresExact`, `FiguresFit`: for
  any finite set of workers and any `MaxClock`, whichever workers fail.

`StatsInv` says of each worker that its figures are those of what it has measured, and
that `last` is the last latency, or 0 if there is none (`Exact`); that the latencies
fit between the loop's beginning and the start of the operation under way
(`Timely`), without which the difference at the end of the loop could be negative;
and that the jitter and the last latency together are at most twice the sum
(`Within`): the next distance is at most the last latency and the new one.
`TotalsFit` needs in addition that nothing is added up before each worker has
ended, which is what the join is for.

The sums are folds over sequences and functions of any length.  The library's
induction theorems take an operator as a parameter and cannot be used; what holds
of all subsets of a finite set is proved through a smallest one for which it fails
(`SmallestSubset`, from the well-foundedness of the strict subset order).  This
gives that the sums exist, are numbers, grow by what is appended, and keep
bounds that hold of each worker.

### `RdmaExampleProofs`

* `Invariance` (`IInv`), `TypeCorrect`, `WakeupsAreKept`, `BufferIsServed`,
  `BuffersAreEqual`.

Of each process `IInv` says that it waits for as many completions as it has or as its
request and its receive will become (`Balanced`), that it has taken an event it has
not acknowledged just between `ibv_get_cq_event` and the check of the statuses
(`Called`), and that a completion in the queue has its event, or the queue is
polled after it was armed (`Woken`).  A call that succeeds therefore leaves nothing
outstanding, which is why the next may wait for the next request's completion
alone.  `BufferIsServed` needs that what the server is told is of the client it has
accepted, and a disconnect only of a client that has disconnected (`Told`), and
that a client whose receive was completed well has it from a server that holds the
buffer (`Served`); `BuffersAreEqual` that a WRITE completed well has written it, and
that the buffer stays until the client leaves (`Data`).  As a `main` may go on
without a request, `IInv` also says what a server that has not heard of its client
is left with (`Unheard`), what an end without its request can and cannot
receive (`Foiled`), and that the two ends of a connection that is up know each other
(`Met`).

### `RunBenchmarkProofs`

* `Invariance` (`IInv`) and `TypeCorrect`, for any lists and any `Lag`;
* `FiguresMatch`, if `InTime`: the numbers of threads differ from each other, and `Lag`
  is less than their number.

`IInv` says that the script has only one client at a time (`Control`), that the first
client which finds a server listening has connections with it, so that a server
that still has none is late by `Lag` runs at most (`Punctual`), and that a client
which measures does so with a server as late and of as many nodes (`Measuring`).  Two
runs less than a round of the thread numbers apart have the same number only if
they are the same run (`OwnServer`).

### Model-checked only

Liveness (`StopJoins`, `BothExit`, `BothEnd`, `BothSucceed`, `SuiteEnds`): out of the
prover's reach.  Every other property of a passing run is a theorem.

`IInv` of each module, `JoinedIsQuiet`, `CountedIsPlaced` and `CompletionsFit` of the data
paths, and the type invariants of `WriteSend` and `WriteImm` are proved and have no
run of their own.

## 5. Not modelled

* rwbenchmark's server: `ClientSession::setup_connection`, which would create a
  session's queue pair and channels, is called nowhere, so that serving any
  client is undefined from its first post on.
* rwbenchmark's client beyond the class it shares with rdma-example: the worker
  thread, which `main` starts even if `init` has failed, runs against that server.
* `common.c`: single library calls, and helpers that no program uses.
* Option parsing and address formats; the text of the statistics; charts,
  monitoring and iperf scripts: presentation, without state of their own.
* wibenchmark's end, which is the same code as wsbenchmark's in `WsLifecycle`.
