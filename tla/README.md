# Verification of the network library

TLA+ models, TLC runs and TLAPS proofs for the C++ network library in
`src/network/network` (a reactor on libevent: event loops, channels, a server
and a client bootstrap). The library has no documentation of its own besides
its comments, log lines and assertions; the modules are written from its code.

## 1. Inventory

| part | state it keeps | operations | talks to |
|---|---|---|---|
| `NioEventLoop` | libevent base, load factor, timer sequence | `execute`, `scheduleOnce`, `schedualAt/After/Every`, `cancle`, `shutdownGracefully`, `rebalance` | every other part, by tasks |
| `NioEventLoopThread` | `eventLoop_`, mutex, condition, thread | `startThread`, `stopThread`, `threadFunc` | its loop |
| `NioEventLoopGroup` | threads, loops, `next_` | `start`, `next`, `lightWeighted`, `specialForHash`, `allLoop` | loops, server |
| `NioSocketChannel` | `state_`, `pipeline_`, contexts | writes, `shutdown`, `close`, `closeWtihDelay`, `established`, `destroyed`, `handleClose`, `handleError` | its loop, its pipeline, the bootstrap (close callback) |
| `ChannelPipeline` | bufferevent, `writePromis_`, callbacks, idle entries | `pushPromise`, `writePromise`, `messageReceived`, `eventCaught`, `exceptionCaught` | libevent, channel, idle inspector, user callbacks |
| `ServerBootstrap` | per-thread maps of channels, inspectors | `start`, `newChannel`, `newChannelLoop`, `removeChannel`, destructor | listener, loops, channels |
| `Listener` | listener, `listening_`, spare descriptor | `listen`, `newChannel`, `exceptionCaught` | server |
| `ClientBootstrap` | `channel_`, `retry_`, inspector | `connect`, `disconnect`, `newChannel`, `removeChannel`, destructor | connector, channel |
| `Connector` | `connect_`, `be_`, `retryDelaMs_` | `connect`, `reconnect`, `disconnect`, `retryAfter`, `eventCaught` | loop, client |
| `IdlChanelInspector` | three wheels of buckets | `backInsert`, `inspect`, `~ChannelEntry` | loop timer, pipeline |
| `ChannelConfig` | options for listener and channels | `option`, `bind` | bootstraps |
| `Buffer`, `Bytebuf` | cursors and capacity; a libevent buffer | append, read, discard, peek | channels, users |
| `TimerId`, `Functor`, `WeakCallback` | an event; a task; a weak pointer | `cancel`, `excute`, call | loop |
| `Timestamp`, `CurrentThread`, `InetSocketAddress`, `SocketsOps`, `Socket`, `Types`, `ChannelInitailizer` | values and wrappers | – | – |

What is hard here. A channel belongs to one loop thread, and its methods may be
called from any thread: a call reads the plain field `state_`, sets it, and
queues a task with a raw `this`. Close callbacks hold a raw bootstrap. Promise
callbacks call back into the list that is being walked. The pipeline is
destroyed while one of its own callbacks is on the stack. Attempts to connect
share the one field `be_`, and a retry timer survives `disconnect()`.
`PROJECT.json` lists each of these as a hazard at its line, with the property
that watches it.

What makes each part correct:
* channel and pipeline: one life (active once, inactive once), every promise
  answered at most once and true only for flushed bytes, writes in order,
  removal from the bootstrap when the peer goes, a destructor that finds
  `kInactive`;
* client and connector: one attempt, timer or channel per `connect()`, no idle
  gap while a connection is wanted, a delay that grows, load that matches the
  open channels;
* server, group and loop threads: every loop's map holds exactly its open
  channels, the load of a loop is what it carries, connections are spread
  evenly, teardown ends and strands nothing, tasks given before the end run;
* idle inspector: a channel is told after n silent seconds, once, neither early
  nor late, and entries only ever go to an inspector that is alive;
* loop and timers: nothing runs before the time that was asked for, everything that was asked for runs unless
  it is cancelled or the loop ends, every event is freed once;
* listener and options: what an application sets is what counts, a connection
  that cannot be taken is dropped and never waits for ever;
* `Buffer`: what was appended is what is read, in order, whatever moves the
  window; `Bytebuf`: one owner for each evbuffer.

## 2. Modules

| module | models |
|---|---|
| `NioSocketChannel` | one channel, its pipeline, the loop's queue, callers on other threads, the peer, the `ServerBootstrap` as holder of the channel |
| `ChannelContract` | what a channel promises to its users, without threads, tasks or sockets |
| `MCNioSocketChannel` | symmetry for TLC |
| `ClientBootstrap` | a client: `Connector`, retries, reconnection, removal, destructor |
| `ServerBootstrap` | servers that share a base loop and a group: load balance, map and inspectors per loop, destructor |
| `ChannelConfig` | the options of a bootstrap and where they end up |
| `Listener` | on top of `ChannelConfig`: `listen()`, accepting, the spare descriptor |
| `NioEventLoop` | one loop: events, timers, cancellation, iterations, its end |
| `NioEventLoopThread` | one loop thread, its owner's start and stop, users of the loop |
| `IdlChanelInspector` | the wheel of a loop and the channels it watches |
| `IdleDetector` | what a wheel is for: ticks left per channel |
| `Buffer` | one `Buffer`: window, memory, and what a user expects in it |
| `Bytebuf` | several `Bytebuf`s: who owns which evbuffer, how many bytes go where |
| `X_proofs` | theorems about `X`; `NioSocketChannel_proofs` has those of `ChannelContract` too, `Listener_proofs` those about options, and `Buffers_proofs` those of `Bytebuf` and of `Buffer` |

How they fit together. `NioSocketChannel` has one channel and every detail of
its life; `ServerBootstrap` has many channels and keeps of each only whether it
is accepted, open or closed. Both contain `newChannelLoop`, `removeChannel` and the
destructor: the first to see what they do to the channel, the second what they
do to the maps and loads. `NioEventLoopThread` opens the step that
`ServerBootstrap` takes as one (`StopThread`, `LoopExits`), and `NioEventLoop` opens
what all of them take for granted: a queue served in order and timers that fire.
`Listener` EXTENDS `ChannelConfig`, as the C++ class reads one; the wheel that
`ChannelConfig` computes is the `Size` of `IdlChanelInspector`. `ChannelContract`
and `IdleDetector` are implemented by `NioSocketChannel` and `IdlChanelInspector`
under refinement mappings.

Every handler that runs inside the loop is an operator (`HandleClose`,
`CloseInLoop`, `WriteInLoop`, `WritePromise`, `RetryAfter`, ...) used by the
actions that reach it: the code's `execute()` runs a task at once inside the loop
thread and queues it outside, so the same handler appears inside an inline call,
inside a task and inside a libevent callback. Operators named `X_Variant` are
faulty versions of `X`; each property is violated when one of them takes the
place of `X`.

### NioSocketChannel

State: `state` is `state_`, `wired` is `pipeline_ != NULL`, `enabled` the
bufferevent's enabled directions, `output` its output buffer (writes the socket
has not accepted), `promises` is `writePromis_`, `held` the server's map entry,
`tasks` the loop's queue, `call[t]` what a caller thread has decided and not yet
done, `refs` the threads that hold a `shared_ptr`, `delayed` the number of
`closeWtihDelay` timers, `conn` what the socket will report. `wire`, `yes`, `no`,
`swallowed`, `late`, `ups`, `downs` and `fin` record what happened.

A write is identified by its thread, its number and its kind. The seven kinds are
the ways in which the overloads differ: without callback, with one, the raw
pointer overload that loses its callback outside the loop, the `Buffer*`
overload that does not answer on an inactive channel, the overloads that take a
shared pointer, without a callback and with one, whose cleanup callback deletes an
object of another type when the bytes drain (`Shared`, `CleanupBreaks`), and an
empty write, which never wakes the write callback.

A user may drop its `shared_ptr` at any moment (`Release`). `careless` records that it
did so while a task with a raw `this` was queued; only then can a task find a freed
channel.

Atomicity. Code in the loop thread is one action per libevent callback or task.
A call from another thread is two actions, `Check` (reads `state_`) and `Act`
(stores it and queues the task). The store and the queueing are merged: between
them the loop could only see `kInactiving` earlier than the task, which the
model reaches by letting the loop's other events run after `Act`.

Undefined behaviour. `WeakCallback` initialises `object_` from itself. What it
then holds is arbitrary: scheduling it may break the program, and when it fires it
may find the channel or not (`ScheduleClose`, `DelayedClose`).
A null or dangling pointer sets `fault` to the place and the model stops there.
A promise that a callback pushes while `writePromise` walks the deque is cleared
unanswered (`swallowed`).

### ClientBootstrap

`wanted` is `connect_`, `be`, `delay`, `channel` and `retry` are the fields.
`live` are the bufferevents that wait for an outcome, which may be more than
`be`; `leaked` those whose bufferevent will never be freed. `channels` are the
open channels by socket, `swapped` those whose close callback the destructor
replaced. The destructor outside the loop is two actions, `DestroyBegins` (reads
`channel_` under the mutex) and `DestroyEnds`. The server's answer decides which
class of error `handleError` sees: refused (retry), timed out or another error
(give up). The class of `EINTR`, `EISCONN` and `EINPROGRESS` is left out because
libevent does not report them, and with it `state_`, which nothing else reads.
`disconnect()` only calls `shutdown()` of the channel.

### ServerBootstrap

`load` is `loadfactor_` of each loop, `hodlers` the map of channels per server
and loop, `queue` the tasks of each worker, `status` how far a worker has been
stopped. The base loop's thread runs one callback at a time (`BaseFree`); the
choice of a loop is two actions, `NewChannel` (reads the loads) and
`LightWeighted` (charges one), because the workers lower loads in between; the
heap of `lightWeighted()` compares several times, so each loop counts with a load
it had at some moment in between (`MayBeLightest`). The destructor is `BeginDestroy`,
one `SweepHolder` per loop, then `StopGroup` and one `StopThread` per worker when
the server is the last holder of the group, then `FreeMembers`. Whether the group
has threads (`loops`) and whether a user holds it too (`kept`) is chosen at the
start; `ready` are the servers whose group has started, and a server without a group
given to it has one of its own (`OwnGroups`). `start()` outside the base loop
(`OffLoop`) queues `listen()` when the group has started; otherwise
`group_->start()` recurses in `assertInLoopThread()` (fault `"recursion"`).
A worker that inserts or erases
in a map that is not swept yet may break the walk (`Raced`); a channel that opens
after the walk is freed open with the map (`"orphan"`). `leaked` records channels
whose load `~ServerBootstrap` never gives back. `wheels` are the servers whose
holders have inspectors: members die after the body of the destructor, so the
last server frees its loops with the group and its inspectors cancel their timers
there afterwards (fault `"base"`).

### ChannelConfig and Listener

`listenerOps` and `cacheOps` are the two containers that `option()` fills, as
pairs of a number and a value; `asked` is the history of calls and says which of the two
overloads of `option()` each was, because the overload decides what is let through
(`Taken`). `Listed` is the number under which an option gets
into the list, which for socket options is the socket API's own. `wheel` is what
the bootstrap makes of the three timeouts when it starts. In `Listener`, `table`
says who has each descriptor of the process, `devnull` is `devnull_`, `stage` how
far the Listener is. `exceptionCaught()` is four actions, one for each system
call (`ExceptionCaught`, `AcceptSpare`, `CloseSpare`, `Reopen`), and other threads
open and close descriptors between them. `Errno` is what a failing `accept()` reports;
`exceptionCaught()` acts on EMFILE alone, so while the system is short of files or
memory (`shortage`, which `Scarce` sets and clears) it does nothing and is called again.
`address` is what `bind()` finds: nobody, connections that linger, another listener, or
an address that is denied (EACCES, EADDRNOTAVAIL).

### NioEventLoop

There is no clock. `left[t]` is the time until event `t` is due and `Tick` lets
time pass for all; while a callback is on the stack libevent reckons with the time
it woke up at, which is `lag` old. `order` is the active queue. One iteration is
`Wake` (what is due joins the queue), a `Begin` and `Return` for each callback, and
`EndIteration`; calls from users come at any point in between. `handles[t]` are the
`TimerId`s whose `event_` is set: `Cancel` clears the one it is called on,
`cancle()` works on a copy and leaves the caller's as it is. `functor` says whether
an event's Functor lives. `owed[t]` is history: the real time that the caller still
wants to pass before the next callback may begin, counted from the call; `backdated[t]` is how
old the base's time was at the call. `SchedualAt` takes a moment of the real clock,
before or after now, and gives the base the difference, as `schedualAt()` does with
`Timestamp::now()`; `SchedualAfter` gives it the delay. Both are then armed from the base's older time.

### NioEventLoopThread

`owner` and `thread` are program counters: `startThread` (`StartThread`, `Awake`,
`Returned`, `OwnGroup`), `stopThread` (`StopThread`, `LoadPointer`,
`ShutdownGracefully`, `Join`) and `threadFunc` (`InitCallback` to `End`). Each
read or write of `eventLoop_` outside the mutex is a step. The request to exit
is an event in the queue, so it is served in its turn; the events that are
active by then may or may not run.

### IdlChanelInspector

`buckets` is the wheel of READ_IDLE, the only one that ever exists: the
constructor puts the three timeouts there. `NewChannel` builds a channel with the inspector
of that moment and lets the user call `option()`, of which `Recorded` keeps what the
code keeps: `option()` tests the seconds where it means the option
(`NioSocketChannel.cpp:132`), so an idle state is recorded only with a value from 10 to 14. Entries' positions are only compared
for equality with the wheel's and the wheel's position only grows, so `current`
(the channels whose entry has the wheel's position) and `atZero` are all that is
kept of them. `ClientBootstrap::connect()` makes a new inspector in the thread that
calls it. In the loop that is one step (`Replace`); beside it two, `ReplaceStarts` and
`ReplaceEnds`, between which the entries die (`dying`) while the loop goes on, and a
channel that was built before keeps a raw pointer to the old one (`stale`). A freed
inspector that is used is fault `"inspector"`. `Left`, the index of the newest bucket that holds an entry, maps the
wheel to `IdleDetector`.

### Buffer and Bytebuf

In `Buffer`, `data` is the window of `dataSize_` bytes at `begin`, `cap` the
capacity, `null` whether there is memory; bytes that come into the window
unwritten are `Junk`. `queue` is what the user should find; `spoiled` names the
calls (`read()` of anything but half, `readBuffer()` of less than half, moving, an
evbuffer that gives less than was asked, appending the buffer to itself without room)
after which the code is known to lose track; `Trusted` says that the contents can still be relied on.
`AppendEvbuffer(s, n)` asks for n bytes and gets s; `AppendSelf` is `b += b`, whose source
`reallocate()` moves or frees before the copy (`"freed"`). `reallocate()` and `deallocate()` are
operators that every call ends with, as in the code; `Rounds` is what their loops make
of a size, one application of the body for each round (`Doubled`, `Shrunk`).

In `Bytebuf`, `evbuffer` and `alloc` are the two fields, `live` the evbuffers that
are not freed, `Lent` the one of a bufferevent, which the pipeline wraps without
owning. `Misuse` is any call through a null or freed pointer. Of a byte it is
only known whether it is shared with another evbuffer, which decides whether
`evbuffer_add_buffer_reference()` takes it.

## 3. Runs

| run | instance | properties |
|---|---|---|
| `channel_races` | 2 callers, 1 call each, writes `plain`, `cb` and `shared`, all closing calls, bootstrap may die, `shared_ptr`s dropped at any time | `TypeOK`, `FaultCause`, `CleanDeath`, `HealthyNeverHalfClosed` |
| `channel_promises` | 1 caller and the loop, 2 calls each, every kind of write but `plain` and `cb`, which the other runs use | `OnePlace`, `TrueMeansFlushed`, `WireOrder`, `ImplementsContract` |
| `channel_liveness` | 1 caller, fair loop | `PeerGoneRemoved`, `CloseCompletes`, `PromisesAnswered` |
| `channel_assert_race` | violation | `DestructorAssertion`: `close()` outside the loop overwrites `kInactive` |
| `client_connects` | up to 2 calls of `connect()`, from both sides, fair loop | `OneChain`, `ExactBooks`, `FaultCause`, `Reconnects` |
| `server_servers` | 2 servers on a group of 2 loops, on the base loop or with a group each, started on the base loop or off it, 2 connections, fair loops | `LoadMatches`, `Spread`, `HeldIsOpen`, `FaultCause`, `AcceptedOpens`, `TeardownEnds` |
| `listener_serves` | 2 options of 5, through either overload, 2 clients, 3 descriptors, a system that may be short, fair base loop | `OptionsReach`, `ReserveKept`, `FaultCause`, `PendingServed` |
| `loop_timers` | 2 events of any kind, delays of 0, 1 and 2 half seconds, moments as far before and after now, fair loop | `FaultCause`, `NeverEarly`, `EventsAccounted`, `EveryTaskRuns` |
| `thread_users` | 2 tasks, a user who may shut the loop down, fair threads | `EarlyTasksRan`, `SkipIsSafe`, `FaultCause`, `CallsReturn` |
| `idle_wheel` | 2 channels, 3 seconds, `option()` with 3 (not recorded) and 12 (recorded) for any idle states, `connect()` again in the loop and beside it | `TellsInTime`, `FaultCause`, `ImplementsDetector` |
| `buffer_ops` | pages of 2 bytes, operations of up to 4, evbuffers that give less, `b += b`, initial size 0, 1 or 3 | `ContentsKept`, `BrokenCause` |
| `bytebuf_owners` | 3 Bytebufs, 2 evbuffers and a bufferevent's | `EvbuffersOwned`, `FaultCause` |

What they show, in a sentence each:

* a channel lives once and dies clean unless a caller overwrote `kInactive` or the
  `ServerBootstrap` died; its promises are never answered twice, never lost while the
  connection is up, and true only after the bytes are out; one thread's writes
  keep their order; a peer that goes away is noticed; `close()` closes;
* a client has one task, attempt, timer or channel per `connect()` and no gap
  between them, and gets its channel back from a server that stays up;
* a server's maps and loads are right through races, destructors and shared
  groups; connections spread evenly; an accepted connection opens; teardown ends;
* options reach the Listener or are ignored exactly as `OptionsReach` says; the
  spare descriptor is lost only to another thread or a system without files, and while
  it is there no connection waits for ever once such a shortage is over;
* a timer that is made while no callback runs is never early, and one that is made inside
  a callback only by the time the callbacks took so far; no later lateness of the loop
  adds to it. Only the request to exit takes whole seconds for no delay; a task that is due begins; only copies of a `TimerId`
  free an event twice; cancelled timers leak their Functor and nothing else does;
* tasks given to a loop before it was asked to exit have run when it is left;
  `startThread()` and `stopThread()` return unless a user shuts the loop down himself;
* a silent channel whose read interest was recorded is told on time, not before and not
  after, unless `connect()` replaced the inspector; such an interest needs a value from 10 to 14;
  `tie()` breaks for want of a wheel only, and a freed inspector is used only where `connect()` is called again;
* a buffer contains what was put in, but for `read()`, moved-from buffers, evbuffers that
  gave less than was asked and a buffer appended to itself; evbuffers have
  one owner but for an assignment to a wrapped one.

A `FaultCause` (`BrokenCause` of `Buffer`) lists what it takes to break the program: the model stops at a null
or dangling pointer, an assertion or an overrun, and the property says which
misuse, race or defect must have come before. Properties that allow `fault # "none"` do
so because the program has stopped.

Bounds. `MaxCalls` bounds the calls of a thread. Two callers with one call each
already meet in every pair of calls, and the loop adds its own; one caller with
two calls and the loop with two meet in every order of two writes of one thread
around a third. More than two writes add no new relation between two promises.
`MaxConnects = 2` is the first value at which `be_` is overwritten; four
identities are as many as attempts, channels and leaked bufferevents can need.
Two loops and two connections are the first numbers at which the load of one
loop can be two above another's and a wrong choice shows; the second server is
what feels the load the first one leaked. Three descriptors are the listening
socket, the spare one and one to fight over; two clients are one that is dropped and
one behind it; two options are enough to set one twice or two that collide, and
the five are one of each class (let through or not, listed under another number
or not, timeout, backlog). Two events are one that runs and one that cancels it
or waits behind it; with `PerSecond = 2` the delays are none, part of a second and a
whole second, and `MaxLag = 2` lets a callback outlast every delay; a timer more than
`MaxLate` late is as good as that late. Two tasks are enough for an order, with
the request to exit before, between and after them. A wheel of three seconds has
a newest, a middle and an oldest bucket. With pages of 2 bytes `MaxWindow = 5`
crosses two doublings, and appending, shrinking and compacting meet in every
order; `MaxBegin` bounds how far a window may run past its memory. Three Bytebufs
are a source, a target and a bystander. Where a theorem states the same property
(section 6) the bounds do not matter.
Deadlock is not checked: a channel that is gone, a client that rests and a loop
that was left have nothing left to do.

## 4. Fairness

`FairSpec` assumes only the loop: it runs its tasks (weak fairness of
`RunTask`), its timers (`DelayedClose`, `RetryTimer`), and libevent reports
readiness of the socket and the outcome of an attempt (`ReadEvent`,
`WriteEvent`, `EventCaught`); `event_base_loop` does all three until it is told to
stop. The other modules assume the same of their loops: the workers' queues and
the end of a loop that was asked to exit (`RunTask`, `LoopExits`), the callback that
is placing a connection, the destructor that has begun, the base loop that accepts
(`Serve` of `Listener`), and that the operating system schedules both threads of
`NioEventLoopThread` (`FairSpec` there). `NioEventLoop` is what this rests on: it
assumes that time passes (`Tick`), that `event_base_loop` goes on and that callbacks
return (`Iteration`), and `EveryTaskRuns` shows that then each task runs. A caller
that has begun a call finishes it (`Act`). Nothing is assumed of users, peers,
servers or the owner of a bootstrap; where a property needs the server, it says
so (`Reconnects`).

## 5. What the models show of the code

The violation run:

* `close()`, `shutdown()` and `closeWtihDelay()` store `kInactiving` after a
  check that the loop thread may have outdated; the destructor's
  `assert(state_ == kInactive)` (`NioSocketChannel.cpp:64`) then fails
  (`channel_assert_race`).

Behaviour that the properties name as an exception, because the code does it:

* `destroyed()` leaves a channel that was shut down `kInactiving`; the same
  assertion fails (the exception of `CleanDeath` for a dead `ServerBootstrap`).
* A connection accepted before `~ServerBootstrap` may become a channel after the
  destructor has walked its loop's map (`ServerBootstrap.cpp:27`), and is freed
  while `kActive` (`"orphan"` in `FaultCause`). The channels it does destroy never
  give their load back (`LoadMatches`).
* Inspectors of the server that goes last cancel their timers on loops that are
  freed (`IdlChanelInspector.cpp:59`, `"base"`).
* `~ClientBootstrap` computes `unique` from an empty pointer (`ClientBootstrap.cpp:43`)
  and so never closes its channel, which dies open when it was the last holder (`"lost"`).
* `ClientBootstrap::connect()` frees the old inspector in the caller's thread
  (`ClientBootstrap.cpp:98`), while the loop may be about to give it an entry: a channel built
  before keeps a raw pointer to it, and an idle callback that calls `connect()` frees the
  wheel that `inspect()` is turning (`"inspector"` in `FaultCause` of `IdlChanelInspector`).
* `ServerBootstrap::start()` off the base loop, with a group that is not started, recurses for
  ever in `assertInLoopThread()` (`NioEventLoop.h:73`, `"recursion"`). It works there only with a group that is started already.
* `retryAfter()` divides milliseconds by 1000: the first retry is immediate, though
  the log line says 500 (`Connector.cpp:79` and `85`). A retry timer outlives the client (`"config"`).
* `cancle()` cancels a copy (`NioEventLoop.cpp:249`): a second cancel frees the event
  again (`FaultCause`). A cancelled timer's Functor is never deleted (`EventsAccounted`).
* libevent adds a delay to the time it woke up at, and nobody asks it for a newer one: a timer made
  inside a callback is early by the time the callbacks took until then. `schedualAt()` asks the
  real clock for the delay (`NioEventLoop.cpp:189`) and is early by the same (`NeverEarly`).
* `Timestamp::valid()` looks at the microseconds only (`NioEventLoop.cpp:125`): a graceful shutdown
  after whole seconds is immediate (`NeverEarly`).
* `TCP_MAXSEG` is listed under the number of `OPT_REUSEPORT` (`ChannelConfig.cpp:45`), of two values
  for a timeout the first counts (`50`) and for the backlog the last, and a client ignores
  `OPT_ALLIDELRTIMEOUT` (`ClientBootstrap.cpp:97`) (`OptionsReach`). Options for sockets reach no
  socket, `TCP_NODELAY` and `SO_KEEPALIVE` of `tests/echoServer.h:31` included: nothing fills the lists that `bind()` walks.
* On ENFILE, ENOBUFS or ENOMEM `exceptionCaught()` does nothing (`Listener.cpp:87`), though the spare
  descriptor is there: the base loop spins over the waiting connection until the system
  has something to give (the premise of `PendingServed`).
* Another thread may take the spare descriptor while `exceptionCaught()` has it closed
  (`Listener.cpp:90`); from then on a connection that cannot be accepted keeps the base loop
  spinning (`ReserveKept`, and the exception in `PendingServed`).
* `Bytebuf::operator=` frees an evbuffer that it only wraps; `readBytes(std::string&, len)`
  overruns its string when there is more than `len` to read (`ByteBuf.h:108`); `appendReference(Bytebuf&&)` loses what cannot be
  shared twice (`213`).
* `Buffer`: `read()` of anything but half, `readBuffer()` of less than half, moved-from
  buffers, and `b += b`, which copies from memory that `reallocate()` has moved or freed
  (`Buffer.cpp:122`); `append()` from an evbuffer ignores how much came (`259`) and grows by what was
  asked (`BrokenCause`, `ContentsKept`).
* A `BufferPtr` or `shared_ptr<std::string>` that is written, with a callback or without
  (`tests/echoClient.h:47` does), is deleted as a `Buffer` when its bytes drain (`ByteBuf.h:243` and `250`, `"cleanup"` in
  `FaultCause`). `appendReference(std::string&&)` (`202`) does the same to a string; nothing in the library calls it.
* `NioSocketChannel::option()` switches on the value instead of the option
  (`NioSocketChannel.cpp:132`): `option(OPT_READIDLEKETIMEOUT, 3)` records nothing, and a channel that
  asked for three seconds is never told.
* With a wheel of one second, and for the idle states WRITE_IDLE and ALL_IDLE, a channel is
  told that it is idle as it opens, and an idle callback that closes it breaks `tie()`
  (`FaultCause` of `IdlChanelInspector`).

## 6. Proofs

Each proof module shows `Spec => []IInv` for an inductive `IInv`, with one lemma per
action, and takes its theorems from it. They hold for every value of the
constants that satisfies the named ASSUMEs of the module they are about (mostly that `None`
is no element of the sets, and that bounds are naturals), and for those bounds
whatever they are. Every `IInv` was a TLC invariant first. Every invariant that a run
checks is the subject of a theorem.

| module | theorems about | what the inductive invariant adds, and why |
|---|---|---|
| `NioSocketChannel_proofs` (life) | `TypeOK`, `LifeInv`, `FaultCause`, `CleanDeath`, `HealthyNeverHalfClosed`, `InactiveIsFinal`, `SafeUse` | `LifeInv`: `state_`, `pipeline_` and the map agree, and where they part a caller overwrote `kInactive` or the bootstrap is dead (`StatesAgree`); EV_WRITE is off only after a failed write; who can have queued which task, and that nobody holds the channel while one with a raw `this` waits only if somebody was `careless` (`QueueOK`). `FaultCause` needs to know why a pipeline can be null when a task runs, `CleanDeath` why the last holder finds an inactive channel, and `TypeOK` why `downs` stays below 2 |
| `NioSocketChannel_proofs` (writes) | `OnePlace`, `TrueMeansFlushed`, `WireOrder`, `ImplementsContract` | where a write is on its way (call, queue, handled) and that of one thread's writes those further on were made earlier (`HandledInv`, `QueuedInv`, `CalledInv`, `BytesInOrder`); which promise can be where (`AnswersInv`) |
| `NioSocketChannel_proofs` (contract) | `OneAnswer`, `TrueIsSent`, `ClosedIsFinal` of `ChannelContract` | proved of the contract by its own invariant, then of the channel through the refinement: no write is told both true and false, true only for bytes handed to the socket, nothing after closing |
| `ServerBootstrap_proofs` | `HeldIsOpen`, `LoadMatches`, `Spread`, `FaultCause` | one server dies at a time and nothing is placed meanwhile (`PhaseInv`); the life of a channel against maps and queues (`ConnInv`, `HeldInv`, `QueueInv`: a task for a connection is there once); servers that started have a group that did (`ReadyInv`); a load is the cardinality of what the loop carries (`LoadInv`); while a connection is placed and nothing has closed the loads are those that were seen (`SpreadInv`) |
| `ClientBootstrap_proofs` | `OneChain`, `ExactBooks`, `FaultCause` | `be_` and `channel_` against the open channels (`ChanInv`), what may be queued while the client lives (`TaskInv`), the books after one call (`BooksInv`) and what a destructor in the loop thread leaves behind (`DeadInv`). `OneChain` carries the argument: with one call there is room for one thing only, so that what a handler finds is all there is |
| `NioEventLoopThread_proofs` | `EarlyTasksRan`, `SkipIsSafe`, `FaultCause` | the early tasks are those that ran followed by the front of the queue, and a request to exit comes after them (`QueueInv`); where owner and thread can be at once (`OwnerInv`) |
| `IdlChanelInspector_proofs` | `TellsInTime`, `FaultCause`, `ImplementsDetector` | an entry that waits, of a channel silent for q ticks, is in bucket `Size - q` and in none after it (`Waiting`), and who was told had been silent for `Size` ticks or lost its inspector (`Done`), which makes `ReaderInv`: that gives both bounds of `TellsInTime`, for who was told is no longer counted. Inspectors are stale or dying only where `connect()` is called again (`StaleInv`). The refinement assumes `Size > 1`: with one bucket a channel is told as it opens, which no detector does |
| `NioEventLoop_proofs` | `NeverEarly`, `EventsAccounted`, `FaultCause` | the active queue lists each active event once (`QueueInv`); what each Functor waits for and why one that waits for nothing is kept (`FunctorInv`); what is on the stack has left the queue (`RunningInv`); who can still cancel what (`HandleInv`: an event that is freed under a handle was copied); the base waits at least for what is owed less what it was backdated (`OwedInv`), which is why no lateness after that makes a run early. The deletion of an event from the middle of the queue is `RemoveFirst`, whose lemma keeps the rest of the list |
| `Listener_proofs` | `OptionsReach`, `ReserveKept`, `FaultCause` | the cache has the first positive value of each timeout and the list the last of the backlog (`CacheInv`, `BacklogInv`), in terms of the calls in `asked`; which calls end up under the number of `OPT_REUSEPORT` (`ReuseInv`). `FdInv` says for each stage of `exceptionCaught()` who has the descriptor that `devnull_` names; it carries `ReserveKept`, with `shortage` among the reasons for which `open()` gives none, and the claim that no foreign descriptor is closed |
| `Buffers_proofs` (`Buffer`) | `ContentsKept`, `BrokenCause` | the window lies inside the memory (`Inside`), a buffer without memory was never used (`Unborn`), the window is what the user expects (`Same`), each while the buffer is `Trusted`, that is unless a call named in `spoiled` came before. The loops need their bounds: doubling reaches the need, halving never goes below it and ends (`DoubledFacts`, `ShrunkFacts`) |
| `Buffers_proofs` (`Bytebuf`) | `EvbuffersOwned`, `FaultCause` | a Bytebuf with a pointer has a live evbuffer to itself and frees it unless it is the bufferevent's (`OwnInv`) |

`Buffer` names its specification and history so (`BufferSpec`, `BrokenCause`, `broken`)
that `Buffers_proofs` can extend it together with `Bytebuf`.

Induction. The library's induction theorems take an operator as parameter and cannot be
used. `Buffers_proofs` proves what it needs instead: a nonempty set of naturals has a least
member (`LeastNumber`, from the theorem that strict inclusion of finite sets is well founded, which takes no operator), hence a set of
naturals that has 0 and is closed under successor has all (`SetInduction`), hence a loop
invariant given as a set of states holds after any number of rounds (`LoopRule`).
`Listener_proofs` takes the first of several calls from the same `LeastNumber`.

`SafeUse` is the result for users: whoever writes with a callback and without
shared buffers, closes in the loop and keeps the `shared_ptr` while a task is
queued cannot break the program, `WeakCallback` apart, as long as the `ServerBootstrap` lives.

Model-checked only: all liveness (`PeerGoneRemoved`, `CloseCompletes`, `PromisesAnswered`,
`Reconnects`, `AcceptedOpens`, `TeardownEnds`, `PendingServed`, `EveryTaskRuns`,
`CallsReturn`), which is out of the prover's reach, as is ENABLED. The property of the
violation run, `DestructorAssertion`, is false and has no theorem; the theorem about
`CleanDeath` says when it holds.

## 7. Not modelled

Of the modelled parts: the watermarks that `option()` of a channel sets and its accessors; `disconnect()` of a
client beyond the channel's `shutdown()`; errors of `connect()` that libevent does not
report; `next()` and `specialForHash()` of a group, which nothing calls; signal
handlers and the descriptor limit of `NioEventLoop`; copying and `swap()` of a `Buffer`;
the message callback, which passes bytes to the user.

Not modelled at all: `ChannelInitailizer` (stores the user's callbacks before the
channel is established), `Timestamp` but for `valid()` and the difference to `now()`, `CurrentThread`,
`InetSocketAddress`, `SocketsOps`, `Socket`, `Endian.h`, `Types`, `main.cpp` and the
examples in `tests/`. They keep no state of their own, or are thin wrappers of
system calls, conversions and formatting.

What is left worth doing: action properties of the proved components (what a step of the
loop or of the Listener may never do), steps of the liveness arguments that are safety (that
each fair action of the loop makes its tasks fewer or older), and a composition of
`ServerBootstrap` with the full life of its channels, whose states are too
many for TLC with two of each.
