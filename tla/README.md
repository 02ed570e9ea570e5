# TLA+ models of TestProgram

TestProgram is a collection of C++ network programs that share one CMake tree
but no code: a small muduo-like server library (`ccnet`), a redis client with a
connection pool (`hiredis_test`), a mongodb client with a thread pool
(`mong-c-test`), and a number of smaller servers, clients and exercises. This
directory models the parts in which something can go wrong that a test would
hardly reach, checks the models with TLC on small instances, and proves the
main properties with TLAPS for every instance.

## 1. Inventory

### ccnet (`ccnet/net`, `ccnet/example`)

| part | state | operations | talks to |
|---|---|---|---|
| `EventLoop` | `active_channels_` | `loop`, `runInLoop` (calls at once, no queue) | `EPollPoller::poll`, `Channel::handleEvent` |
| `EPollPoller` | `channels_` (fd to raw pointer), `events_`, the epoll set | `poll`, `updateChannel`, `removeChannel` | kernel |
| `Channel` | `events_`, `revents_`, `tie_` | `enable*`, `disable*`, `handleEvent` | the callbacks of its owner |
| `Acceptor` | the listening socket, level-triggered | `listen`, `handleRead` (one accept) | `TcpServer::newConnection` |
| `TcpServer` | `connections_` | `start`, `newConnection`, `removeConnection` | `TcpConnection` |
| `TcpConnection` | `conn_state_`, `input_buffer_`, `output_buffer_` | `connectEstablished`, `send`, `handleRead`, `handleWrite`, `handleClose`, `connectDestroyed` | message callback, close callback |
| `Buffer` | `buffer_`, `read_index_`, `write_index_` | `append`, `readFd`, `retrieve`, `retrieveAll`, `peek` | `recv` |
| `EventLoopThread(Pool)` | `loop_`, `ready`, `next_` | `startLoop`, `threadFunc`, `getNextLoop` | condition variable |

Everything a server does happens on one thread: `newConnection` passes `loop_`,
the base loop, to every connection, although `TcpServer::start` starts a pool of
loops. The difficult interleavings are those of the handlers with the kernel and
the clients: sockets are edge-triggered, so an event that is consumed without
being acted upon does not come back; `readFd` stops when the fixed input buffer
is full; accepted sockets are blocking, so `send` may block the loop; a
connection is removed from inside its own channel's `handleEvent`; a peer may
reset the connection between any two steps. It is correct if a client gets back
what it sent, in order; if the loop never follows a pointer to a freed channel;
if no channel with work to do is forgotten; and if a connection is closed only
for a reason.

`EventLoopThread` starts its thread in the initializer list, before the members
declared after `thread_` exist; `startLoop` and `threadFunc` meet at a mutex and a
condition variable. Correct if `start` returns with loops that are ready for use.

### hiredis_test

`RedisPool` keeps `conn_pool_` (a queue), `pool_size_` and `pool_max_size_`
behind one mutex; `RedisConn` keeps a hiredis context and `status_`; `DBIORedis`
has one method per redis command, each of which borrows a connection, runs one
command and gives it back, and `HGetAllByKeys`, which borrows a second one while
holding the first. 150 threads do this at once in `mian.cpp`. Difficult: a
connection must have one owner; the pool spins instead of waiting; an outage
leaves idle connections that look healthy; early returns; limits.

### mong-c-test

`ThreadPool.h` is a queue of tasks, workers that wait on a condition variable,
and a destructor that stops and joins them. `dbio_mongodb.cpp` wraps the mongoc
client pool: `MongoDBConnectionPool` keeps `m_pool` and `m_url` and has one method
per operation, which pops a client, uses it and pushes it back; `DBIOMongoDB`
keeps a shared pointer to it, builds the documents and the `$push`/`$pull`
updates, and is copied into each of the 150 threads of `main.cpp`. Difficult:
notification after unlocking, stopping with tasks still queued, tasks that
enqueue tasks; in `dbio_mongodb.cpp`, giving a client back on every path
(`find_coll` does not when it finds something), initialization and cleanup under
calls in flight, and reading back arrays of maps through one shared map.

### linux_tcp

`select.cc` keeps `client_fds`, a table of `CONCURRENT_MAX` sockets, and in one
loop serves its standard input, the listening socket and the table; `sig_handle`
clears `keep_running`. Difficult: clients that close or reset between `select`
and `recv` or `send`, the table, the descriptors and the `fd_set` at their limits, a
length for `accept` that is never set, a full receive buffer, the end of the input. `epoll.cc` keeps a list of descriptors,
greets who connects and answers whatever a client sends by a message to all;
listener and clients are edge-triggered. Difficult: one accept for each event,
descriptors that are reused at once, `recv` and `send` that fail. `client.cc` says
hello, waits for something to read and sends that back, for ever.

### muduo

`chat_server.cc` keeps `connections_` and forwards each message to all of them;
`chat_client.cc` has a main thread that types and a loop thread that owns the
connection, with `connection_` between them. Messages carry their length in four
bytes. Difficult: streams cut anywhere, clients that type before they are
connected, leave or die in the middle of a message, lengths out of range.

### The rest

`acl-redis-test` (a redis client), `libevent_test` (server, client, timer),
`unix_tcp`, `catfly` (a reference-counted pointer, two Windows programs),
`mongo-cxx-test`, `hash_psd`, `listen_test`, `test`. `inc` and
`cmake-build-debug` are third-party headers and generated files. `PROJECT.json`
lists each with its status.

## 2. Modules

| module | models | kind |
|---|---|---|
| `ByteQueue` | what a user of `Buffer` relies on | abstract specification |
| `Buffer` | `ccnet/net/Buffer` | component |
| `Sockets` | TCP, epoll and the clients, as ccnet uses them | environment (external) |
| `EchoService` | what the echo server promises a client | abstract specification |
| `Reactor` | `EventLoop`, `EPollPoller`, `Channel`, `Acceptor`, `TcpServer`, `TcpConnection`, the echo and the default message callback; extends `Sockets` | composition |
| `RedisPool` | `RedisPool`, `RedisConn`, the calls of `DBIORedis` | component |
| `TaskService` | what a user of `ThreadPool` relies on | abstract specification |
| `ThreadPool` | `mong-c-test/inc/ThreadPool.h` | component |
| `MongoPool` | `MongoDBConnectionPool`, `DBIOMongoDB` and the threads of `main.cpp`: who has which client | component |
| `NoticeStore` | the same files: what is stored and what is read back | component |
| `SelectServer` | `linux_tcp/select.cc` | component |
| `LoopThreads` | `EventLoopThread`, `EventLoopThreadPool` | component |
| `ChatService` | what the chat room promises | abstract specification |
| `Chat` | `muduo/chat_server.cc` and processes `chat_client.cc` | composition |
| `EpollRoom` | `linux_tcp/epoll.cc` and `client.cc` | composition |
| `MC*` | instances for TLC | |
| `*Proofs` | theorems | |

**Buffer.** The vector is a sequence, the two indices are the code's. One action
per method. The `recv` loop of `readFd` is one step: however `recv` cuts the
stream, the loop ends when the socket is empty or no cell is left. The buffer is
shown to implement `ByteQueue`, and `Reactor` uses that: its buffers are queues
of bytes, the input buffer with the fixed room `InitialSize`.

**Reactor.** An iteration of `EventLoop::loop` is a `Poll` followed by one
`handleEvent` per active channel, in any order (epoll's order is not the code's
to choose). `handleEvent` is two actions, `HandleEventRead` and
`HandleEventWrite`, so that clients can act in between. Calls made inside a
handler are inside its action: `AcceptorHandleRead` contains `newConnection` and
`connectEstablished`; `handleRead` contains the message callback, which contains
`send` and `sendInLoop`; `handleClose` contains `removeConnection` and
`connectDestroyed`, which by then finds `kDisconnected` and does nothing. When
`send` is given more than fits, the loop stays in it (`stage = "send"`) until the
client reads (`SendResumes`) or resets (`SendCut`). `guard` is the `shared_ptr`
that `handleEvent` takes from `tie_`. Descriptors are never closed in the code,
so they are not reused in the model, and `MaxConns` bounds the accepts. A
`send` that reports a reset leaves the connection as it is, and a second one
raises SIGPIPE (`proc = "killed"`), since no handler is installed.

**Sockets.** A client connects once, sends the bytes 1, 2, 3, ..., so that a
byte's value tells its place in the stream, may send one urgent byte (some
clients, `Urgers`), reads, ends its stream, or resets (`Resetters`). `armed` is
epoll's ready list: an event on a registered socket puts it there, so does
`epoll_ctl` if the socket is ready; `epoll_wait` removes what it returns, and
drops entries that are no longer ready.

**RedisPool.** A connection is its number. Each iteration of `GetRedisConn`'s
loop holds the mutex and is one action: `GetPop`, `GetCreate`, `GetFails`, or a
stuttering step when it spins. `FreeRedisConn`, `ReleaseRedisConn` and
`CheckStatus` are one action each. `Execute` is the three `Execute*` methods:
reconnect if `status_` is false, then the command. `dead` are the connections
whose socket an outage has cut. `lost` are those destroyed without being
uncounted.

**ThreadPool.** What runs under `queue_mutex` is one action; `notify_one` after
the unlock is its own. Wakeups may be spurious. Tasks may enqueue tasks.

**MongoPool.** A thread has the pool its copy of `api` pointed to when it was
started. A call is a few steps: `Call` (or `RefuseEmpty`), `Pop` (or `PopNull`,
which needs a timeout in the url), then `Write` for the commands, or `OpenCursor`,
`SelectRow`/`FindRow`, `ScanStops` and `SelectEnd`/`FindEnd` for the queries, then
`Push`. `FindRow` is the early return of `find_coll`. The mongoc library is
external: what it does on a destroyed pool is undefined, and the model stops there
(`undefined = "pool"`); it also stops where the selects use a `doc` that no `next`
has set (`undefined = "doc"`), unless the stack holds a null there. What a call
returns is `result`; the documents are left to `NoticeStore`.

**NoticeStore.** The collection is a sequence of documents with string fields
(`flat`) and arrays of notices. An operation is one step, since the server does one
command at a time; it may be done without being answered. The loops of
`GetVecRecord` (over the fields of a document and over the elements of an array) and
of the selects (over the cursor) are recursive functions that give the state after
each turn, with the code's `tmp_data` and `msg_data`. Notices have
string fields only, as this code writes them. Asking for fields with the value
`"1"` is taken to include them.

**SelectServer.** The loop is cut at its system calls: `Select`, `Stdin`, one
`Broadcast` step per entry, `Accept`, one `Clients` step per entry and `Echo`
steps until all bytes are sent, so that clients, the operator and SIGINT act in
between. Sockets are never closed before the end, so they are not reused, and their
numbers grow in the order of the accepts (`fds`). A reset may or may not take the
bytes the server has not received with it. The standard input is a terminal: a read
returns one line. `address_len`, which `accept` is given and nobody sets, is what the
stack holds; only its sign matters. A negative one makes `accept` take the connection,
close it and fail (`Shut`), and stays; any other is overwritten with the size of the
address. `CONCURRENT_MAX` is larger than an `fd_set`: with a descriptor past
`FD_SETSIZE` in the table `FD_SET` writes behind the set, which goes unnoticed or, as
`FdSetOverrun`, ends the model; so does the write past `recv_msg`. What clients do
once the server is down is left out.

**LoopThreads.** `Construct` is the construction of one member; the thread runs as
soon as `thread_` is there. What it does with a member that is still raw memory is
undefined, and here it may go well, hang the thread or end the program; a mutex
constructed over a locked one is free. `early` remembers such threads. All calls of
the pool come from one owner, as in `TcpServer`. `sprintf` is given a
`std::string` for its `%s`; the compiler passes its address, what is printed goes
into a thread's name that nothing reads, and the model leaves it out.

**Chat.** `up` and `down` are the two streams of a connection; any prefix of what is
on its way arrives in one call of `onMessage`, which is an operator on the input
buffer, the same in both programs: a loop whose `Turn` takes one message, meets an
invalid length, or finds no whole message. `send` of the server appends the frames to the
streams of everybody in `connections_`. The muduo library is external; the model
uses of it that `send` keeps the order and drops what is sent after `shutdown`,
that `shutdown` ends the stream after what was sent before, and that
`onConnection` is called when a connection comes up and when it ends. `ChatService`
is the room: one log; everybody hears the same lines in the same order, without
gaps from the moment it joined.

**EpollRoom.** Descriptors are numbers, the lowest free one first, and are reused.
Bytes are counted in messages. A client sends its `buff`, at first a hello and then
what it has received, as much as there was and `buff` had room for; `strlen` of a full
`buff` runs on behind it, and counts more. So the server may need several `recv`s
for one `send` of a client, for which there is one edge.
`Wait` is `epoll_wait`; the events it returns are handled in any order, one action
each. A failing `send` ends the program: by SIGPIPE, or because the message about it
prints the number `errno` with `%s`. `addfd` and `sendBroadcastmessage` have no
`return`. The model is of a build without optimisation, in which the calls come
back and the result is what the last call has left in the register: after the
broadcast part of an address, which the caller may find negative and exit. A
compiler that takes the missing `return` as unreachable ends the server with its
first `addfd`.

## 3. Runs

| run | configuration | checks |
|---|---|---|
| `buffer` | chunks of up to 3 of 2 characters, 2 reserved and 2 usable cells, vector up to 8 | `BufferInv`, refinement of `ByteQueue` |
| `reactor` | 2 clients, 4 and 1 bytes, one-byte buffers, one may reset, the other send an urgent byte | `NoDanglingChannel`, `StreamIntact`, `NoLostWakeup`, refinement of `EchoService`, `EchoComes`, `GoneIsRemoved` |
| `reactor_default` | the default callback, an input buffer of 3 bytes, one descriptor for two clients, an event vector of one entry | `DroppedForCause`, `BytesAreRead` |
| `redis` | 3 threads, flat and nested calls, a pool of at most 2, one outage, one `ReleasePool` | `OnePlace`, `PoolBound`, `FailsOnce`, `CallReturns` |
| `redis_max` | 3 threads, a requested limit of 2, a default of 3 | `WithinRequestedMax`, violated |
| `threadpool` | 3 workers, 5 tasks | `NoLostWakeup`, refinement of `TaskService`, `EveryTaskEnds`, `DestructorReturns` |
| `mongo` | 2 threads, 2 calls each, 2 pools of one client, pop with a timeout | `OneOwner`, `NoCursorLeft`, `ReinitIsSafe`, `OnlyFindLoses`, `CallReturns` |
| `notices` | 2 documents, 2 arrays of at most 2 notices, 2 notices with different fields | `RowsHoldNotices`, `DeletedIsGone`, `PushedIsSeen`, `UpdatedIsFound` |
| `select` | 3 clients, one of which sends 2 bytes and may leave, one entry, 2 descriptors, one of them past the `fd_set`, a receive buffer of one byte, either sign of `address_len`, one line | `OwnBytesInOrder`, `Accepted`, `EntryIsFreed`, `SigintEnds` |
| `chat` | 2 clients, bytes of one bit, lengths of two bytes, lines of 1, 0 and (too long) 2 bytes | refinement of `ChatService`, `EveryoneHears`, `GoneIsErased` |
| `room` | 3 clients that send twice, once and not at all, the first two may be killed, 2 descriptors, a receive buffer of one message, a `buff` of two | `NoStaleDescriptor`, `DroppedForCause`, `DownForCause`, `NobodyWaits` |
| `loops` | 3 threads with a callback, 7 calls of `getNextLoop` | `ReadyLoopsInTurn`, `StartReturns` |

Runs with liveness properties are under `FairSpec`, the others under `Spec`
(`BufferSpec`, `StoreSpec`). The
`TypeOK` of `Reactor`, `RedisPool`, `MongoPool`, `ThreadPool` and `LoopThreads`, and
those of `NoticeStore` and `Chat`, which the proofs' modules state, are not checked
but proved.

**Why the bounds are enough.** One-byte buffers make every buffer full after one
byte, so that every partial read, partial write and blocked `send` happens within
four bytes. `evsize` starts at 1, so that two ready sockets exceed it. With three
threads and room for two connections there is always a thread that has
to wait for another. Three workers and five tasks make a worker that waits, one
that runs and one that has been notified coexist. In `mongo` two threads compete
for one client, so that one of them waits, times out, or finds the client lost, and
two calls let a thread meet what an earlier one has left behind. Two notices in an array are
enough for a field to be carried over, two documents for an id to be ambiguous.
In `select` the second client finds the table full, or the entry of the first free
again and its own descriptor past the `fd_set`; for the third no descriptor is left, so
that `accept` fails with a connection waiting; two bytes are twice the receive buffer. In `chat` a frame of two or three bytes is cut in every place,
several frames arrive at once, and every length from 0 to one too long occurs. In
`room` two clients connect at once, the third comes when no descriptor is left or
takes over that of one who has gone, a
client that has received two messages sends back more than the server's `recv` takes,
and a socket for two messages is soon full. Three loops and seven calls go round the
pool twice.
`CHECK_DEADLOCK FALSE` is used
where the system may rest: a server whose clients have all left, threads that have
made all their calls, a pool that has been destroyed.

**What the runs show beyond the properties' names.**

- `NoLostWakeup` and `GoneIsRemoved` have an exception, `Stranded`: if the input
  buffer was filled with bytes left in the kernel, and the peer then resets, it
  may be `send` that collects the error. `handleWrite` ignores it and the
  connection stays in `connections_` for ever. The exception is exact: outside it
  the properties hold.
- A connection whose client sends an urgent byte is closed, because `EPOLLPRI`
  calls `handleRead` and `recv` returns nothing. `EchoService` counts it among
  the reasons to close.
- A client that ends its stream while its echo is still being written may lose
  the rest: `handleRead` closes at once. `EchoComes` promises the echo to
  clients that stay.
- With the default message callback the input buffer fills up; `recv` with no
  room returns 0, and a live connection is closed (`DroppedForCause`).
- `CallReturns` of `RedisPool` has one exception, `Exhausted`, which the calls that
  `RedisManage` offers never bring about. `HGetAllByKeys`, which it does not offer,
  can use the pool up for good: all connections are held by threads that wait for a
  second one, or destroyed by its early return. `ReleasePool` can too, since
  `pool_size_` goes on counting what it destroys.
- Without a timeout in the url, as in `main.cpp`, successful `find_coll` calls use
  up the pool and every later call waits for ever; `CallReturns` has exactly this
  exception. `main.cpp` itself only inserts.
- A second `mongodb_init` leaks the first pool, and that is why it is safe
  (`ReinitIsSafe`): the destructor of `MongoDBConnectionPool` is empty.
- Rows of `SelectNoticeColl` are exact only if the notices of an array have the same
  fields; otherwise a notice shows the missing fields of earlier ones.
  `DeletedIsGone` and `PushedIsSeen` need an id with one document: an update
  reaches the first, and `InsertNoticeColl` does not look whether there is one.
- With the default callback `readFd` swallows an end of stream that comes with the
  last bytes, and no new edge follows: the connection stays. With the echo callback
  the `EPOLL_CTL_MOD` of `send` puts the socket on the ready list again, so
  `GoneIsRemoved` is a property of the echo server only.
- In `select.cc` the comment at line 117 says that entering `.quit` ends the server;
  `fgets` keeps the newline, so `strcmp` with `".quit"` fails and the line is
  broadcast. Only `.quit` followed by the end of the input ends it.
- A thread of `EventLoopThread` that runs ahead of its constructor may find an empty
  callback, a mutex that is then constructed anew, or worse; `ReadyLoopsInTurn` and
  `StartReturns` hold for all others, and say so (`early`).
- `getLoopFroHash`, which nothing calls, tests `empty()` the wrong way round: with
  loops it returns the base loop, without loops it takes a remainder by zero.
- A chat client that types before its connection is up loses those lines without a
  word. A line that is too long cuts its author off: it still hears what was sent
  before, and its earlier lines have reached the room.
- Of two clients that connect to `epoll.cc` at once one waits until a third connects
  (`NobodyWaits` speaks of the first in the queue at an event of the listener).
- `epoll.cc` goes down with a client that resets, or does not read, at the wrong
  moment; `DownForCause` lists the causes.
- `select.cc` serves as many clients in its life as it has descriptors, and none at
  all when `address_len` happens to be negative: each one is then accepted and closed
  at once (`Accepted` has these two exceptions and a server that is down).
- `OnePlace` and `CallReturns` of `RedisPool` take any number of connections lost by
  `ReleasePool`; `ReleaseRedisConn` pops half of the queue, and nothing says how many
  it should.

**Finding.** `redis_max`: `InitPool` assigns `pool_max_size_` to itself
(`redis_pool.cpp:379`), so the limit in `InitPool("192.168.0.172",6379,"",1,50,100)`
(`mian.cpp:10`) is not used. The constructor's 150 is compared with a count that
starts 50 too high, and the pool stops at 101 connections.

**Fairness.** `Reactor`: the loop's thread runs (`WF` of everything it does), and
a client that has not reset its connection keeps reading. The second is needed
because `send` blocks: one client that does not read stops the loop for
everybody, and no property that involves other clients' progress holds without
it. `RedisPool`: each thread that can take a step under the mutex does so. This
is weak fairness of `Work(t)`: `GetPop` is not continuously enabled while others
take the connections, but every thread makes finitely many calls, so at last it
is. Neither the server's return nor calls of `CheckStatus` are assumed.
`ThreadPool`: threads are scheduled and tasks end; the owner need not destroy the
pool, but goes on once it has begun. `MongoPool`: a thread inside a call goes on
when it can; the server or a socket timeout answers it, and as with `RedisPool`
finitely many calls make weak fairness of `pop` enough; a timeout of `pop` may
happen and is not relied on, so `CallReturns` covers urls without one. `SelectServer`: the loop's
thread runs, a client that stays reads, and the kernel of a client that has closed
answers what it is sent with a reset; both are needed because `send` blocks.
`LoopThreads`: the owner and the threads run, and a thread that wants the mutex gets
it if it is free again and again (`SF` of `Lock`): `startLoop` may take and release
it on spurious wakeups. `Chat`: both loops handle what epoll reports, a connection
under way comes up, and `main` returns after its sleep; nobody has to type or to
leave. `EpollRoom`: the server runs, a client reads what has come, kernels answer;
nobody has to connect, to say hello or to leave.

Every property has a mutant in `PROJECT.json`, a plausible slip in the code under
which TLC finds the property violated.

## 4. Theorems

All for arbitrary constants that satisfy the named assumptions (`ByteAssumption`,
`SizeAssumption`, `ChunkAssumption`, `LengthAssumption`, `SocketsAssumption`,
`ReactorAssumption`, `MongoAssumption`, `LoopThreadsAssumption`, `SelectAssumption`,
`EpollRoomAssumption`, `StoreAssumption`, `ChatAssumption` and the two
`PoolAssumption`s), which only say what kind of value each constant is. `LinesFit`
says more: nobody types a line whose length does not fit into the four bytes before
it (4 GB); such a length would be cut, and the room's lines with it.

- `CcnetProofs!BufferSafe`: `BufferInv`, which is `BufferTypeOK`, `IndicesInBounds` and
  `DrainedIsReset`. Their conjunction is inductive, none of them is: the reset of `retrieve` and the
  bounds need each other, since `retrieve` compares its argument with a
  difference of indices.
- `CcnetProofs!BufferImplementsByteQueue`: every step of `Buffer` is a step of
  `ByteQueue` under `bytes <- Contents`. Uses `BufferSafe`: without the bounds,
  `Contents` would look outside the vector.
- `ReactorProofs!ReactorSafe`: `NoDanglingChannel`. The invariant is `ReactorInv`
  = `TypeOK`, `Registration` (the poller's tables, the epoll set and
  `connections_` agree, and a connection there is connected and registered for
  reading) and `LoopState` (the channels still to be handled belong to
  connections in `connections_`, the one being handled is owned by the guard).
  Both are needed: a channel that is removed by its own handler is safe because of
  the guard, one that is still in `active_channels_` because no other handler can
  remove it.
- `ReactorProofs!ReactorStreamIntact`: `StreamIntact`, from `ReactorInv` and the
  facts about concatenation at the head of the module: every action moves a piece of
  the stream from one of its five places to the next.
- `ReactorProofs!ReactorDropsForCause`: the action property `DroppedForCause`, with
  either callback. `handleRead` takes a `recv` of 0 for the end of the stream, so it
  must be called only when there is something to read: `EventsHold` says that what
  `epoll_wait` reported is still true when the handler of that channel runs, which
  holds because no other handler reads from its socket.
- `ReactorProofs!ReactorNoLostWakeup`: `NoLostWakeup`, with the echo callback (with
  the default one input stays in the buffer, and `BytesAreRead` is the question).
  `NoLostWakeup` speaks of the loop's state only loosely and is not inductive. The
  invariant says for each connection which of the reasons applies (`AllAwake`): to
  read means on the ready list, or reported as `IN` and not handled yet, or waiting
  for the output to drain; room to write means on the ready list, or reported as
  `OUT`, or stranded. With it go `Waiting` (a connection in the backlog has no state
  yet) and `Emptied` (the echo leaves nothing in the input buffer).
- `ReactorProofs!ReactorImplementsEchoService`: every step of the reactor with the
  echo callback is a step of `EchoService` or leaves its variables alone, and the
  initial states are its initial states. A line is `"open"` while its connection
  is in `connections_`; said, heard and left are the client's own variables. The steps
  use `StreamIntact` (what is read next is the byte that comes next), `EventsHold`
  (a line closes only when its client has left) and `Emptied`.
- `RedisPoolProofs!RedisPoolSafe` (`OnePlace`), `PoolIsBounded` (`PoolBound`) and
  `OutageCostsOneCommand` (`FailsOnce`). The invariant adds `TypeOK`, `Holding`
  (which program counters hold which connections) and `Placed`, which states
  `OneOwner` and `NoneForgotten` together as one place per connection.
- `ThreadPoolProofs!ThreadPoolSafe` and `ThreadPoolImplementsTaskService`. The
  invariant adds that the queue holds the last tasks accepted, in order
  (`InOrder`), that the tasks that have begun are finished or with one worker
  (`Busy`, `Taken`), and that a worker returns only from an empty queue of a
  stopped pool (`DoneEmpty`).

- `MongoProofs`, about `MongoPool`: `ClientsHaveOneOwner` (`OneOwner`), `CursorsAreClosed`
  (`NoCursorLeft`), `ReinitDisturbsNobody` (`ReinitIsSafe`) and
  `OnlyFindLosesClients`, the action property. The invariant `MongoInv` adds
  `Started` (a thread that runs has a pool), `NoCursorOfOthers` (a call about to
  push has no cursor on its client, without which `Push` could leave one in the
  pool) and `DestroyedByCleanup` (a destroyed pool means that the library was
  cleaned up).
- `MongoProofs`, about `NoticeStore`: `RowsHoldNoticesAlways` (`RowsHoldNotices`),
  `DeletedIsGoneAlways`, `PushedIsSeenAlways` and `UpdatedIsFoundAlways` (the action
  properties of those names), for documents, arrays and collections of any length.
  All rest on `StoreTypeCorrect` (`StoreTypeOK`: the collection is a sequence of
  documents) and on what the loops compute. `RowOK` says what a row has to do with its
  notice, and `Holds` that a sequence of rows does so with a sequence of notices; each
  turn of a loop preserves `Holds`, for the elements of an array with the addition that
  `tmp_data` has no field but those of the elements so far. `Kept` is characterised
  once (which elements it keeps, what a type of it is), and serves the cursor, the
  projection, `$pull` and the new arrays of `$push`.
- `ChatProofs!ChatImplementsRoom`: `ImplementsChatService`, every step of the server and
  the clients is a step of `ChatService` or leaves its variables alone, for any clients,
  lines, byte and header sizes. The argument has three parts. The codec: the length
  that `Encode` writes is the one that `PeekLength` reads (`PeekedLength`, from
  `LinesFit`). The decoder: if a buffer holds a piece of the concatenated messages of
  one sequence of lines that begins at a message (`Sits`), then after each turn what
  has been taken are the lines from there on, and the rest begins at a message again
  (`Took`, `TurnTakes`, `onMessageTakes`). That it does not stop too early is a matter
  of `EveryoneHears`. The streams: `ChatInv` says of every connection that buffer and wire together
  are such a piece (`Stream`), of the client's script upwards (`Upward`), of the
  room's log downwards (`Downward`), and that it reaches up to the last line typed,
  or logged, as long as nobody has ended it. Each end of it is needed: the
  beginning tells which line is heard next, the end where the next one is
  appended. `Exit`, `ClientClose` and `ServerClose` shorten a piece and keep its beginning.

- `CcnetProofs!LoopThreadsSafe`: `ReadyLoopsInTurn`, for any number of threads,
  with or without a callback. The invariant adds `PastCallback` (a thread past its
  callback has called it or ran ahead), `InOrder` and `OneByOne` (what `start` has
  done so far) and `Recent`: the k-th last loop handed out is k places before
  `next_`, round the end, without which nothing is known of earlier calls.
- `EpollRoomProofs!DropsForCause`: the action property `DroppedForCause`, for any
  number of clients and descriptors. The invariant: an event still to handle names
  an open, readable socket (`EventsAreReal`), which survives the reuse of
  descriptors because no two clients share one (`OneClientEach`) and who waits in
  the backlog has none (`Waiting`). `Counts`, an invariant by itself, says that what
  a client sends back is a number of messages: a `send` leaves a readable socket
  readable.
- `EpollRoomProofs!RoomNoStaleDescriptor`: `NoStaleDescriptor`, from the same
  invariant and `Listed`: the client list names every open descriptor once and
  nothing else. What `list::remove` leaves is proved by counting the indices below
  the one removed (`LeftBelow`, `ForgetOne`).
- `EpollRoomProofs!RoomDownForCause`: the action property `DownForCause`. Added are
  `ErrorsAreResets` (a socket in error has been reset by its client) and `AcceptDue`
  (a pending event of the listener has somebody waiting, so `accept` fails only for
  want of a descriptor). `AcceptDue` alone is not inductive: a socket without a
  descriptor on the ready list would be reported as the listener.
- `SelectServerProofs!SelectOwnBytesInOrder`: `OwnBytesInOrder`, for any number of
  clients, entries, lines and buffer sizes. The property speaks of what is on the
  wire only; the invariant follows the bytes through all the places they can be in
  (`Stream`): 1..g read by the client, g+1..m on the wire between other units
  (`Carries`), m+1..r in `recv_msg` while the loop echoes to that client, r+1..sent
  in the kernel; after an error only the first two matter, as nothing more is put on
  the wire, and so for a client that `accept` has shut out, which has been sent nothing. Each kind of step is a lemma about `Stream` (`StreamSend`, `StreamRead`,
  `StreamReceive`, `StreamEcho`, `StreamUnit`, `StreamBroken`). `Waiting` says that a
  client about to be accepted has been sent nothing, which the refusal relies on,
  and `LoopState` that the echo has a client and bytes left to send.

**Only model-checked.** The liveness properties (`EchoComes`, `GoneIsRemoved`,
`BytesAreRead`, `CallReturns`, `EveryTaskEnds`, `DestructorReturns`, `Accepted`,
`EntryIsFreed`, `SigintEnds`, `EveryoneHears`, `GoneIsErased`, `NobodyWaits`,
`StartReturns`): liveness under fairness is out of the prover's reach. Every invariant,
action property and refinement of the runs that pass is stated by a theorem.

**Induction.** The library's induction theorems take the induction predicate as an
operator, which the installed provers cannot instantiate. The proofs take it as a set
instead: `SetInduction` says that a subset of `0..n` that has 0, and with every k < n
also k + 1, is all of `0..n`; it follows from the existence of a least counterexample.
A fact about the k-th value of a recursive function is proved by showing this for the
set of those k for which it is true. That the function is what its definition says at
each k is shown first, one lemma for each loop (`KeptStep`, `ArrayStep`, ...): no
prover here takes it for granted.

## 5. Not modelled, and the plan

What is left is the liveness properties, for a prover that reaches them, and the
components below.

Left out:

- `inc` (headers of acl and libevent: about nine tenths of
  the repository's lines) and `cmake-build-debug`: not this program's code. The
  models cover the repository's own concurrent programs, which are a small part of
  its lines.
- `acl-redis-test`: a `peek` and a `put` of acl's pool around each command, without
  the `put` when the command fails. What that costs depends on the pool inside the
  library, of which only headers are here.
- `libevent_test`: each callback is one call of libevent, and the client writes to a
  bufferevent from two threads without the locking libevent asks for.
- `mongo-cxx-test`: calls of the mongocxx driver, one after the other.
- `unix_tcp`, `catfly/client`, `catfly/server`, `listen_test`, `hash_psd`, `test`,
  `fileio.cpp`, `testasm.cc`: one thread and one blocking call after the other, or
  no state at all.
- `catfly/SmartPointer`: a count used by one thread. (Its assignment operator
  increments and decrements its own count instead of the other's; the example never
  assigns.)
- `ParamRly`, `ParamRlyHash`: a walk of a reply without state.
- `TcpAddr` and all printing and formatting; `TcpConnection::shutdown` and
  `Channel::disableReading`, which nothing calls; destructors that run when the
  process ends.
