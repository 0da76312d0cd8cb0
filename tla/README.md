# Verification of the chatroom server

TLA+ specifications of the chatroom in `src/` (the C++ server under
`src/src/server` and `src/include`, and its console client under
`src/src/client`), checked with TLC, with theorems about the core checked by
TLAPS. The models are translated from the source; the comments
in the modules name the functions, and the `map` of `PROJECT.json` gives the
lines of every definition.

Contents: 1 the system, 2 the modules, 3 the runs, 4 fairness, 5 what the models
showed, 6 proofs, 7 what is not modelled, 8 plan.

## 1. The system

A server process accepts TCP clients that send frames (four bytes of length,
then a payload `command|field|...`). Several server processes form a cluster
through one MySQL and one Redis.

### Threads and what they share

```
 clients --TCP--> REACTOR (main thread, epoll) --ring buffer--> PARSERS (ParserPool)
                    ^   | timerfd: check_timeout                    | addTask
                    |   | close_clint                               v
       eventfd + resp_queue <------------------- WORKERS (ThreadAndConnectionPool)
                                                   |  get_conn/en_conn -> MySQL
                    DbHandle thread <--add_task----|  publish/subscribe -> Redis
                    (asynchronous SQL)             |
                    Redis observer thread --SUB_MSG task--> WORKERS
```

| Component | State | Operations |
|---|---|---|
| Reactor (`epoll_ser.cpp` `main`, `handle_new_connect`, `handle_clint_data`, `handle_response`, `close_clint`) | `client_buffers`, epoll set, batch of events, `resp_queue`, `running` | accept, read into the ring, announce to the parsers, send responses, close |
| Ring and framing (`Protocol.h`, `ClientBuffer`) | `buffer`, `head`, `tail` | copy in, `size`, `extractMessageCircular`, resynchronisation by one byte |
| ParserPool | `_pending_fds`, `_processing_fds`, `_running` | `addFd`, `clearFd`, `workerLoop`, `processBuffer`, `stop` |
| Worker threads (`ThreadAndConnectionPool`) | task queue, `threadCount_`, `idleThreadCount_` | `addTask`, `workerLoop`, `managerLoop`, `stop` |
| Database connections (same class) | `conns_`, `connectionCount_` | `get_conn`, `en_conn`, retirement, `stop` |
| DbHandle | `_tasks`, `_running` | `add_task`, `handle_db`, `start`, `stop` |
| Heartbeat timers | `latest_expire`, heap `hp` | `update_expire`, `check_timeout`, `is_valid` |
| Sessions | `user`, `clint_fdtoname`, `clint_nametofd`, `user_status`, `online_users`, `redis_subscribed_channels` | `sign_up`, `sign_in`, `q`, `close_clint` |
| Messages | `chat_log`, response queue, SUB_MSG tasks, Redis channels | `single_chat`, `multi_chat`, `broadcast_chat`, `group_chat`, `invite_group`, `SUB_MSG`, unread messages at `sign_in` |
| Redis wrapper | `_cmd_queue`, two contexts, `_running`, `_keepalive_running` | `publish`, `subscribe`, `observer_channel_message`, `process_pending_commands`, `keepAliveLoop`, `reconnect`, `~Redis` |
| Friends, groups and their caches | `friend_relation`, `conversation`, `conversation_member`, Redis keys with a lifetime | `add_friend`, `handle_friend`, `delete_friend`, `create_group`, `join_group`, `quit_group`, `invite_group`, `show_groups`, `cache_is_friend`, `cache_get_user_groups` |
| Sending (`sendMessage`) | the rest of a frame, `retry_count` | the write loop, retries on `EAGAIN`, giving up |
| Console client (`epoll_client.cpp`) | `cur_state`, the keyboard's pipe, `heartbeat_started` | `handle_pipe_input`, `handle_server_message`, `heartbeat_thread`, `handle_stdin`, `finish` |
| End of the process (`main` after its loop) | clients to close, the globals | `close_clint` of each, `DbHandle::stop`, the destructor of `redis_` |
| `CpuGuard`, `Logger`, `Config`, `MyDb`, web proxy | little | see section 7 |

### What is hard here

* **Numbers stand for connections.** A `Task`, a `Response` and the heap of
  timers name a client by its descriptor number, which the kernel reuses at once.
  Everything queued for a closed connection is a stale reference.
* **Five records of one fact.** A login is two maps, a row of `user_status`, a
  member of a Redis set and a channel subscription; workers, the reactor and
  DbHandle change them one after the other, without a common lock.
* **Three ways to one client.** A message can come by response, by SUB_MSG and as
  unread message; the row's `is_delivered` is what prevents loss and repetition.
* **Condition variables.** `ParserPool::stop` and `DbHandle::stop` change the flag
  and notify without the mutex. `ThreadAndConnectionPool::stop` notifies without
  it too, but its waits time out.
* **Counters moved before the fact**, with the lock released meanwhile
  (`connectionCount_` in `get_conn`), or read one after the other
  (`managerLoop`).
* **A ring with no full flag**, filled at any position in chunks of any size.
* **Caches nobody invalidates.** Friends and groups are kept in Redis for a time;
  the functions that would delete a key when a row changes have no caller.
* **A connection replaced under its users.** The keep-alive thread frees both Redis
  contexts and starts a new observer while workers publish, and while the main
  thread may be destroying the object.
* **Sockets that are full.** `sendMessage` gives up in the middle of a frame, and
  two threads of the client write to one socket.
* **Two clocks.** The client's heartbeats against the server's time-out, with no
  heartbeat before the first successful sign_in.
* **Edge-triggered accept**, with level-triggered clients in the same batch.

The correctness properties of each component are those of section 3; the hazards
they are aimed at are listed, at their lines, in `PROJECT.json`.

## 2. The modules

| Module | Models | Correspondence |
|---|---|---|
| `ParserPool` | reactor's reading, `addFd`, parsers | A step is what happens between two lock operations. The ring of a descriptor is `head`, `tail`, counted in *items* (a frame, or a byte where the length is invalid). The moment between the test of the wait predicate and the wait itself is a state (`pc = "block"`, the mutex held). `gen` numbers connections, `tasks` is the history of tasks pushed: both are ghosts. |
| `SendMessage` | `sendMessage` on one socket | What a thread still has to write of its frame, its retries and its place among the frames begun; the socket takes as many bytes as it has room for. `torn` is a ghost: the first frame that was given up or written into. |
| `RingBuffer`, `FrameStream` | both ends of a connection, byte by byte | `buffer`, `head`, `tail` as in the code, modulo the size; a recv of any size up to the chunk; the senders of `SendMessage` at the other end. `FrameStream` is what the two promise: the messages sent come out, in order, once, up to a torn one, until the connection closes; `RingBuffer` implements it (`StreamSpec`): its steps are proved, its liveness is checked by the run. |
| `EventLoop` | epoll, accept, close, descriptor numbers | The kernel gives the lowest free number; a batch is the set of events ready at `epoll_wait`, taken in any order. `Other` is any thread that opens descriptors (MySQL, Redis). `quits` are the `q`s on their way to a worker and `doomed` the queued responses with `close_after`, each with a ghost that says who was meant. `tick` is the timerfd; which connections `check_timeout` finds expired is left open here (it is what `Heartbeat` is about). `overtaken` and `refused` are ghosts: a connection was closed while an event or a `q` about its number was still to come, and `epoll_ctl` has refused one. |
| `Heartbeat` | timers | `latest_expire` and the heap hold remaining ticks; `Tick` lowers them all. `update_expire` is three steps, `check_timeout` pops under the lock and closes without it. |
| `ThreadPool` | worker threads and manager | Tasks are counted. The manager reads the backlog, the number of threads and the idle ones in three steps, as the code does. |
| `ConnPool` | database connections | Connections are counted; MySQL may refuse a ping or a new connection at any time. `mutex` is held only where `get_conn` keeps the lock from one loop to the next. |
| `WorkerPool` | the two above together, which is the class `ThreadAndConnectionPool` | They share `running_`, the workers and the manager: taking a task is `ThreadPool!Take` and `ConnPool!Call` in one step, its end is `ThreadPool!Done` with `ConnPool!EnConn`, and the manager's round goes from threads to connections. |
| `DbWriter` | asynchronous SQL | A statement is the number of its `add_task`. |
| `RedisLink` | class `Redis` | The state of a context is what hiredis has noted in it (`ok`, `dead` and not noticed, `err`, `late` for a read that timed out, `null`); a command is the number of the call that queued it. The observer, the keep-alive thread, a worker's command and the destructor take a step per lock operation, call of hiredis or flag. `misread` and `crossed` are ghosts for the two cases in which the code leaves its own rules. |
| `Shutdown` | `main` after its loop, over `DbWriter` and `RedisLink` | It EXTENDS `DbWriter` and has `RedisLink` as an instance; workers use both all the while, `close_clint` queues a statement and a command per client, then `DbHandle::stop` and the destructor of `redis_` follow. |
| `Client` | the console client | `cur` is `cur_state`; the tables `MenuLine`, `Question`, `LastQuestion` are the branches of `handle_pipe_input`; `Answer`, `Push`, `TimeOut`, `HangUp` are what a client can see of the server. `left` and `nap` are the two clocks. |
| `Sessions` | who is logged in | `sign_up`, `sign_in`, `q`, `close_clint` and the asynchronous statements, one by one, over the five records. |
| `Delivery` | a message from one server to another | Per recipient: lookup, INSERT, response or publication; SUB_MSG; unread messages; the command queue of Redis; reconnection. A step per statement, also the one that fails. `nameFd` and `fdName` are the two maps; `close_clint` forgets the name it finds on the number, whoever had signed in there. A client may hang up at any place of her `sign_in`, whose handler goes on and ends in `LoginEnds`. The commands differ for one recipient in whether they have a row, mark it, and look at a failed INSERT; `WrongRow` is the row that the number they publish names when it is not theirs. |
| `Friends` | friends, groups, their caches | A worker executes a command statement by statement; a row of `friend_relation` is its status or "none"; of the two Redis keys of a user the model has the contents and the ticks left to live. `SADD` on a missing key creates one that lives for ever (`Unset`), until the handler's `EXPIRE`. An empty value of `user_groups:` is the same as no key, because `cached.empty()` takes it so. `orderly` is a ghost. |
| `ParserPool_proofs`, `WorkerPool_proofs`, `Reactor_proofs`, `Heartbeat_proofs`, `Sessions_proofs`, `Friends_proofs`, `Delivery_proofs`, `Shutdown_proofs` | theorems; those about `ConnPool` and `ThreadPool` are in `WorkerPool_proofs`, those about `EventLoop` and `RingBuffer` in `Reactor_proofs`, those about `DbWriter` and `RedisLink` in `Shutdown_proofs`, those about `Client` in `Delivery_proofs` | section 6 |
| `MCParserPool`, `MCRingBuffer`, `MCEventLoop`, `MCDelivery`, `MCFriends` | instances for TLC | definitions for constants that a `.cfg` cannot express |

How the modules meet: `RingBuffer` justifies the items of `ParserPool`;
`ParserPool` pushes the tasks that `WorkerPool` takes; `WorkerPool` composes
`ThreadPool` and `ConnPool`, which is what each taken task acquires first; `EventLoop` has the kernel's side of the closes that
`Heartbeat` and `Sessions` carry further; `DbWriter` is the queue `dbq` of
`Sessions` and `marks` of `Delivery`, whose steps are in order because of
`DbWriter!InOrder` (`Delivery` marks independent rows and keeps a set), and `RedisLink`
is its `cmds` and its `RedisReconnect`, which are in order because of
`CommandsInOrder`; `Shutdown` composes `DbWriter` and `RedisLink` from where
`EventLoop` ends; `Client` is the other end of a connection of `Heartbeat`, and
`SendMessage` of one of `RingBuffer`; `Friends`
has the question `Delivery` takes as answered, whether a `single_chat` may go out
at all.

The definitions whose comment begins with "mutant" (in either case) are not part of any
specification: each is a plausible wrong form of the action that follows it, and
`PROJECT.json` says which property notices.

### Behaviour of clients as a parameter

The server does not enforce some orders that well-behaved clients keep. They are
named members of a constant, so that a run says exactly what it assumes:

* `Sessions!Courtesies`: `patient` (a client neither hangs up nor sends another
  request while one is being handled), `one_session` (a user signs in only when her
  earlier session is gone), `unhurried` (and only when the queued statements of her
  sign_up and of its close are done).
* `Delivery!Habits`: `patient` (a user does not hang up while her `sign_in` is
  handled), `quiet_leave` and `quiet_login` (no message to a user is on its way while
  she hangs up, or while she signs in). What `Sessions` calls `one_session` is built
  into `Delivery`: a user signs in again when the handler of her last `sign_in` has
  ended and no `close_clint` is about to forget her name.
* `Friends!orderly`: the pairs that keep the rules of `Proper` (one request at a time
  about a friendship; ask only who has not asked, answer only who asks). Others may
  break them in the same run; the property is stated for the pairs that do not.
* `RingBuffer!MayFill`: whether the client may fill the ring to the last byte.
* `Delivery!MaxUnread`, `BadInserts`, `WrongRow`: how many unread messages fit in the
  buffer of `sign_in`, which INSERTs may fail, and which row has by chance the number
  published without one.
* `SendMessage!Start` begins no frame after a torn one, since the code says nothing of
  what a receiver makes of the rest.

Section 5 says what happens without each of them.

## 3. The runs

| Run | Bounds | Shows |
|---|---|---|
| `ParserPool` | 2 parsers (the `parser_thread_count` of `server.conf`), 2 descriptors, 2 connections, 2 items each, one item invalid | `OneParserPerFd`, `InOrder`, `NothingLost`, `NoStrandedData`; `EventuallyParsed`, `StopReturns` |
| `RingBuffer` | base 4, length field of 2 digits, messages of 1 and 3 bytes, ring of 8, chunks to 8, 3 frames, 2 sending threads, a socket of 6 bytes, 1 retry | refinement of `FrameStream` with its liveness (`StreamSpec`) |
| `EventLoop` | 2 clients, 2 descriptors, one `q` or one firing of the timer, one descriptor of another thread | `BuffersAreConnections`, `HarmNeedsOvertaking`; `EventuallyAccepted`, `EventuallyClosed` |
| `Heartbeat` | 2 descriptors, 1 worker, time-out of 2 ticks | `TimerArmed`; `SilentIsClosed` |
| `Client` | time-out of 8 units and period of 2 (the code's 60 s and 15 s), inbox of 2, 1 fault | `Matched`, `KeptAlive`; `EventuallyFree` |
| `WorkerPool` | 3 identities, 1 to 2 threads, 4 tasks, 0 to 1 connections, MySQL may refuse | `CountersExact`, `Elastic`, `NoOrphans`, `CountExact`, `WithinLimit`; `EventuallyTaken`, `StopReturns` |
| `ConnPoolRefused` | 3 workers, 2 connections | `NeverCrashes` is violated (finding) |
| `Shutdown` | 1 client to close, 2 statements, 2 commands, 1 outage of Redis | `InOrder`, `ThreadsSafe`, `CommandsInOrder`, `WorkersSafe`; `LinkRestored`, `ProcessEnds` |
| `Sessions` | 2 descriptors, 2 users, one of them new, 2 workers, 4 connections, all courtesies | `RoutedToOwner`, `MapsInverse`, `RecordsAgree`; `QuitDisconnects` |
| `Delivery` | 2 servers with 1 descriptor, 2 users, 2 messages, 2 logins, 1 lost Redis connection, 1 INSERT that may fail, all three habits | `NothingLost`, `AtMostOnce`, `OnlyAddressee`; `EventuallyReceived` |
| `Friends` | 3 users, one pair that changes and one of old friends, 1 group, 2 workers, 4 changing requests, 1 reader with endless questions, keys of 2 and 1 ticks | `Mutual`, `NoImmortalKey`; `CachesCatchUp` |
| `DeliveryLogin` | 1 user, 2 messages, no `quiet_login` | `NothingLost` is violated (finding) |

Why these bounds are enough to be interesting:

* *ParserPool.* Two connections on two descriptors run in parallel, or one after
  the other on the same number, so that a parser can still hold the number of the
  connection that is gone. With two parsers and two descriptors, a wakeup can be
  lost, spent on the wrong thread, or arrive between test and wait.
* *RingBuffer.* With a ring of 8 and three frames of 3 and 5 bytes (the field of four
  bytes is scaled to two digits), every frame and every length field straddles the end
  in some behaviour, and the chunks are all partitions. One message contains bytes that
  look like headers, and bytes with the value of an invalid length may precede a frame.
  The socket holds 6 bytes, so that two frames never fit: a frame is written in pieces,
  given up in the middle, or written into by the other thread.
* *EventLoop.* One descriptor fewer than there are users of descriptors: numbers
  are reused within a batch and accept can fail for want of one. One `q` or one firing
  of the timer is enough for a close that makes another event of its batch stale, with
  the next client accepted in between: `NoHarm` fails within these bounds.
* *Heartbeat.* With a time-out of two ticks a descriptor has several timers in the
  heap, old and new; two descriptors and a worker suffice for a reuse during a
  heartbeat.
* *WorkerPool.* More identities than `MaxThreads`, so that only the code's limit
  stops the growth; four tasks with a scale factor of two trigger it twice. One
  connection for two threads, so that a worker waits for one in the middle of its
  task; a minimum of none, so that the manager retires the last and a worker has to
  create it again, and MySQL may refuse. The server itself has
  as many connections as threads (section 6, `NoWaitHolds`).
* *Client.* The two clocks keep the proportion of the code, four periods to a
  time-out, with two units to a period so that the steps of the other threads fall
  between its beats; an inbox of two holds an answer behind somebody else's message.
  One fault is a heartbeat that fails, or a request that is lost or answered
  unintelligibly.
* *Shutdown.* Two statements and two commands are one of a worker and one of the closing
  main thread each; one outage meets every place of the three threads, also ~Redis, and
  a command that is dropped has one before or after it. What larger numbers would add
  is covered by the theorems of `Shutdown_proofs`.
* *Sessions.* Four connections over two descriptors: each number is reused, each
  user can come back while the close of the other is under way, and the new user
  signs up on a connection and signs in on the next.
* *Friends.* Four changes suffice for asking, accepting, deleting and asking again,
  or for two users who ask each other and both accept; two workers, for two
  handlers of one pair or one key; the reader's old friend keeps prolonging the key
  in which the deleted one still is.
* *Delivery.* One descriptor per server makes each login on a server reuse the
  number of the one before; two users, so that a message could reach the wrong one;
  two servers, so that a message may be local or remote, and a user may move. The
  message whose INSERT may fail can be of any of the five commands.

Deadlock is not checked where the system may stop (a bound is used up, the
process has ended, all clients are idle); `Heartbeat` never stops, since its clock
ticks, and there it is checked. The type invariants are in no run; each can be
added to a `.cfg`, and holds.

## 4. Fairness

* Threads are scheduled, and a handler that began goes on: weak fairness of each
  thread's step.
* A mutex that is released again and again is acquired in the end: strong fairness
  of the steps that lock, in `ParserPool`. In `WorkerPool` a worker that finds the
  queue non-empty is not overtaken for ever (`SF` of `TakeTask`).
* Timed waits end (`WorkerPool`): the code uses `wait_for`.
* In `RingBuffer` the reactor receives, the parser is called again for every arrival
  (which is what `ParserPool!EventuallyParsed` is about), and a sender in the middle
  of its loop goes on: it writes, retries or gives up.
* In `Shutdown` the main thread goes on once it has left its loop, the threads of
  `DbHandle` and `Redis` run, and Redis comes back: `connectInternal` can do nothing
  without it. Nothing makes main leave its loop.
* In `Client` the heartbeat thread sleeps and sends, the server handles what it gets,
  and time passes. A heartbeat that is due is sent and handled within a unit (the
  guard of `Tick`): against 15 seconds a second is generous to neither side.
* Keys expire: `Tick` of `Friends`. Its requests have no fairness.
* The timerfd keeps firing (`Heartbeat`: `Tick` and `CheckTimeout`), and the heap
  yields its earliest timer. Times are relative in the model, which loses the
  order of two timers due at once; strong fairness of each `Pop` stands for it.
* No fairness for clients, operators, MySQL or the loss of a Redis connection:
  nobody has to connect, send, leave, refuse or press ^C.

Where a property holds only under a condition of that kind, the condition is its
antecedent: `EventuallyParsed` says that everything is parsed *once clients pause*,
as the parser takes any available descriptor and may always prefer two busy ones;
`EventuallyTaken`, that a task is taken, which rests on the bound on tasks, since a
connection given back is not kept for the worker that waits for one and an endless
supply of calls may overtake it; `EventuallyFree`, that a client gets out of waiting
*unless a send or an answer was lost*; `ProcessEnds`, that main and the destructor of
`redis_` end *unless a reconnection crosses them or the notification is lost*;
`CachesCatchUp`, that
the caches are right *once the rows no longer change*; `EventuallyReceived`, that a
message arrives if its recipient *comes to stay signed in* and Redis stays up.

## 5. What the models showed

### Disagreements between the code and what it says

1. **`get_conn` locks a mutex it owns** (`ThreadAndConnectionPool.h:126`). When
   MySQL refuses a new connection, the `else` branch locks (line 122) and then line
   126 locks again: `std::system_error` leaves the worker and the process ends. The
   comment promises to loop "until we get a connection or stop". Run
   `ConnPoolRefused`.
2. **A message sent during `sign_in` can be marked delivered and lost**
   (`epoll_ser.cpp:776`). The unread rows are selected, then *all* unmarked rows of
   the user are marked; and the SUBSCRIBE is only queued, for up to a second. The
   README promises that offline messages are stored. Run `DeliveryLogin`.

### Conditions the properties depend on

These are parameters, or antecedents, and not findings: what the repository says is
too general to name the case, or says it elsewhere than at the code that does it. Three
texts come near. The comment at `epoll_ser.cpp:184` has the friends cache invalidated when
a friend is added or deleted, which nobody does (`CachesCatchUp` is what remains true
without it); `src/README.md:102` promises that offline messages are stored, which also bears
on the rows about `patient` and `MaxUnread`; and the comment at `epoll_ser.cpp:1695`
expects `EPIPE` where the process gets SIGPIPE (section 7). Changing the constant in the
`.cfg` shows the behaviour.

| Condition | Without it |
|---|---|
| no connection is closed while an event of the batch about its number, or a `q` from it, is still to be handled (antecedent of `HarmNeedsOvertaking`) | a `q` said twice: `handle_response` closes the number in the second response although it is the next client's by now (line 1704). A client that leaves when its `bye`, or a time-out (line 1749), closes it in the same batch: if the listening socket comes before its own event, the next client has its number, and the stale event with `EPOLLRDHUP` closes her (line 1947); if another thread opens a descriptor in between, the stale event makes the reactor read it |
| no `stop` notification falls between a test of the predicate and the wait (antecedent of `StopReturns` in `ParserPool`, and of `ProcessEnds`) | the thread sleeps for ever and the join never returns |
| `MayFill = FALSE` | a ring that is exactly full reads as empty: `StreamSpec` fails, the bytes are gone |
| clients put nothing in front of a frame, or no message is longer than 255 bytes (`Resyncs`, a hypothesis of `StreamImplemented`) | `processBuffer` skips an invalid length one byte at a time: a stray zero and the high byte of a length of 256 or more read as a short valid length (`Radix` in the model), and the stream stays out of step. The repository's clients put nothing there; with `Filler` the model lets them, and with a message of `Radix` bytes besides, `StreamSpec` fails |
| one thread per socket and no socket full for longer than the retries (`torn = 0` in `FrameStream!Deliver`) | a frame given up in the middle is completed with the bytes of the next one, and the receiver delivers what it takes for a message; nobody looks at the result of `sendMessage` (`Protocol.h:72`), and the client's heartbeat thread writes without a lock (`epoll_client.cpp:497`) |
| no reconnection when `~Redis` begins (`crossed`) | the destructor joins the observer the keep-alive thread is joining (`redis.cpp:16`), or the keep-alive thread starts a new one that nobody joins: the process hangs or terminates |
| Redis is never away, and no time-out of the observer is read as an error by `isConnected` (`Steady`; `redis.cpp:116` reads the note without a lock) | `reconnect` frees the context a worker is using (`WorkersSafe` would fail), and a failed reconnection leaves a null one, which `publish` and the caches use; queued commands are dropped |
| the first `connect` succeeds (`RedisLink!Init`) | there is no keep-alive thread to try again, and the caches use a null context |
| `late = FALSE` in `KeptAlive` | heartbeats begin with the first `sign_in` that succeeds, and `sign_in` does not renew the expiry: who takes 45 seconds for it may be timed out before the first heartbeat |
| nothing arrives together with the end of the connection | `recv_message` returns false before looking at what came with it (`epoll_client.cpp:132`): the last messages are not shown |
| `faults = 0` (antecedent of `EventuallyFree`) | an answer without a field separator, as that of a server without a database connection, is skipped, and the client waits for another until the connection ends; so it does after `show_history` without a sign_in, but then the time-out frees it |
| `patient` (`Sessions`) | a client that hangs up during its `sign_in` leaves its name on a number that the next client gets: `RoutedToOwner` fails |
| `patient` (`Delivery`) | the same with messages: what `sign_in` reads goes to a dead descriptor and is marked all the same (lines 775 to 778), later ones are sent from that server to the number on which the name was left, to nobody or to the next client: `NothingLost`, `OnlyAddressee` and `EventuallyReceived` fail; `AtMostOnce` does not (theorem `AtMostOnceHolds`) |
| one session at a time (guard of `Delivery!SignIn`) | a user who hangs up between the response with her unread messages and the UPDATE (line 778), and signs in again before it, is offered them twice; two sessions at once are `one_session` above |
| `one_session` | the end of one session takes away the name and the channel of the other |
| `unhurried` | the queued `is_online = 0` of the last close overwrites the new `is_online = 1`; or a new user's sign_in updates the row that sign_up has only queued, and she stays offline |
| `Proper` requests (antecedent of `Mutual`) | two users who ask each other, or an answer to nobody's question, or a delete between the two statements of an acceptance, leave a friendship on one side, until one of them deletes it |
| keys are given lifetimes (`EXPIRE` does not fail) | a set of friends is right for ever only if nothing changes: `CachesCatchUp` has nothing else to rest on, since `cache_invalidate_friends` and `cache_invalidate_user_groups` have no caller |
| the handlers of `Friends` find MySQL and Redis up | a failed second statement of an acceptance is not looked at (line 1196), nor is that of a new group's founder (line 1262) |
| `quiet_leave` (`Delivery`) | a descriptor looked up before an INSERT belongs to somebody else after it: `OnlyAddressee` fails |
| `quiet_login` (`Delivery`) | a message stored and published while its recipient signs in is offered by `sign_in` and forwarded as well: `AtMostOnce` fails; or it is marked and lost (run `DeliveryLogin`) |
| `WrongRow[m] = m` | the conversation number in the notice of an invitation, or the number MySQL returns after a failed INSERT of `group_chat`, is taken for the row's, and an unrelated row is marked delivered: `NothingLost` fails |
| `MaxUnread` at least the unread messages of a user | they are cut to `BUF_SIZE` (line 772) and all marked delivered: `NothingLost` fails |
| `MaxDrops = 0` (antecedent of `EventuallyReceived`) | after a reconnection nothing subscribes again; messages wait for the next login |
| `[]Spare` and `[]~refused` in `EventuallyAccepted` | accept fails for want of a descriptor, or `epoll_ctl` refuses one, which ends the loop of `handle_new_connect`, and as the listening socket is edge-triggered the connection waits for another client to come |
| ^C while the main thread is in `epoll_wait` (`Sigint`) | `stop_server` is read only after `epoll_wait` was interrupted, so the loop goes on until another signal interrupts it |

`latest_expire` is written by workers and the reactor without a common lock, and
the reactor moves `tail` of a ring without the mutex under which the parsers read
it. Both are data races in C++. The models take each access as one step, so their
results hold for builds in which such an access behaves as one.

## 6. Proofs

The theorems hold for every value of the constants that satisfies the named
assumption of the module (`ParserPoolAssumption`, `ThreadPoolAssumption`,
`ConnPoolAssumption`, `WorkerPoolAssumption`, `EventLoopAssumption`,
`SendMessageAssumption`, `RingBufferAssumption`,
`HeartbeatAssumption`, `SessionsAssumption`, `DbWriterAssumption`,
`ShutdownAssumption`, `DeliveryAssumption`, `ClientAssumption`, `FriendsAssumption`): any
sets of threads, users and descriptors, any bounds. They use
`Spec` (`RingSpec`) only, so they need no fairness, and nothing is assumed besides these
assumptions and the theorems of the standard proof library. Three theorems of
`Sessions_proofs` and three of `Delivery_proofs` have a hypothesis, the courtesies and
habits of users that their property is about, and `StreamImplemented` has one about the
ring and the clients; the runs have them too.

**`ParserPool_proofs`.** `TypeCorrect`, `ExclusionHolds`, `InOrderHolds`,
`NothingIsLost`, `NoDataIsStranded`. None of these invariants is inductive by
itself; four layers are, each on top of the former:

* `Typing` adds to `TypeOK` which descriptor the reactor holds at each place
  (`ReactorFd`), that a parser has a descriptor exactly from `Pick` to `Finish`
  (`PickedFd`), and that live connections and messages in hand have a number.
* `Exclusion` adds that a picked descriptor is in `_processing_fds`, which is why
  no other parser picks it.
* `Order` adds that every message pushed or in hand is at a position the ring has
  already passed (`QueuedUsed`), and that one in hand comes after all messages
  pushed for its descriptor (`InHandLast`). That is what makes the next push keep
  the order, also when the number was reused while a parser still had the last
  message of the connection before.
* `NothingLost` and `NoStrandedData` follow step by step from `Typing` and, for the
  first, from the fact that a parser that consumes a frame holds it.

**`WorkerPool_proofs`** goes from the parts to the whole.

* Connections: `TypeCorrect`, `CountExactHolds`, `WithinLimitHolds`, `NoWaitHolds`.
  That `connectionCount_` is not negative follows only from what it counts, so types
  and counting are one invariant, `Inv`: the connections queued, in use and being
  created are at most `count`, which is at most `MaxConns`, and exactly `count` until
  `stop` empties the queue without adjusting it. Four lemmas say how a worker's step
  changes the sizes of the sets of workers at each place. `NoWaitHolds` says that with
  as many connections as workers, which is what `ThreadPool pool(16)` gives, no worker
  waits for one: a worker that would have to wait finds all connections with the
  others, who are too few.
* Threads: `CountersAreExact`, `ElasticHolds`. The counters follow from what each step
  does to the sets they count. That the number of threads stays below its limit does
  not follow from them, since the manager acts on a number it read before:
  `ThreadLimits` adds why it may. Only the manager adds threads, so between its reading
  and its last `addThread` the number can only have fallen, and a stale number errs on
  the safe side.
* The pool: `ConnsImplemented`, `ThreadsImplemented`. Every step of the composition is a
  step of `ConnPool` or leaves its variables alone, and likewise of `ThreadPool`. So
  `PoolCountExact`, `PoolWithinLimit`, `PoolCountersExact` and `PoolElastic` follow from
  the theorems about the parts (`Sizes` carries the sizes of sets of threads over to the
  instance). `NoOrphansHolds` is about both parts at once: `Joined` says what each join
  of `stop` has waited for, and `InTask` that whoever is anywhere in `get_conn`, or has
  a connection, is a thread with a task in hand, so that no connection outlives the
  threads.

**`Reactor_proofs`.** First the loop, `EventLoop`: `TypeCorrect`, `BuffersHold`,
`HarmNeedsOvertakingHolds`. `Typing` adds to `TypeOK` that an event is about a descriptor
and that who waits for `accept` has none yet. With it `BuffersAreConnections` is
inductive; `HarmNeedsOvertaking` is not, as it says nothing of the batch and the queue.
`Truthful` does: until a close overtakes something about its number, the event of a
descriptor that is still to be handled is the only one about it, and every such event, and
every `q` or `bye` still on its way, is true at every moment of the batch: the number can
only be freed by handling the last of them (`Closed`), and only a number that is free
gets a new owner.

Then the ring, `RingBuffer`: `RingTypeCorrect` and `StreamImplemented`, which says that
every step is a step of `FrameStream` or leaves its variables alone, for any number of
threads and of frames and any sizes of a byte, a message, the ring and a chunk, with a
length field of two digits (the code's has four, of which it uses three). Its hypotheses are `~MayFill` and `Resyncs`
(section 5). `Unparsed` is the bytes in the ring followed by those on the wire, so a
recv changes nothing of it, wherever in the ring and in whatever chunks (`RingState`
gives its bytes one by one, on both sides of the end). The invariant, `StreamInv`:

* `Writer`: a thread in the middle of a frame is the writer of the last message sent,
  unless a frame was torn, and what it has left is an end of that message's frame.
* `Framing`: there are positions of the frames in `Unparsed`, one for each message sent
  and not delivered up to the torn one, such that between them there are only zeros, the
  bytes of each frame are those of its message, and what is missing of the last is
  exactly what its writer still holds. The positions are a function under an existential
  quantifier, so that a step of the parser or of a sender shifts, extends or cuts it,
  and no induction over the data is needed.

From `Framing` follows that a length the parser finds invalid is a zero between frames,
which is where `Resyncs` enters, and that a valid one is that of the next message.

**`Heartbeat_proofs`.** `TypeCorrect`, `TimerArmedHolds`. `Typing` adds to `TypeOK` that
a thread in the middle of `update_expire`, `check_timeout` or `close_clint` has a
descriptor in hand. `TimerArmed` needs one thing more: what `close_clint` erases from
`latest_expire` is not a connection again (`Erased`), because only the reactor accepts,
and it is the one that is closing. A worker that renews the expiry of a descriptor moves
the name of the timer and the timer together (`Armed`), also if the descriptor has been
reused since it took the task.

**`Sessions_proofs`.** `TypeCorrect` for clients of every behaviour;
`RoutedToOwnerHolds` and `MapsInverseHolds` for `patient` clients with `one_session`
(`Polite`); `RecordsAgreeHolds` for those who are also `unhurried`. Section 5
says what fails without each. The invariants are layers:

* `Requests`: each connection has at most one request, which is in the queue, in the
  hands of one worker, or answered, and the client is in the state that goes with the
  place where the handler is (`Phase`); only the last part of `sign_in`, the
  subscription, may overlap with the answer.
* `Single`: no two descriptors have the same user, neither by the client at the end of
  it nor by name, and the user whose session the reactor is closing is at none.
* `Names`: the two maps are inverse; a name on a descriptor is that of the client
  there, or of the connection whose `close_clint` has not come to the maps yet
  (`Owned`); and each request, handler and reply knows whether it is there (`ByTask`,
  `ByWorker`, `ByReply`). These three layers together, `Routing`, are inductive.
* `Pending`, `Cached`, `Subscribed`, `Online` say of a client that waits where her
  request is, and of each of the other records who is in it, counting what a handler
  has in hand or the asynchronous queue still holds. Each is kept by itself, given
  `Routing`. When nothing is left in hand they say `RecordsAgree`.

That `SignInSql` sets a row that exists, and that no queued `is_online = 0` meets a new
login, is where `unhurried` enters.

**`Friends_proofs`.** `TypeCorrect`, `MutualHolds`, `NoImmortalKeyHolds`. `Typed`
adds to `TypeOK` whom a handler has in hand at each place. `Mutual` says nothing of a
pair while a request of it is handled, so it is not inductive; `Orderly` is, in three
parts: an orderly pair has one such handler at most (`Alone`); its two rows are both
accepted or not both there, except between the two statements of an acceptance
(`Rows`); and the handler finds the rows its sender saw (`Seen`), which is why the
`INSERT IGNORE` of an acceptance meets no row. `AboutKeeps` and `ElsewhereKeeps` say
once what a step about a pair, and a step about none, must do to keep it, and a lemma
per group of actions shows that they do. For the keys, `Watched` adds to
`NoImmortalKey` that only an existing key is without a lifetime, so that the `EXPIRE`
under way does not come too late.

**`Shutdown_proofs`.** First the queue of statements, `TypeCorrect` and `InOrderHolds`
about `DbWriter`: `InOrder` speaks of the
concatenation of what was executed, is in hand and is queued; `Places` says the same
of each of them, element by element, which is what a step can be shown to keep. Then
`DbImplemented`, `RedisImplemented`: every step of the end of the
process is a step of `DbWriter` or leaves its queue alone, and likewise of
`RedisLink`. So `ServerInOrder` is a corollary of `InOrderHolds`, and the other
theorems need invariants of `RedisLink` only:
* `ThreadsSafeHolds`: `Guarded` says where the observer is while contexts are freed or
  null, and where the keep-alive thread is once the destructor has begun; it is kept as
  long as no reconnection has crossed the destructor (`Uncrossed`), which is the
  theorem's exception.
* `WorkersSafeHolds`: `Undisturbed` says that without an outage or a misread note the
  keep-alive thread never leaves its loop of pings, since both contexts stay `ok`.
* `CommandsInOrderHolds`: `CommandsInOrder` speaks of a concatenation, so `Order` says
  that the three sequences grow, each and from one to the next, and `Filled` which
  numbers they hold when nothing was dropped; that nothing is dropped then needs
  `Undisturbed` and, for the time after the destructor, `Calm`.

**`Delivery_proofs`.** The way of a message to its reader, in two parts: the servers and
the console client. First `Delivery`. `DeliveryTypeCorrect` holds whatever the users do;
the other three have hypotheses, each as weak as its property allows:

* `OnlyAddresseeHolds` for users who are `patient`, with `quiet_leave`. `Here`, which
  needs no habit, says that a user whose `sign_in` is through is at the connection it was
  for, and `Registered`, which needs `patient`, where a user's name is known: her handler,
  her descriptor and her entries in the two maps belong together, the maps are inverse to
  each other, and the entries outlive the descriptor only while the reactor is between
  freeing it and forgetting her. `Addressed` says that every
  descriptor somebody has looked up for a message, in a handler, a SUB_MSG task or a
  response, is its recipient's; `Quiet` is why the removal of a name leaves none behind.
* `AtMostOnceHolds` for users with `quiet_login`, whenever they hang up and whatever
  `WrongRow` says. `Subscribed`: a user's channel is one server's at most, so that a
  publication makes one task. `Places`: a message is in one place at most, in a task, in
  a response, or received. `Offered`: while a user signs in nothing to her is on its way
  and none of the rows `sign_in` will find has been used, and the row of a message that
  has been used is marked or is going to be.
* `NothingLostHolds` for all three habits, unread messages that fit in one response (`Fits`)
  and no number published that names another message's row (`OwnRow`), together
  `Careful`. `Kept` says of each place from which a row is marked, the queue of UPDATEs,
  `sign_in`'s own and the INSERT of a handler that found the recipient, that her
  connection has the message or is about to get it. It rests on all layers above: on
  `Addressed` for a response that reaches who it is for, on `Offered` for a `sign_in`
  that marks only what it has read. A lost Redis connection or a failed INSERT costs a
  delivery, not a mark.

Without one of the hypotheses the property fails (section 5). The console client:
`TypeCorrect`, `MatchedHolds`, `KeptAliveHolds`. `Matched` is
inductive once no answer has the code of a message of others (`AnswersAreNoPushes`),
which is how `handle_server_message` tells them apart. `KeptAlive` is about a step;
the invariant behind it, `Ahead`, relates the two clocks: while the thread runs, was
not late and no heartbeat is on its way, its sleep ends before the connection's time.
It uses of the two constants only that the period is the shorter.

Only model-checked: everything under fairness (the properties named `Eventually...`,
`...Returns`, `...IsClosed`, `QuitDisconnects`, `LinkRestored`, `ProcessEnds`), which is
out of the prover's reach, as is the liveness in `StreamSpec` and `CachesCatchUp`.

## 7. What is not modelled

| Part | Why |
|---|---|
| `show_friends`, `show_group_members`, `show_online_user`, `show_history`, the cache of user ids | read-only queries; a user's id never changes |
| `cache_get_friends`, `cache_get_conversation_members` and the `cache_invalidate_` functions | they have no caller |
| the notices of `add_friend` and `handle_friend` | sent under both locks, best effort; `LockOrder` of section 8 is about the locks |
| what destroys the Logger, `pool` and the other globals after `redis_` | the order of C++ destructors; that workers outlive `redis_` is in `Shutdown` (`WorkersSafe` excepts `dtor = "done"`) |
| what MySQL says after a restart | the run of `Shutdown` has the states in which queued statements are left; the rows they would have changed are those of `Sessions` and `Delivery` |
| `CpuGuard` | a counting semaphore around `crypt_r`: its only wait needs three workers of which two have a connection, and composed with `WorkerPool`, where that wait matters, the instance is beyond a run |
| SIGPIPE, other signals | ignored nowhere: a second write to a client that is gone ends the process; the models of sockets take the error instead |
| Redis' server, its caches' failures | `RedisLink` has the loss of a connection, `Friends` the contents of two keys; a command that fails for another reason is not looked at by the code |
| `MyDb`, `Config`, `Logger`, `ErrorCode` | input and output, or read once |
| web proxy | one socket per browser, bytes passed on; its framing is `FrameStream` |
| schema, load tests | no state of their own |

## 8. What could come next

Every part with state of its own has a module. A new run has to ask a new question;
where it is about a part that has a run, that one is extended instead.

1. Abstract specifications: a mailbox (stored, then received once) that `Delivery`
   implements under its habits; a register of friendships that `Friends` implements
   for orderly pairs.
2. `LockOrder` over `buffer_map_mutex`, `_mutex`, `timer_mutex`, `resp_mutex`,
   `client_map_mutex` and `redis_mutex`; the notices of `add_friend` are sent under
   two of them.
3. Theorems: every safety invariant and every action property that a run checks is
   stated by one, and so are the steps of `StreamSpec`. What is left is liveness, which
   is out of reach, and the refinements of 1, once they are written.
