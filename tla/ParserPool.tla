------------------------------ MODULE ParserPool ------------------------------
(***************************************************************************)
(* How bytes become tasks: the reactor (main thread) reads sockets into    *)
(* per-connection ring buffers and announces the fd to the ParserPool; the *)
(* parser threads cut the buffered bytes into messages and hand each one,  *)
(* as a Task, to the worker pool.                                          *)
(*                                                                         *)
(* A connection's byte stream is abstracted to ITEMS: item k is either one *)
(* complete frame or, if Junk says so, a byte where the length field is    *)
(* invalid.  The ring buffer of fd is then the pair head[fd] (items        *)
(* consumed) and tail[fd] (items completely received); bytes of an item    *)
(* that has only partly arrived leave tail unchanged.  The ring arithmetic *)
(* itself is the subject of module RingBuffer.                             *)
(*                                                                         *)
(* gen[fd] is a ghost that numbers the connections, over all descriptors,  *)
(* in the order accepted.  tasks is the history of tasks pushed.           *)
(***************************************************************************)
EXTENDS Integers, Sequences, FiniteSets

CONSTANTS Fds,        \* descriptor numbers the kernel hands out
          Parsers,    \* parser threads (parser_thread_count of server.conf)
          Junk,       \* <<g, k>>: item k of connection g has an invalid length
          MaxItems,   \* bound: items a client sends on one connection
          MaxGen,     \* bound: connections accepted
          NoFd, NoOne \* "no descriptor" (-1) and "mutex not held"

ASSUME ParserPoolAssumption ==
    /\ Junk \subseteq Nat \X Nat
    /\ MaxItems \in Nat /\ MaxGen \in Nat
    /\ NoFd \notin Fds /\ NoOne \notin Parsers

VARIABLES
    open,        \* DOMAIN client_buffers: the fds with a receive buffer
    accepted,    \* ghost: connections accepted so far
    gen,         \* ghost: which of them was the last on each fd
    head, tail,  \* ClientBuffer of each fd, counted in items
    reactor,     \* what the main thread is doing, and to which fd
    running,     \* ParserPool::_running
    pending,     \* _pending_fds
    processing,  \* _processing_fds
    mutex,       \* holder of _mutex across the predicate check and the block
    pc,          \* where each parser thread is
    cur,         \* the fd each parser has picked
    msg,         \* the message it has extracted and not yet pushed, by position
    tasks        \* history of the tasks given to the worker pool

bufferVars == <<open, accepted, gen, head, tail>>
poolVars   == <<running, pending, processing, mutex>>
threadVars == <<pc, cur, msg>>
vars == <<bufferVars, reactor, poolVars, threadVars, tasks>>

Idle == [at |-> "epoll_wait", fd |-> NoFd]

Task  == [fd : Fds, gen : 1..MaxGen, seq : 1..MaxItems]
NoMsg == [gen |-> 0, seq |-> 0]

ReactorPCs == {"epoll_wait", "recv", "clearFd", "notify", "join", "end"}
ParserPCs  == {"while", "lock", "block", "wait", "parse", "push", "finish",
               "notify", "exit"}

Init ==
    /\ open = {} /\ accepted = 0 /\ gen = [f \in Fds |-> 0]
    /\ head = [f \in Fds |-> 0] /\ tail = [f \in Fds |-> 0]
    /\ reactor = Idle
    /\ running = TRUE
    /\ pending = {} /\ processing = {} /\ mutex = NoOne
    /\ pc = [p \in Parsers |-> "while"]
    /\ cur = [p \in Parsers |-> NoFd]
    /\ msg = [p \in Parsers |-> NoMsg]
    /\ tasks = <<>>

-----------------------------------------------------------------------------
(* The condition variable _cv. *)

Waiting == {p \in Parsers : pc[p] = "wait"}

(* pcs with the threads of W woken: they go back to re-evaluate the predicate. *)
Woken(pcs, W) == [p \in Parsers |-> IF p \in W THEN "lock" ELSE pcs[p]]

(* notify_one wakes one waiter, whichever the kernel picks; nobody if none waits. *)
NotifyOne ==
    IF Waiting = {} THEN pc' = pc
    ELSE \E p \in Waiting : pc' = Woken(pc, {p})

-----------------------------------------------------------------------------
(* The reactor thread. *)

(* accept: the kernel reuses fd, client_buffers[fd] is a fresh ClientBuffer. *)
HandleNewConnect(f) ==
    /\ reactor = Idle
    /\ f \notin open /\ accepted < MaxGen
    /\ open' = open \cup {f}
    /\ accepted' = accepted + 1
    /\ gen' = [gen EXCEPT ![f] = accepted + 1]
    /\ head' = [head EXCEPT ![f] = 0]
    /\ tail' = [tail EXCEPT ![f] = 0]
    /\ UNCHANGED <<reactor, poolVars, threadVars, tasks>>

(* EPOLLIN on a client: enter the receive loop. *)
HandleClintData(f) ==
    /\ reactor = Idle
    /\ f \in open
    /\ reactor' = [at |-> "recv", fd |-> f]
    /\ UNCHANGED <<bufferVars, poolVars, threadVars, tasks>>

(* One recv of the loop completes k more items (none when it only brought a *)
(* part of one).  The copy and the new tail are written without the buffer  *)
(* mutex: parsers run between any two such steps.                           *)
Recv(k) ==
    /\ reactor.at = "recv"
    /\ tail[reactor.fd] + k <= MaxItems
    /\ tail' = [tail EXCEPT ![reactor.fd] = @ + k]
    /\ UNCHANGED <<open, accepted, gen, head, reactor, poolVars, threadVars, tasks>>

(* Mutant: an fd that a parser is working on is not announced again. *)
AddFdUnlessProcessing ==
    /\ reactor.at = "recv"
    /\ mutex = NoOne
    /\ pending' = IF reactor.fd \in processing THEN pending ELSE pending \cup {reactor.fd}
    /\ IF pending' = pending THEN pc' = pc ELSE NotifyOne
    /\ reactor' = Idle
    /\ UNCHANGED <<bufferVars, running, processing, mutex, cur, msg, tasks>>

(* recv says EAGAIN: addFd, then back to epoll_wait. *)
AddFd ==
    /\ reactor.at = "recv"
    /\ mutex = NoOne
    /\ pending' = pending \cup {reactor.fd}
    /\ IF reactor.fd \in pending THEN pc' = pc ELSE NotifyOne
    /\ reactor' = Idle
    /\ UNCHANGED <<bufferVars, running, processing, mutex, cur, msg, tasks>>

(* close_clint, from the receive loop (EOF, error, overflow) or from the    *)
(* event loop (hang-up, heartbeat, "bye"): the buffer goes first ...        *)
CloseClint(f) ==
    /\ f \in open
    /\ reactor = Idle \/ (reactor.at = "recv" /\ reactor.fd = f)
    /\ open' = open \ {f}
    /\ reactor' = [at |-> "clearFd", fd |-> f]
    /\ UNCHANGED <<accepted, gen, head, tail, poolVars, threadVars, tasks>>

(* ... then, after close(fd), the fd leaves the pending set. *)
ClearFd ==
    /\ reactor.at = "clearFd"
    /\ mutex = NoOne
    /\ pending' = pending \ {reactor.fd}
    /\ reactor' = Idle
    /\ UNCHANGED <<bufferVars, running, processing, mutex, threadVars, tasks>>

(* ParserPool::stop, called after the event loop has ended.  _running is    *)
(* stored and _cv notified without _mutex.                                  *)
Stop ==
    /\ reactor = Idle
    /\ running' = FALSE
    /\ reactor' = [at |-> "notify", fd |-> NoFd]
    /\ UNCHANGED <<bufferVars, pending, processing, mutex, threadVars, tasks>>

StopNotify ==
    /\ reactor.at = "notify"
    /\ pc' = Woken(pc, Waiting)
    /\ reactor' = [at |-> "join", fd |-> NoFd]
    /\ UNCHANGED <<bufferVars, poolVars, cur, msg, tasks>>

Join ==
    /\ reactor.at = "join"
    /\ \A p \in Parsers : pc[p] = "exit"
    /\ reactor' = [at |-> "end", fd |-> NoFd]
    /\ UNCHANGED <<bufferVars, poolVars, threadVars, tasks>>

-----------------------------------------------------------------------------
(* A parser thread: ParserPool::workerLoop and processBuffer. *)

(* while (_running), read without the lock. *)
WhileRunning(p) ==
    /\ pc[p] = "while"
    /\ pc' = [pc EXCEPT ![p] = IF running THEN "lock" ELSE "exit"]
    /\ UNCHANGED <<bufferVars, reactor, poolVars, cur, msg, tasks>>

AvailableAny == pending   \* mutant: _processing_fds is not consulted

(* The fds a parser may take: announced and in no other parser's hands. *)
Available == pending \ processing

(* Mutant: the predicate does not mention _running. *)
NothingToDoStopped(p) ==
    /\ pc[p] = "lock" /\ mutex = NoOne
    /\ Available = {}
    /\ mutex' = p
    /\ pc' = [pc EXCEPT ![p] = "block"]
    /\ UNCHANGED <<bufferVars, reactor, running, pending, processing, cur, msg, tasks>>

(* The wait predicate is false: the thread will block, still holding _mutex. *)
NothingToDo(p) ==
    /\ pc[p] = "lock" /\ mutex = NoOne
    /\ running /\ Available = {}
    /\ mutex' = p
    /\ pc' = [pc EXCEPT ![p] = "block"]
    /\ UNCHANGED <<bufferVars, reactor, running, pending, processing, cur, msg, tasks>>

(* The block itself: release _mutex and join the waiters, atomically. *)
Block(p) ==
    /\ pc[p] = "block"
    /\ mutex' = NoOne
    /\ pc' = [pc EXCEPT ![p] = "wait"]
    /\ UNCHANGED <<bufferVars, reactor, running, pending, processing, cur, msg, tasks>>

(* A condition variable may wake a thread nobody notified. *)
SpuriousWakeup(p) ==
    /\ pc[p] = "wait"
    /\ pc' = Woken(pc, {p})
    /\ UNCHANGED <<bufferVars, reactor, poolVars, cur, msg, tasks>>

(* Take an available fd: out of pending, into processing. *)
Pick(p) ==
    /\ pc[p] = "lock" /\ mutex = NoOne
    /\ \E f \in Available :
         /\ pending' = pending \ {f}
         /\ processing' = processing \cup {f}
         /\ cur' = [cur EXCEPT ![p] = f]
    /\ pc' = [pc EXCEPT ![p] = "parse"]
    /\ UNCHANGED <<bufferVars, reactor, running, mutex, msg, tasks>>

(* Woken by stop with nothing to take: leave, or go round to the loop test. *)
LeaveLoop(p) ==
    /\ pc[p] = "lock" /\ mutex = NoOne
    /\ ~running /\ Available = {}
    /\ pc' = [pc EXCEPT ![p] = IF pending = {} THEN "exit" ELSE "while"]
    /\ UNCHANGED <<bufferVars, reactor, poolVars, cur, msg, tasks>>

(* processBuffer, no more to do: the fd was closed, or the data is incomplete. *)
NoMore(p) ==
    /\ pc[p] = "parse"
    /\ cur[p] \notin open \/ head[cur[p]] = tail[cur[p]]
    /\ pc' = [pc EXCEPT ![p] = "finish"]
    /\ UNCHANGED <<bufferVars, reactor, poolVars, cur, msg, tasks>>

NextItem(f) == head[f] + 1
IsJunk(f, k) == <<gen[f], k>> \in Junk

(* An invalid length: skip one byte and try again. *)
SkipJunk(p) ==
    /\ pc[p] = "parse"
    /\ cur[p] \in open /\ head[cur[p]] < tail[cur[p]]
    /\ IsJunk(cur[p], NextItem(cur[p]))
    /\ head' = [head EXCEPT ![cur[p]] = @ + 1]
    /\ UNCHANGED <<open, accepted, gen, tail, reactor, poolVars, threadVars, tasks>>

(* A complete message is cut out under the buffer mutex ... *)
Extract(p) ==
    /\ pc[p] = "parse"
    /\ cur[p] \in open /\ head[cur[p]] < tail[cur[p]]
    /\ ~ IsJunk(cur[p], NextItem(cur[p]))
    /\ msg' = [msg EXCEPT ![p] = [gen |-> gen[cur[p]], seq |-> NextItem(cur[p])]]
    /\ head' = [head EXCEPT ![cur[p]] = @ + 1]
    /\ pc' = [pc EXCEPT ![p] = "push"]
    /\ UNCHANGED <<open, accepted, gen, tail, reactor, poolVars, cur, tasks>>

InFlight(p) == [fd |-> cur[p], gen |-> msg[p].gen, seq |-> msg[p].seq]

(* Mutant: tasks are refused once the pool has been told to stop. *)
AddTaskIfRunning(p) ==
    /\ pc[p] = "push"
    /\ tasks' = IF running THEN Append(tasks, InFlight(p)) ELSE tasks
    /\ msg' = [msg EXCEPT ![p] = NoMsg]
    /\ pc' = [pc EXCEPT ![p] = "parse"]
    /\ UNCHANGED <<bufferVars, reactor, poolVars, cur>>

(* ... and pushed to the worker pool after the mutex has been released. *)
AddTask(p) ==
    /\ pc[p] = "push"
    /\ tasks' = Append(tasks, InFlight(p))
    /\ msg' = [msg EXCEPT ![p] = NoMsg]
    /\ pc' = [pc EXCEPT ![p] = "parse"]
    /\ UNCHANGED <<bufferVars, reactor, poolVars, cur>>

(* The fd leaves processing; everyone is notified after the unlock. *)
Finish(p) ==
    /\ pc[p] = "finish" /\ mutex = NoOne
    /\ processing' = processing \ {cur[p]}
    /\ cur' = [cur EXCEPT ![p] = NoFd]
    /\ pc' = [pc EXCEPT ![p] = "notify"]
    /\ UNCHANGED <<bufferVars, reactor, running, pending, mutex, msg, tasks>>

NotifyAll(p) ==
    /\ pc[p] = "notify"
    /\ pc' = [Woken(pc, Waiting) EXCEPT ![p] = "while"]
    /\ UNCHANGED <<bufferVars, reactor, poolVars, cur, msg, tasks>>

Parse(p) == NoMore(p) \/ SkipJunk(p) \/ Extract(p)

(* The thread's steps that need _mutex, and the rest. *)
LockStep(p) == NothingToDo(p) \/ Pick(p) \/ LeaveLoop(p) \/ Finish(p)
FreeStep(p) == WhileRunning(p) \/ Block(p) \/ Parse(p) \/ AddTask(p) \/ NotifyAll(p)
ParserStep(p) == LockStep(p) \/ FreeStep(p)

ReactorStep == \/ \E f \in Fds : HandleNewConnect(f) \/ HandleClintData(f) \/ CloseClint(f)
               \/ \E k \in 0..MaxItems : Recv(k)
               \/ AddFd \/ ClearFd \/ Stop \/ StopNotify \/ Join

Next == ReactorStep \/ \E p \in Parsers : ParserStep(p) \/ SpuriousWakeup(p)

(* A handler the reactor has begun runs to its end; threads are scheduled;   *)
(* a lock that keeps being released is eventually acquired.  Nothing forces  *)
(* a client to connect, send or leave, nor the operator to stop the server.  *)
Fairness ==
    /\ SF_vars(AddFd) /\ SF_vars(ClearFd) /\ WF_vars(StopNotify) /\ WF_vars(Join)
    /\ \A p \in Parsers : SF_vars(LockStep(p)) /\ WF_vars(FreeStep(p))

Spec == Init /\ [][Next]_vars
FairSpec == Spec /\ Fairness

-----------------------------------------------------------------------------
TypeOK ==
    /\ open \subseteq Fds
    /\ accepted \in 0..MaxGen /\ gen \in [Fds -> 0..MaxGen]
    /\ head \in [Fds -> 0..MaxItems] /\ tail \in [Fds -> 0..MaxItems]
    /\ reactor \in [at : ReactorPCs, fd : Fds \cup {NoFd}]
    /\ running \in BOOLEAN
    /\ pending \subseteq Fds /\ processing \subseteq Fds
    /\ mutex \in Parsers \cup {NoOne}
    /\ pc \in [Parsers -> ParserPCs]
    /\ cur \in [Parsers -> Fds \cup {NoFd}]
    /\ msg \in [Parsers -> [gen : 0..MaxGen, seq : 0..MaxItems]]
    /\ tasks \in Seq(Task)

(* ParserPool.cpp:38, "workerLoop makes sure that the same FD is not         *)
(* processed by several threads at once".                                    *)
OneParserPerFd ==
    \A p, q \in Parsers : p # q /\ cur[p] # NoFd => cur[p] # cur[q]

(* Messages of one descriptor reach the worker queue in the order in which   *)
(* they were received, each once, and those of an earlier connection on the  *)
(* same number before those of a later one.                                  *)
Before(s, t) == s.gen < t.gen \/ (s.gen = t.gen /\ s.seq < t.seq)
InOrder ==
    \A i, j \in 1..Len(tasks) :
        i < j /\ tasks[i].fd = tasks[j].fd => Before(tasks[i], tasks[j])

Pushing == {p \in Parsers : pc[p] = "push"}
Pushed(t) == \E i \in 1..Len(tasks) : tasks[i] = t

(* A message whose bytes have left the buffer of a live connection is in the *)
(* worker queue, or in the hands of a parser about to push it.               *)
NothingLost ==
    \A f \in open : \A k \in 1..head[f] :
        LET t == [fd |-> f, gen |-> gen[f], seq |-> k]
        IN  IsJunk(f, k) \/ Pushed(t) \/ \E p \in Pushing : InFlight(p) = t

(* Whenever a live connection's buffer holds a complete item and the reactor *)
(* is not in the middle of reading it, some thread will look at it again:    *)
(* the fd is pending, or a parser is inside processBuffer for it.            *)
NoStrandedData ==
    \A f \in open :
        head[f] < tail[f] /\ reactor # [at |-> "recv", fd |-> f]
        => \/ f \in pending
           \/ \E p \in Parsers : cur[p] = f /\ pc[p] \in {"parse", "push"}

(* Once the clients pause, everything complete in the buffers is parsed.     *)
(* (While they do not, a parser takes any available fd: the code has no rule *)
(* that keeps two busy descriptors from being taken ahead of a third.)       *)
EventuallyParsed ==
    <>[](reactor = Idle) => <>[](\A f \in open : head[f] = tail[f])

(* stop() returns, so that the log system can be destroyed after it          *)
(* (epoll_ser.cpp:1969), whatever the parsers were doing, unless the         *)
(* notification came while one of them was between its test of the wait      *)
(* predicate and the wait: that one sleeps, and nobody wakes it any more.    *)
StopReturns ==
    (reactor.at = "join" /\ \A p \in Parsers : pc[p] \notin {"block", "wait"})
    ~> (reactor.at = "end")
===============================================================================
