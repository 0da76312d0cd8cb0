------------------------------ MODULE ThreadPool ------------------------------
(***************************************************************************)
(* The worker threads of ThreadAndConnectionPool: a task queue, threads    *)
(* that wait for work with a time-out and leave when there are too many of *)
(* them, a manager thread that adds some when the backlog grows, and stop. *)
(* The database connections of the same class are module ConnPool; module  *)
(* WorkerPool puts both together.                                          *)
(*                                                                         *)
(* Tasks are interchangeable here: the queue is its length.                *)
(***************************************************************************)
EXTENDS Integers, FiniteSets

CONSTANTS Threads,            \* identities for worker threads, live or not
          MinThreads, MaxThreads, ScaleFactor,
          MaxTasks            \* bound: tasks ever submitted

ThreadPoolAssumption ==   \* assumed by module WorkerPool
    /\ MinThreads \in Nat \ {0} /\ MaxThreads \in Nat /\ MinThreads <= MaxThreads
    /\ ScaleFactor \in Nat \ {0} /\ MaxTasks \in Nat
    /\ IsFiniteSet(Threads) /\ MaxThreads < Cardinality(Threads)

VARIABLES
    running,       \* running_
    backlog,       \* tasks_.size()
    submitted,     \* tasks pushed so far
    threadCount,   \* threadCount_
    idleCount,     \* idleThreadCount_
    pc,            \* each worker thread; "off" when it does not exist
    manager,       \* the manager thread and the values it has read
    owner          \* the thread that calls stop() and destroys the pool

vars == <<running, backlog, submitted, threadCount, idleCount, pc, manager, owner>>

Live    == {t \in Threads : pc[t] # "off"}
Waiting == {t \in Threads : pc[t] = "wait"}
Busy    == {t \in Threads : pc[t] = "run"}

Asleep == [at |-> "sleep", backlog |-> 0, cur |-> 0, toAdd |-> 0]

(* init(): the minimum of threads, then the manager. *)
Init ==
    /\ running = TRUE /\ backlog = 0 /\ submitted = 0
    /\ threadCount = MinThreads /\ idleCount = 0
    /\ pc \in [Threads -> {"off", "while"}] /\ Cardinality(Live) = MinThreads
    /\ manager = Asleep
    /\ owner = "use"

-----------------------------------------------------------------------------
(* addTask; the notification only shortens the wait, which times out and     *)
(* evaluates its predicate anyway.                                           *)
AddTask ==
    /\ submitted < MaxTasks
    /\ submitted' = submitted + 1
    /\ backlog' = backlog + 1
    /\ UNCHANGED <<running, threadCount, idleCount, pc, manager, owner>>

-----------------------------------------------------------------------------
(* workerLoop. *)

Goto(t, l) == pc' = [pc EXCEPT ![t] = l]

(* while (running_): one more round. *)
Loop(t) ==
    /\ pc[t] = "while" /\ running
    /\ Goto(t, "lock")
    /\ UNCHANGED <<running, backlog, submitted, threadCount, idleCount, manager, owner>>

(* The loop test fails after stop, whatever is left in the queue. *)
LoopEnds(t) ==
    /\ pc[t] = "while" /\ ~running
    /\ threadCount' = threadCount - 1
    /\ Goto(t, "off")
    /\ UNCHANGED <<running, backlog, submitted, idleCount, manager, owner>>

(* Under mutex_: count oneself idle and wait. *)
Wait(t) ==
    /\ pc[t] = "lock"
    /\ idleCount' = idleCount + 1
    /\ Goto(t, "wait")
    /\ UNCHANGED <<running, backlog, submitted, threadCount, manager, owner>>

(* The predicate holds and there is a task: run it, stopped or not. *)
Take(t) ==
    /\ pc[t] = "wait" /\ backlog > 0
    /\ idleCount' = idleCount - 1
    /\ backlog' = backlog - 1
    /\ Goto(t, "run")
    /\ UNCHANGED <<running, submitted, threadCount, manager, owner>>

(* The predicate holds because of stop, and the queue is empty. *)
Leave(t) ==
    /\ pc[t] = "wait" /\ ~running /\ backlog = 0
    /\ idleCount' = idleCount - 1
    /\ threadCount' = threadCount - 1
    /\ Goto(t, "off")
    /\ UNCHANGED <<running, backlog, submitted, manager, owner>>

TooMany == threadCount > MinThreads

(* Mutant: the thread that leaves is still counted. *)
TimeOutUncounted(t) ==
    /\ pc[t] = "wait" /\ running /\ backlog = 0
    /\ idleCount' = idleCount - 1
    /\ Goto(t, IF TooMany THEN "off" ELSE "while")
    /\ UNCHANGED <<running, backlog, submitted, threadCount, manager, owner>>

(* The wait timed out: one thread too many leaves, the minimum stays.  The   *)
(* comparison and the decrement are in one critical section of mutex_.       *)
TimeOut(t) ==
    /\ pc[t] = "wait" /\ running /\ backlog = 0
    /\ idleCount' = idleCount - 1
    /\ IF TooMany THEN threadCount' = threadCount - 1 /\ Goto(t, "off")
                  ELSE threadCount' = threadCount /\ Goto(t, "while")
    /\ UNCHANGED <<running, backlog, submitted, manager, owner>>

(* process_clint_data returns. *)
Done(t) ==
    /\ pc[t] = "run"
    /\ Goto(t, "while")
    /\ UNCHANGED <<running, backlog, submitted, threadCount, idleCount, manager, owner>>

-----------------------------------------------------------------------------
(* managerLoop, its half about threads.  The three numbers are read one      *)
(* after the other, the last two without any lock.                           *)

ReadBacklog ==
    /\ manager.at = "sleep"
    /\ manager' = [manager EXCEPT !.at = "cur", !.backlog = backlog]
    /\ UNCHANGED <<running, backlog, submitted, threadCount, idleCount, pc, owner>>

ReadCount ==
    /\ manager.at = "cur"
    /\ manager' = [manager EXCEPT !.at = "idle", !.cur = threadCount]
    /\ UNCHANGED <<running, backlog, submitted, threadCount, idleCount, pc, owner>>

Lesser(a, b) == IF a <= b THEN a ELSE b

(* Mutant: what the backlog asks for, whatever the limit leaves. *)
ToAddUncapped(b, cur, idle) ==
    IF b - idle > 0 /\ cur < MaxThreads THEN (b - idle) \div ScaleFactor + 1 ELSE 0

(* How many threads a backlog b beyond the idle threads calls for. *)
ToAdd(b, cur, idle) ==
    IF b - idle > 0 /\ cur < MaxThreads
    THEN Lesser((b - idle) \div ScaleFactor + 1, MaxThreads - cur) ELSE 0

ReadIdle ==
    /\ manager.at = "idle"
    /\ manager' = [manager EXCEPT !.at = "add",
                                  !.toAdd = ToAdd(manager.backlog, manager.cur, idleCount)]
    /\ UNCHANGED <<running, backlog, submitted, threadCount, idleCount, pc, owner>>

AddThread(t) ==
    /\ manager.at = "add" /\ manager.toAdd > 0
    /\ pc[t] = "off"
    /\ threadCount' = threadCount + 1
    /\ Goto(t, "while")
    /\ manager' = [manager EXCEPT !.toAdd = @ - 1]
    /\ UNCHANGED <<running, backlog, submitted, idleCount, owner>>

(* Mutant: the manager never looks at running_. *)
ManagerRoundForever ==
    /\ manager.at = "add" /\ manager.toAdd = 0
    /\ manager' = Asleep
    /\ UNCHANGED <<running, backlog, submitted, threadCount, idleCount, pc, owner>>

(* Back to the loop test, and to sleep. *)
ManagerRound ==
    /\ manager.at = "add" /\ manager.toAdd = 0
    /\ manager' = [Asleep EXCEPT !.at = IF running THEN "sleep" ELSE "exit"]
    /\ UNCHANGED <<running, backlog, submitted, threadCount, idleCount, pc, owner>>

-----------------------------------------------------------------------------
(* stop(): the manager is joined first, then the workers. *)

Stop ==
    /\ owner = "use" /\ running
    /\ running' = FALSE
    /\ owner' = "joinManager"
    /\ UNCHANGED <<backlog, submitted, threadCount, idleCount, pc, manager>>

(* Mutant: the workers are joined while the manager may still add some. *)
JoinManagerNot ==
    /\ owner = "joinManager"
    /\ owner' = "joinWorkers"
    /\ UNCHANGED <<running, backlog, submitted, threadCount, idleCount, pc, manager>>

JoinManager ==
    /\ owner = "joinManager" /\ manager.at = "exit"
    /\ owner' = "joinWorkers"
    /\ UNCHANGED <<running, backlog, submitted, threadCount, idleCount, pc, manager>>

JoinWorkers ==
    /\ owner = "joinWorkers" /\ Live = {}
    /\ owner' = "destroyed"
    /\ UNCHANGED <<running, backlog, submitted, threadCount, idleCount, pc, manager>>

-----------------------------------------------------------------------------
Worker(t) == Loop(t) \/ LoopEnds(t) \/ Wait(t) \/ Take(t) \/ Leave(t) \/ TimeOut(t) \/ Done(t)
Manager == ReadBacklog \/ ReadCount \/ ReadIdle \/ (\E t \in Threads : AddThread(t)) \/ ManagerRound

Next == \/ AddTask
        \/ \E t \in Threads : Worker(t)
        \/ Manager
        \/ Stop \/ JoinManager \/ JoinWorkers

Spec == Init /\ [][Next]_vars

-----------------------------------------------------------------------------
TypeOK ==
    /\ running \in BOOLEAN
    /\ backlog \in Nat /\ submitted \in 0..MaxTasks
    /\ threadCount \in Nat /\ idleCount \in Nat
    /\ pc \in [Threads -> {"off", "while", "lock", "wait", "run"}]
    /\ manager \in [at : {"sleep", "cur", "idle", "add", "exit"},
                    backlog : Nat, cur : Nat, toAdd : 0..MaxThreads]
    /\ owner \in {"use", "joinManager", "joinWorkers", "destroyed"}

(* The counters the manager steers by are the truth: threadCount_ counts the *)
(* threads that exist, idleThreadCount_ those that wait, in every schedule.  *)
CountersExact ==
    threadCount = Cardinality(Live) /\ idleCount = Cardinality(Waiting)

(* The pool is elastic within its limits: never more than maxThreads_, not   *)
(* even when the manager acts on stale numbers while threads leave; never    *)
(* fewer than minThreads_ before stop.                                       *)
Elastic ==
    /\ Cardinality(Live) <= MaxThreads
    /\ running => Cardinality(Live) >= MinThreads

(* No thread outlives the pool: when the destructor returns neither a worker *)
(* nor the manager exists, so none touches freed members.                    *)
NoOrphans == owner = "destroyed" => Live = {} /\ manager.at = "exit"

(* Every queued task is eventually taken, unless the pool is stopped. *)
EventuallyTaken == backlog > 0 ~> (backlog = 0 \/ ~running)

(* stop() returns: a wakeup lost between the predicate and the wait is made  *)
(* up for by the time-out (compare ParserPool!StopReturns).                  *)
StopReturns == ~running ~> owner = "destroyed"
===============================================================================
