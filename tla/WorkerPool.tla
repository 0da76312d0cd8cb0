------------------------------ MODULE WorkerPool ------------------------------
(***************************************************************************)
(* ThreadAndConnectionPool as a whole: the threads of module ThreadPool    *)
(* and the connections of module ConnPool, which share running_, the       *)
(* workers and the manager.  A worker that takes a task runs               *)
(* process_clint_data, which begins with get_conn (DbConnectionGuard) and  *)
(* ends with en_conn; so a task may wait for a connection, and stop for    *)
(* the task.                                                               *)
(***************************************************************************)
EXTENDS ConnPool

CONSTANTS MinThreads, MaxThreads, ScaleFactor,
          MaxTasks       \* bound: tasks ever submitted

VARIABLES backlog, submitted, threadCount, idleCount,
          thread,        \* where each worker is in workerLoop
          manager, owner

T == INSTANCE ThreadPool WITH Threads <- Clients, pc <- thread

ASSUME WorkerPoolAssumption == T!ThreadPoolAssumption

connVars   == <<idle, count, mutex, pc, crashed>>
threadVars == <<backlog, submitted, threadCount, idleCount, thread, manager, owner>>
poolVars   == <<running, connVars, threadVars>>

PoolInit == Init /\ T!Init

-----------------------------------------------------------------------------
AddTask == ~crashed /\ T!AddTask /\ UNCHANGED connVars

(* A step of workerLoop outside any task. *)
LoopStep(t) ==
    /\ ~crashed
    /\ T!Loop(t) \/ T!LoopEnds(t) \/ T!Wait(t) \/ T!Leave(t) \/ T!TimeOut(t)
    /\ UNCHANGED connVars

(* A task is taken, and its handler asks for a connection. *)
TakeTask(t) == T!Take(t) /\ Call(t)

ConnStep(t) == (GetStep(t) \/ EnConn(t)) /\ UNCHANGED threadVars

(* The handler returns, after its guard gave the connection back. *)
Done(t) == ~crashed /\ pc[t] = "none" /\ T!Done(t) /\ UNCHANGED connVars

(* managerLoop: first the threads ... *)
ManageThreads ==
    /\ ~crashed
    /\ T!ReadBacklog \/ T!ReadCount \/ T!ReadIdle \/ (\E t \in Clients : T!AddThread(t))
    /\ UNCHANGED connVars

(* ... then the connections, then the loop test. *)
ManageConns ==
    /\ ~crashed /\ mutex = NoOne
    /\ T!ManagerRound
    /\ IF TooManyIdle THEN Shrink ELSE UNCHANGED connVars

(* stop(): both halves see the same running_. *)
StopPool == Stop /\ T!Stop

JoinManager == ~crashed /\ T!JoinManager /\ UNCHANGED connVars

(* The last worker is joined and the queue of connections emptied. *)
JoinWorkers ==
    /\ ~crashed /\ T!JoinWorkers
    /\ IF idle > 0 THEN StopClear ELSE UNCHANGED connVars

-----------------------------------------------------------------------------
Worker(t) == LoopStep(t) \/ TakeTask(t) \/ ConnStep(t) \/ Done(t)
Manager   == ManageThreads \/ ManageConns
Owner     == JoinManager \/ JoinWorkers

PoolNext == AddTask \/ (\E t \in Clients : Worker(t)) \/ Manager \/ StopPool \/ Owner

(* Threads are scheduled, waits time out, a lock that is free is acquired,   *)
(* the part of a handler that uses the connection ends; a thread that keeps  *)
(* finding the task queue non-empty is not for ever overtaken.               *)
PoolFairness == /\ \A t \in Clients : WF_poolVars(Worker(t)) /\ SF_poolVars(TakeTask(t))
                /\ WF_poolVars(Manager) /\ WF_poolVars(Owner)

PoolSpec     == PoolInit /\ [][PoolNext]_poolVars
PoolFairSpec == PoolSpec /\ PoolFairness

-----------------------------------------------------------------------------
(* The counters the manager steers by are exact in every schedule, and the   *)
(* number of threads stays within its limits (see ThreadPool).               *)
CountersExact == T!CountersExact
Elastic       == T!Elastic

(* When the destructor returns, no thread is left that could touch freed     *)
(* members, no connection is held or waited for, and none is open.           *)
NoOrphans == owner = "destroyed" => T!NoOrphans /\ At("none") = Clients /\ idle = 0

(* Every queued task is taken, although workers may have to wait for each    *)
(* other's connections, unless the pool is stopped.                          *)
EventuallyTaken == []~crashed => T!EventuallyTaken

(* stop() returns, although its notification may be lost and a worker may be *)
(* anywhere in get_conn: both waits time out, and both loops see running_.   *)
StopReturns == []~crashed => T!StopReturns
===============================================================================
