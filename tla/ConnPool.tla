------------------------------- MODULE ConnPool -------------------------------
(***************************************************************************)
(* The database connections of ThreadAndConnectionPool: a queue of idle    *)
(* connections, connectionCount_, get_conn and en_conn called by the       *)
(* worker threads (each holds at most one connection, DbConnectionGuard),  *)
(* and the manager that retires surplus ones.  MySQL is the environment:   *)
(* it decides whether a ping, a reconnection or a new connection succeeds. *)
(***************************************************************************)
EXTENDS Integers, FiniteSets

CONSTANTS Clients,              \* worker threads
          MinConns, MaxConns,
          DbRefuses,            \* whether MySQL may refuse a new connection
          NoOne                 \* connMutex_ is free

ASSUME ConnPoolAssumption ==
    /\ MinConns \in Nat /\ MaxConns \in Nat \ {0} /\ MinConns <= MaxConns
    /\ IsFiniteSet(Clients) /\ NoOne \notin Clients /\ DbRefuses \in BOOLEAN

VARIABLES
    running,   \* running_
    idle,      \* conns_.size()
    count,     \* connectionCount_
    mutex,     \* holder of connMutex_ between two steps of get_conn
    pc,        \* where each worker is
    crashed    \* an exception has left a thread: std::terminate

vars == <<running, idle, count, mutex, pc, crashed>>

At(l)  == {c \in Clients : pc[c] = l}
Goto(c, l) == pc' = [pc EXCEPT ![c] = l]
Holds(c)   == mutex \in {c, NoOne}   \* c has the lock, or can take it

(* init(): as many of the minimum as MySQL grants. *)
Init ==
    /\ running = TRUE
    /\ idle \in 0..MinConns /\ count = idle
    /\ (~DbRefuses => idle = MinConns)
    /\ mutex = NoOne
    /\ pc = [c \in Clients |-> "none"]
    /\ crashed = FALSE

-----------------------------------------------------------------------------
(* get_conn *)

Call(c) ==
    /\ ~crashed /\ pc[c] = "none"
    /\ Goto(c, "loop")
    /\ UNCHANGED <<running, idle, count, mutex, crashed>>

(* An idle connection that answers the ping, or reconnects. *)
GetIdle(c) ==
    /\ ~crashed /\ pc[c] = "loop" /\ Holds(c) /\ running /\ idle > 0
    /\ idle' = idle - 1
    /\ mutex' = NoOne
    /\ Goto(c, "using")
    /\ UNCHANGED <<running, count, crashed>>

(* Mutant: the dead connection stays in connectionCount_. *)
DropDeadUncounted(c) ==
    /\ ~crashed /\ pc[c] = "loop" /\ Holds(c) /\ running /\ idle > 0
    /\ DbRefuses
    /\ idle' = idle - 1
    /\ mutex' = c
    /\ UNCHANGED <<running, count, pc, crashed>>

(* It does neither: it is dropped, and the loop continues with the lock held. *)
DropDead(c) ==
    /\ ~crashed /\ pc[c] = "loop" /\ Holds(c) /\ running /\ idle > 0
    /\ DbRefuses
    /\ idle' = idle - 1
    /\ count' = count - 1
    /\ mutex' = c
    /\ UNCHANGED <<running, pc, crashed>>

MayGrowOff == count <= MaxConns   \* mutant: off by one
MayGrow    == count < MaxConns

(* None idle but room for one more: reserve it, and create it unlocked. *)
Grow(c) ==
    /\ ~crashed /\ pc[c] = "loop" /\ Holds(c) /\ running /\ idle = 0
    /\ MayGrow
    /\ count' = count + 1
    /\ mutex' = NoOne
    /\ Goto(c, "create")
    /\ UNCHANGED <<running, idle, crashed>>

Created(c) ==
    /\ ~crashed /\ pc[c] = "create"
    /\ Goto(c, "using")
    /\ UNCHANGED <<running, idle, count, mutex, crashed>>

(* The creation fails: lock, give the reservation back, and lock once more:  *)
(* unique_lock::lock on a lock it owns throws, and nothing catches it.       *)
CreateFails(c) ==
    /\ ~crashed /\ pc[c] = "create" /\ mutex = NoOne
    /\ DbRefuses
    /\ count' = count - 1
    /\ crashed' = TRUE
    /\ mutex' = c
    /\ Goto(c, "loop")
    /\ UNCHANGED <<running, idle>>

(* None idle and no room: wait, at most a second, for a notification. *)
Wait(c) ==
    /\ ~crashed /\ pc[c] = "loop" /\ Holds(c) /\ running /\ idle = 0
    /\ ~MayGrow
    /\ mutex' = NoOne
    /\ Goto(c, "wait")
    /\ UNCHANGED <<running, idle, count, crashed>>

Wake(c) ==
    /\ ~crashed /\ pc[c] = "wait"
    /\ Goto(c, "loop")
    /\ UNCHANGED <<running, idle, count, mutex, crashed>>

(* The pool was stopped: nullptr. *)
GetNull(c) ==
    /\ ~crashed /\ pc[c] = "loop" /\ Holds(c) /\ ~running
    /\ mutex' = NoOne
    /\ Goto(c, "none")
    /\ UNCHANGED <<running, idle, count, crashed>>

-----------------------------------------------------------------------------
(* Mutant: the handler returns early and the connection with it is lost. *)
EnConnForgotten(c) ==
    /\ ~crashed /\ pc[c] = "using" /\ mutex = NoOne
    /\ Goto(c, "none")
    /\ UNCHANGED <<running, idle, count, mutex, crashed>>

(* en_conn, from the guard's destructor. *)
EnConn(c) ==
    /\ ~crashed /\ pc[c] = "using" /\ mutex = NoOne
    /\ idle' = idle + 1
    /\ Goto(c, "none")
    /\ UNCHANGED <<running, count, mutex, crashed>>

(* managerLoop, its half about connections: retire one when most are idle.   *)
(* Its last round may come after stop.                                       *)
TooManyIdle == idle > MinConns /\ count > MinConns /\ idle > count \div 2

Shrink ==
    /\ ~crashed /\ mutex = NoOne
    /\ TooManyIdle
    /\ idle' = idle - 1
    /\ count' = count - 1
    /\ UNCHANGED <<running, mutex, pc, crashed>>

(* stop(), up to the joins: get_conn stops handing out connections. *)
Stop ==
    /\ ~crashed /\ running
    /\ running' = FALSE
    /\ UNCHANGED <<idle, count, mutex, pc, crashed>>

(* ... and, when every worker has been joined, empties the queue. *)
StopClear ==
    /\ ~crashed /\ ~running /\ At("none") = Clients
    /\ idle > 0
    /\ idle' = 0
    /\ count' = count   \* connectionCount_ is left as it is
    /\ UNCHANGED <<running, mutex, pc, crashed>>

-----------------------------------------------------------------------------
GetStep(c) == \/ GetIdle(c) \/ DropDead(c) \/ Grow(c) \/ Created(c) \/ CreateFails(c)
              \/ Wait(c) \/ Wake(c) \/ GetNull(c)

Next == \/ \E c \in Clients : Call(c) \/ GetStep(c) \/ EnConn(c)
        \/ Shrink \/ Stop \/ StopClear

Spec == Init /\ [][Next]_vars

-----------------------------------------------------------------------------
TypeOK ==
    /\ running \in BOOLEAN /\ crashed \in BOOLEAN
    /\ idle \in Nat /\ count \in Nat
    /\ mutex \in Clients \cup {NoOne}
    /\ pc \in [Clients -> {"none", "loop", "create", "wait", "using"}]

(* connectionCount_ is exact in every schedule: the connections in the       *)
(* queue, in use, and being created; so none leaks and none is counted twice. *)
CountExact ==
    running => count = idle + Cardinality(At("using")) + Cardinality(At("create"))

(* MySQL never sees more than maxConns_ connections of the pool. *)
WithinLimit == idle + Cardinality(At("using")) + Cardinality(At("create")) <= MaxConns

(* A pool with as many connections as threads, which is what pool(16) gives, *)
(* never makes a worker wait for a connection.                               *)
NoWaitWhenEnough == Cardinality(Clients) <= MaxConns => At("wait") = {}

(* "Loop until we get a connection or stop" (ThreadAndConnectionPool.h:88):  *)
(* get_conn survives a refused connection.                                   *)
NeverCrashes == ~crashed
===============================================================================
