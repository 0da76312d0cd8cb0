------------------------------- MODULE Shutdown -------------------------------
(***************************************************************************)
(* The background services of the server, DbHandle (module DbWriter) and   *)
(* Redis (module RedisLink), while it serves and when main() ends: the     *)
(* clients that are signed in are closed, each with a statement and an     *)
(* UNSUBSCRIBE, then DbHandle is stopped, and the destructor of redis_     *)
(* runs after main has returned.  Workers, which outlive both, queue       *)
(* statements and commands all the while.                                  *)
(***************************************************************************)
EXTENDS DbWriter

CONSTANTS
    Clients,     \* how many clients are signed in when main leaves its loop
    MaxCmds, MaxOutages

ASSUME ShutdownAssumption ==
    Clients \in Nat \ {0} /\ MaxCmds \in Nat /\ MaxOutages \in Nat

VARIABLES
    main,     \* the main thread: "serve", "offline", "unsub", "stop", "return"
    open,     \* clients it still has to close
    \* Redis, with linkRunning for its _running, cmds the commands in cmdQueue
    up, outages, pub, sub, linkRunning, keepalive, cmdQueue, cmds, local, sent,
    observer, ka, dtor, misread, crossed, broken, command, lost

redisVars == <<up, outages, pub, sub, linkRunning, keepalive, cmdQueue, cmds, local,
               sent, observer, ka, dtor, misread, crossed, broken, command, lost>>
allVars == <<main, open, vars, redisVars>>

R == INSTANCE RedisLink WITH running <- linkRunning, queue <- cmdQueue, added <- cmds

(* DbHandle::start and Redis::connect, at the top of main.                   *)
ServerInit == main = "serve" /\ open = Clients /\ Init /\ R!Init

-----------------------------------------------------------------------------
(* Workers; the bound leaves the main thread its own.                        *)
WorkerAddsTask ==
    /\ R!Alive /\ added + open < MaxStmts
    /\ AddTask
    /\ UNCHANGED <<main, open, redisVars>>

WorkerUsesRedis ==
    /\ \/ cmds + open < MaxCmds /\ R!Enqueue
       \/ R!CommandBegins \/ R!CommandEnds
    /\ UNCHANGED <<main, open, vars>>

DbThread    == R!Alive /\ HandleDb /\ UNCHANGED <<main, open, redisVars>>
Redis(step) == step /\ UNCHANGED <<main, open, vars>>
RedisThreads == Redis(R!Observe) \/ Redis(R!KeepAlive)
RedisServer  == Redis(R!GoesAway) \/ Redis(R!ComesBack)

-----------------------------------------------------------------------------
(* main, after its loop.                                                     *)
LeaveLoop ==
    /\ R!Alive /\ main = "serve"
    /\ main' = "offline"
    /\ UNCHANGED <<open, vars, redisVars>>

(* close_clint: is_online = 0 is queued ...                                  *)
CloseOffline ==
    /\ R!Alive /\ main = "offline"
    /\ AddTask
    /\ main' = "unsub"
    /\ UNCHANGED <<open, redisVars>>

(* ... and so is the UNSUBSCRIBE, unless Redis is being reconnected.         *)
CloseUnsub ==
    /\ R!Alive /\ main = "unsub"
    /\ R!Enqueue \/ (~linkRunning /\ UNCHANGED redisVars)
    /\ open' = open - 1
    /\ main' = IF open = 1 THEN "stop" ELSE "offline"
    /\ UNCHANGED vars

StopDb ==
    /\ R!Alive /\ main = "stop"
    /\ Stop \/ StopNotify \/ Join
    /\ main' = IF owner' = "stopped" THEN "return" ELSE "stop"
    /\ UNCHANGED <<open, redisVars>>

DestroyRedis ==
    /\ main = "return"
    /\ R!Destroy \/ R!Destructor
    /\ UNCHANGED <<main, open, vars>>

Closing == CloseOffline \/ CloseUnsub \/ StopDb \/ DestroyRedis

ServerNext == \/ WorkerAddsTask \/ WorkerUsesRedis \/ DbThread
              \/ RedisThreads \/ RedisServer \/ LeaveLoop \/ Closing

ServerSpec == ServerInit /\ [][ServerNext]_allVars

(* Every thread runs, and Redis comes back; that the loop is left at all is  *)
(* nobody's promise.                                                         *)
FairServerSpec ==
    /\ ServerSpec
    /\ WF_allVars(DbThread) /\ WF_allVars(Closing)
    /\ WF_allVars(Redis(R!Observe)) /\ WF_allVars(Redis(R!KeepAlive))
    /\ WF_allVars(Redis(R!ComesBack))

-----------------------------------------------------------------------------
(* The link to Redis keeps what module RedisLink promises.                   *)
ThreadsSafe     == R!ThreadsSafe
CommandsInOrder == R!CommandsInOrder
WorkersSafe     == R!WorkersSafe
LinkRestored    == R!LinkRestored

(* The end of main comes about ("graceful shutdown", epoll_ser.cpp:1953),    *)
(* whatever the other threads do, unless a reconnection is under way then,   *)
(* the notification of DbHandle::stop is lost, or the process dies.          *)
NotificationLost == owner = "join" /\ thread \in {"block", "wait"}
ProcessEnds == []<>(\/ main = "serve" \/ dtor = "done"
                    \/ crossed \/ NotificationLost \/ ~R!Alive)
===============================================================================
