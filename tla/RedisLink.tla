------------------------------ MODULE RedisLink ------------------------------
(***************************************************************************)
(* Class Redis and its two connections (contexts) to one Redis server: one *)
(* for PUBLISH and the caches, used by any thread under _cache_mutex, and  *)
(* one for subscriptions, used by the observer thread only, which executes *)
(* the SUBSCRIBE and UNSUBSCRIBE commands others have queued.  A third     *)
(* thread pings Redis and, when it does not answer, replaces both contexts *)
(* and the observer.  A command is the number of the call that queued it.  *)
(***************************************************************************)
EXTENDS Integers, Sequences

CONSTANTS
    MaxCmds,     \* bound: commands ever queued
    MaxOutages   \* bound: how often Redis goes away

VARIABLES
    up,         \* Redis accepts connections
    outages,    \* how often it has gone away
    pub, sub,   \* the contexts: "null", "ok", "dead" (lost, not noticed), "err";
                \* of sub also "late": its read has timed out
    running,    \* _running
    keepalive,  \* _keepalive_running
    queue,      \* _cmd_queue
    added,      \* commands queued so far
    local,      \* process_pending_commands: the queue it has taken
    sent,       \* commands written to a context
    observer,   \* observer_channel_message; "none" when there is no thread
    ka,         \* keepAliveLoop
    dtor,       \* ~Redis
    misread,    \* ghost: a time-out of the observer was taken for a lost connection
    crossed,    \* ghost: the keep-alive thread was reconnecting during ~Redis
    broken,     \* ghost: a freed context was used, or a running thread destroyed
    command,    \* a worker is executing a command, under _cache_mutex
    lost        \* ghost: a worker's command met a null or freed context

redis    == <<up, outages>>
contexts == <<pub, sub>>
flags    == <<running, keepalive>>
commands == <<queue, added, local, sent>>
threads  == <<observer, ka, dtor>>
ghosts   == <<misread, crossed, broken>>
worker   == <<command, lost>>
vars     == <<redis, contexts, flags, commands, threads, ghosts, worker>>

(* After a connect() that succeeded.  (After one that did not there is no    *)
(* thread and no context, and nothing ever connects again.)                  *)
Init ==
    /\ up = TRUE /\ outages = 0
    /\ pub = "ok" /\ sub = "ok"
    /\ running = TRUE /\ keepalive = TRUE
    /\ queue = <<>> /\ added = 0 /\ local = <<>> /\ sent = <<>>
    /\ observer = "while" /\ ka = "while" /\ dtor = "none"
    /\ misread = FALSE /\ crossed = FALSE /\ broken = FALSE
    /\ command = FALSE /\ lost = FALSE

(* A process that uses a freed or null context, or destroys a running        *)
(* thread, is over.                                                          *)
Alive == ~lost /\ ~broken

-----------------------------------------------------------------------------
(* Redis, or the network.                                                    *)

Lost(c) == IF c = "null" THEN c ELSE IF c = "err" THEN c ELSE "dead"

GoesAway ==
    /\ Alive /\ up /\ outages < MaxOutages
    /\ up' = FALSE /\ outages' = outages + 1
    /\ pub' = Lost(pub) /\ sub' = Lost(sub)
    /\ UNCHANGED <<flags, commands, threads, ghosts, worker>>

ComesBack ==
    /\ Alive /\ ~up /\ up' = TRUE
    /\ UNCHANGED <<outages, contexts, flags, commands, threads, ghosts, worker>>

-----------------------------------------------------------------------------
(* subscribe and unsubscribe, by workers and by the main thread; refused     *)
(* while a reconnection is under way.                                        *)
Enqueue ==
    /\ Alive /\ added < MaxCmds /\ running
    /\ added' = added + 1
    /\ queue' = Append(queue, added + 1)
    /\ UNCHANGED <<redis, contexts, flags, local, sent, threads, ghosts, worker>>

(* Every operation on a cache, and PUBLISH, is one command on                *)
(* _publish_context, which is neither tested for null nor protected from     *)
(* reconnect.  They are all alike (map names sadd); only publish looks at    *)
(* _running, before it locks, which is too early to protect it.              *)
CommandBegins ==
    /\ Alive /\ ~command
    /\ command' = TRUE
    /\ lost' = (pub = "null")
    /\ UNCHANGED <<redis, contexts, flags, commands, threads, ghosts>>

CommandEnds ==
    /\ Alive /\ command
    /\ command' = FALSE
    /\ pub' = IF pub = "dead" THEN "err" ELSE pub
    /\ lost' = (pub = "null")
    /\ UNCHANGED <<redis, sub, flags, commands, threads, ghosts>>

-----------------------------------------------------------------------------
(* observer_channel_message                                                  *)

(* Mutant: the commands are taken from the back of the queue. *)
TakeCommandsNewest ==
    /\ observer = "while" /\ running
    /\ local' = [i \in 1..Len(queue) |-> queue[Len(queue) + 1 - i]] /\ queue' = <<>>
    /\ observer' = IF queue = <<>> THEN "read" ELSE "write"
    /\ UNCHANGED <<redis, contexts, flags, added, sent, ka, dtor, ghosts, worker>>

(* process_pending_commands: swap under _cmd_mutex ...                       *)
TakeCommands ==
    /\ observer = "while" /\ running
    /\ local' = queue /\ queue' = <<>>
    /\ observer' = IF queue = <<>> THEN "read" ELSE "write"
    /\ UNCHANGED <<redis, contexts, flags, added, sent, ka, dtor, ghosts, worker>>

ObserverEnds ==
    /\ observer = "while" /\ ~running
    /\ observer' = "end"
    /\ UNCHANGED <<redis, contexts, flags, commands, ka, dtor, ghosts, worker>>

(* ... then one command after the other.  The first write on a connection    *)
(* that is gone may succeed, a later one fails: the others are dropped.      *)
Write ==
    /\ observer = "write" /\ local # <<>> /\ sub # "err"
    /\ local' = Tail(local) /\ sent' = Append(sent, Head(local))
    /\ observer' = IF Len(local) = 1 THEN "read" ELSE "write"
    /\ broken' = (sub = "null")
    /\ UNCHANGED <<redis, contexts, flags, queue, added, ka, dtor, misread, crossed, worker>>

WriteFails ==
    /\ observer = "write" /\ local # <<>> /\ sub \in {"dead", "err"}
    /\ local' = <<>> /\ sub' = "err"
    /\ observer' = "read"
    /\ UNCHANGED <<redis, pub, flags, queue, added, sent, ka, dtor, ghosts, worker>>

(* The errno of an earlier time-out is taken for the reason: the error is    *)
(* wiped out and the write repeated.                                         *)
WriteAgain ==
    /\ observer = "write" /\ local # <<>> /\ sub = "err"
    /\ sub' = "dead"
    /\ UNCHANGED <<redis, pub, flags, commands, threads, ghosts, worker>>

(* redisGetReply: a message or a confirmation; nothing for a second, which   *)
(* hiredis notes as an error in the context; or the connection is lost.      *)
Read ==
    /\ observer = "read"
    /\ \/ sub = "ok" /\ UNCHANGED sub /\ observer' = "while"
       \/ sub = "ok" /\ sub' = "late" /\ observer' = "failed"
       \/ sub \in {"dead", "err"} /\ sub' = "err" /\ observer' = "failed"
       \/ sub = "null" /\ UNCHANGED <<sub, observer>>
    /\ broken' = (sub = "null")
    /\ UNCHANGED <<redis, pub, flags, commands, ka, dtor, misread, crossed, worker>>

(* A time-out, and a loss noted as an I/O error, are wiped out of the        *)
(* context; an end of file stays noted; any other error ends the loop.       *)
(* Otherwise the thread waits for a command or 50 ms.                        *)
Failed ==
    /\ observer = "failed"
    /\ sub' \in IF sub = "late" THEN {"ok"} ELSE IF sub = "err" THEN {"err", "dead"} ELSE {sub}
    /\ observer' \in IF sub = "err" /\ sub' = "err" THEN {"while", "end"} ELSE {"while"}
    /\ UNCHANGED <<redis, pub, flags, commands, ka, dtor, ghosts, worker>>

Observe == /\ Alive
           /\ \/ TakeCommands \/ ObserverEnds \/ Write \/ WriteFails
              \/ WriteAgain \/ Read \/ Failed

-----------------------------------------------------------------------------
(* keepAliveLoop                                                             *)

Sleep ==
    /\ ka = "while"
    /\ ka' = IF keepalive THEN "check" ELSE "end"
    /\ UNCHANGED <<redis, contexts, flags, commands, observer, dtor, ghosts, worker>>

(* isConnected: what the contexts have noted, read without a lock ...        *)
Notes ==
    /\ ka = "check"
    /\ ka' = IF pub \in {"ok", "dead"} /\ sub \in {"ok", "dead"} THEN "ping" ELSE "stop"
    /\ misread' = (misread \/ sub = "late")
    /\ UNCHANGED <<redis, contexts, flags, commands, observer, dtor, crossed, broken, worker>>

(* Mutant: the reply is compared with the wrong type. *)
PingRefused ==
    /\ ka = "ping"
    /\ ka' = "stop" /\ UNCHANGED pub
    /\ UNCHANGED <<redis, sub, flags, commands, observer, dtor, ghosts, worker>>

(* ... then a PING, before or after a worker's command: _cache_mutex decides, *)
(* and it makes no difference here.                                          *)
Ping ==
    /\ ka = "ping"
    /\ IF pub = "ok" THEN ka' = "while" /\ UNCHANGED pub
                     ELSE ka' = "stop" /\ pub' = "err"
    /\ UNCHANGED <<redis, sub, flags, commands, observer, dtor, ghosts, worker>>

Crossing == crossed' = (crossed \/ dtor # "none")

(* reconnect: stop the observer ...                                          *)
StopObserver ==
    /\ ka = "stop"
    /\ running' = FALSE /\ ka' = "join"
    /\ Crossing
    /\ UNCHANGED <<redis, contexts, keepalive, commands, observer, dtor, misread, broken, worker>>

(* Mutant: without waiting for it. *)
JoinObserverNot ==
    /\ ka = "join"
    /\ ka' = "free"
    /\ Crossing
    /\ UNCHANGED <<redis, contexts, flags, commands, observer, dtor, misread, broken, worker>>

JoinObserver ==
    /\ ka = "join" /\ observer \in {"end", "none"}
    /\ observer' = "none" /\ ka' = "free"
    /\ Crossing
    /\ broken' = (dtor = "observer")
    /\ UNCHANGED <<redis, contexts, flags, commands, dtor, misread, worker>>

(* ... free the contexts ...                                                 *)
FreeContexts ==
    /\ ka = "free"
    /\ pub' = "null" /\ sub' = "null"
    /\ lost' = command
    /\ ka' = "connect"
    /\ Crossing
    /\ UNCHANGED <<redis, flags, commands, observer, dtor, misread, broken, command>>

(* ... and connectInternal: both connections or none ...                     *)
ConnectPublish ==
    /\ ka = "connect"
    /\ IF up THEN pub' = "ok" /\ ka' = "connect2"
             ELSE UNCHANGED pub /\ ka' = "while"
    /\ Crossing
    /\ UNCHANGED <<redis, sub, flags, commands, observer, dtor, misread, broken, worker>>

(* Mutant: the flag that stopped the old observer keeps down the new one. *)
ConnectSubscribeOnly ==
    /\ ka = "connect2"
    /\ IF up THEN sub' = "ok" /\ UNCHANGED pub
             ELSE pub' = "null" /\ UNCHANGED sub
    /\ ka' = "while" /\ Crossing
    /\ UNCHANGED <<redis, flags, commands, observer, dtor, misread, broken, worker>>

(* ... and then a new observer (_running is false since StopObserver).       *)
ConnectSubscribe ==
    /\ ka = "connect2"
    /\ IF ~up
       THEN pub' = "null" /\ UNCHANGED <<sub, running, observer, broken>>
       ELSE /\ sub' = "ok" /\ UNCHANGED pub
            /\ running' = TRUE
            /\ observer' = "while" /\ broken' = (observer # "none")
    /\ ka' = "while" /\ Crossing
    /\ UNCHANGED <<redis, keepalive, commands, dtor, misread, worker>>

KeepAlive == /\ Alive
             /\ \/ Sleep \/ Notes \/ Ping \/ StopObserver \/ JoinObserver
                \/ FreeContexts \/ ConnectPublish \/ ConnectSubscribe

-----------------------------------------------------------------------------
(* ~Redis, on the main thread.                                               *)

Reconnecting == ka \in {"stop", "join", "free", "connect", "connect2"}

(* Mutant: the keep-alive flag is not lowered. *)
DestroyHalf ==
    /\ Alive /\ dtor = "none"
    /\ running' = FALSE
    /\ crossed' = (crossed \/ Reconnecting)
    /\ dtor' = "observer"
    /\ UNCHANGED <<redis, contexts, keepalive, commands, observer, ka, misread, broken, worker>>

Destroy ==
    /\ Alive /\ dtor = "none"
    /\ running' = FALSE /\ keepalive' = FALSE
    /\ crossed' = (crossed \/ Reconnecting)
    /\ dtor' = "observer"
    /\ UNCHANGED <<redis, contexts, commands, observer, ka, misread, broken, worker>>

DestroyJoinsObserver ==
    /\ dtor = "observer" /\ observer \in {"end", "none"}
    /\ observer' = "none" /\ dtor' = "keepalive"
    /\ broken' = (ka = "join")
    /\ UNCHANGED <<redis, contexts, flags, commands, ka, misread, crossed, worker>>

DestroyJoinsKeepAlive ==
    /\ dtor = "keepalive" /\ ka = "end"
    /\ dtor' = "free"
    /\ UNCHANGED <<redis, contexts, flags, commands, observer, ka, ghosts, worker>>

DestroyFrees ==
    /\ dtor = "free"
    /\ pub' = "null" /\ sub' = "null"
    /\ broken' = (observer # "none") /\ lost' = command
    /\ dtor' = "done"
    /\ UNCHANGED <<redis, flags, commands, observer, ka, misread, crossed, command>>

Destructor == Alive /\ (DestroyJoinsObserver \/ DestroyJoinsKeepAlive \/ DestroyFrees)

Next == GoesAway \/ ComesBack \/ Enqueue \/ CommandBegins \/ CommandEnds
        \/ Observe \/ KeepAlive \/ Destroy \/ Destructor

Spec == Init /\ [][Next]_vars

-----------------------------------------------------------------------------
Cmds     == 1..MaxCmds
Contexts == {"null", "ok", "dead", "err"}

TypeOK ==
    /\ up \in BOOLEAN /\ outages \in 0..MaxOutages
    /\ pub \in Contexts /\ sub \in Contexts \cup {"late"}
    /\ running \in BOOLEAN /\ keepalive \in BOOLEAN
    /\ queue \in Seq(Cmds) /\ added \in 0..MaxCmds /\ local \in Seq(Cmds) /\ sent \in Seq(Cmds)
    /\ observer \in {"while", "write", "read", "failed", "end", "none"}
    /\ ka \in {"while", "check", "ping", "stop", "join", "free", "connect", "connect2",
               "end"}
    /\ dtor \in {"none", "observer", "keepalive", "free", "done"}
    /\ misread \in BOOLEAN /\ crossed \in BOOLEAN /\ broken \in BOOLEAN
    /\ command \in BOOLEAN /\ lost \in BOOLEAN

(* No thread uses a context that another has freed, there is never a second  *)
(* observer, and no thread object is joined twice or destroyed while its     *)
(* thread runs ("executed in the subscribing thread only, so that            *)
(* _subcribe_context is safe", redis.h:94), unless the process ends while a  *)
(* reconnection is under way.                                                *)
ThreadsSafe == broken => crossed

(* Commands are written in the order in which they were queued, each at most *)
(* once; and as long as no connection was lost or believed to be, none is    *)
(* missing: an UNSUBSCRIBE never overtakes its SUBSCRIBE.                    *)
Steady == outages = 0 /\ ~misread
Queued == sent \o local \o queue
CommandsInOrder ==
    /\ \A i, j \in 1..Len(Queued) :
         i < j => Queued[i] < Queued[j]
    /\ Steady => Queued = [i \in 1..added |-> i]

(* A worker's command finds its context (lost is the end of the process), as *)
(* long as Redis was there, no time-out of the observer was taken for its    *)
(* absence, and the object has not been destroyed: reconnect frees the       *)
(* context without _cache_mutex, and where it fails leaves none.             *)
WorkersSafe == lost => ~Steady \/ dtor = "done"

(* However often Redis goes away, the link to it is mended, observer and     *)
(* all, until the process ends.                                              *)
Linked == /\ pub = "ok" /\ sub \in {"ok", "late"}
          /\ running /\ observer \notin {"none", "end"}
LinkRestored == []<>(Linked \/ dtor # "none" \/ ~Alive)
===============================================================================
