------------------------------ MODULE Heartbeat ------------------------------
(***************************************************************************)
(* How silent connections are reclaimed.  latest_expire holds, per fd, the *)
(* moment its connection expires; hp is a min-heap of (fd, expire) timers  *)
(* with lazy deletion: an update pushes a new timer and leaves the old one *)
(* in the heap, and check_timeout, run on the reactor thread by a periodic *)
(* timerfd, drops a popped timer unless latest_expire still agrees with    *)
(* it.  Heartbeats are handled by worker threads, so update_expire races   *)
(* with the reactor.                                                       *)
(*                                                                         *)
(* Times are kept RELATIVE to now: an expiry is the number of ticks left,  *)
(* from Timeout down to 0 (expired).  Timers of one fd that have all       *)
(* expired are therefore equal, which changes nothing: check_timeout would *)
(* pop them in one loop and close the fd on the one that is latest.  For   *)
(* the same reason hp may be a set: a second copy of a timer is popped     *)
(* next and finds what the first one left.                                 *)
(***************************************************************************)
EXTENDS Integers

CONSTANTS Fds, Workers,
          Timeout,    \* HEARTBEAT_TIMEOUT_SEC, in ticks of the timerfd
          NoFd

ASSUME HeartbeatAssumption == Timeout \in Nat \ {0} /\ NoFd \notin Fds

VARIABLES
    open,      \* DOMAIN client_buffers
    latest,    \* latest_expire: ticks left, or NoTimer
    hp,        \* the timers in the heap
    reactor,   \* where the main thread is, with the fd and expiry at hand
    worker     \* where each worker is in the heartbeat command

vars == <<open, latest, hp, reactor, worker>>

NoTimer == -1
Left    == 0..Timeout
Timer   == [fd : Fds, left : Left]

Thread == [at : {"idle", "begin", "arm", "push", "top", "check", "close", "erase"},
           fd : Fds \cup {NoFd}, left : Left, sweep : BOOLEAN]
Idle   == [at |-> "idle", fd |-> NoFd, left |-> 0, sweep |-> FALSE]
Sweep  == [Idle EXCEPT !.at = "top", !.sweep = TRUE]  \* the loop of check_timeout

Init ==
    /\ open = {}
    /\ latest = [f \in Fds |-> NoTimer]
    /\ hp = {}
    /\ reactor = Idle
    /\ worker = [w \in Workers |-> Idle]

(* update_expire has read the clock and will write latest_expire[f]. *)
Arming(f) == [Idle EXCEPT !.at = "arm", !.fd = f, !.left = Timeout]

-----------------------------------------------------------------------------
(* The reactor. *)

(* handle_new_connect: the buffer that marks the fd live, then update_expire. *)
Accept(f) ==
    /\ reactor = Idle
    /\ f \notin open
    /\ open' = open \cup {f}
    /\ reactor' = Arming(f)
    /\ UNCHANGED <<latest, hp, worker>>

(* update_expire, first half: latest_expire is written without timer_mutex. *)
AcceptArm ==
    /\ reactor.at = "arm"
    /\ latest' = [latest EXCEPT ![reactor.fd] = reactor.left]
    /\ reactor' = [reactor EXCEPT !.at = "push"]
    /\ UNCHANGED <<open, hp, worker>>

(* Second half: the heap is, under the mutex. *)
AcceptPush ==
    /\ reactor.at = "push"
    /\ hp' = hp \cup {[fd |-> reactor.fd, left |-> reactor.left]}
    /\ reactor' = Idle
    /\ UNCHANGED <<open, latest, worker>>

(* Any other reason to close f: hang-up, error, overflow, "bye". *)
HangUp(f) ==
    /\ reactor = Idle
    /\ f \in open
    /\ reactor' = [Idle EXCEPT !.at = "close", !.fd = f]
    /\ UNCHANGED <<open, latest, hp, worker>>

(* The timerfd is readable: check_timeout. *)
CheckTimeout ==
    /\ reactor = Idle
    /\ reactor' = Sweep
    /\ UNCHANGED <<open, latest, hp, worker>>

(* The top of the min-heap is a timer that expires first. *)
Tops == {t \in hp : \A u \in hp : t.left <= u.left}

Pop(f) ==
    /\ reactor.at = "top"
    /\ \E t \in Tops :
         /\ t.fd = f /\ t.left = 0
         /\ hp' = hp \ {t}
         /\ reactor' = [Sweep EXCEPT !.at = "check", !.fd = t.fd, !.left = t.left]
    /\ UNCHANGED <<open, latest, worker>>

(* The heap is empty, or its top lies in the future. *)
SweepDone ==
    /\ reactor.at = "top"
    /\ \A t \in Tops : t.left > 0
    /\ reactor' = Idle
    /\ UNCHANGED <<open, latest, hp, worker>>

(* is_valid, under timer_mutex, which is not held since the pop. *)
IsValid(t) == latest[t.fd] # NoTimer /\ latest[t.fd] = t.left

Check ==
    /\ reactor.at = "check"
    /\ reactor' = IF IsValid(reactor) THEN [reactor EXCEPT !.at = "close"] ELSE Sweep
    /\ UNCHANGED <<open, latest, hp, worker>>

Return == IF reactor.sweep THEN Sweep ELSE Idle

(* close_clint: a missing buffer means the fd was cleaned up before. *)
AlreadyClosed ==
    /\ reactor.at = "close" /\ reactor.fd \notin open
    /\ reactor' = Return
    /\ UNCHANGED <<open, latest, hp, worker>>

CloseBuffer ==
    /\ reactor.at = "close" /\ reactor.fd \in open
    /\ open' = open \ {reactor.fd}
    /\ reactor' = [reactor EXCEPT !.at = "erase"]
    /\ UNCHANGED <<latest, hp, worker>>

(* latest_expire.erase, again without timer_mutex; then close(fd). *)
CloseErase ==
    /\ reactor.at = "erase"
    /\ latest' = [latest EXCEPT ![reactor.fd] = NoTimer]
    /\ reactor' = Return
    /\ UNCHANGED <<open, hp, worker>>

-----------------------------------------------------------------------------
(* The workers: command "heartbeat" of process_clint_data.  The task carries *)
(* only the fd; by the time it runs, the fd may be closed, or someone else's. *)

HeartbeatTask(w, f) ==
    /\ worker[w] = Idle
    /\ f \in open /\ ~ (reactor.fd = f /\ reactor.at \in {"arm", "push"})
    /\ worker' = [worker EXCEPT ![w] = [Idle EXCEPT !.at = "begin", !.fd = f]]
    /\ UNCHANGED <<open, latest, hp, reactor>>

HeartbeatClock(w) ==
    /\ worker[w].at = "begin"
    /\ worker' = [worker EXCEPT ![w] = Arming(worker[w].fd)]
    /\ UNCHANGED <<open, latest, hp, reactor>>

HeartbeatArm(w) ==
    /\ worker[w].at = "arm"
    /\ latest' = [latest EXCEPT ![worker[w].fd] = worker[w].left]
    /\ worker' = [worker EXCEPT ![w].at = "push"]
    /\ UNCHANGED <<open, hp, reactor>>

(* Mutant: the timer is only pushed for an fd that has none. *)
HeartbeatPushOnce(w) ==
    /\ worker[w].at = "push"
    /\ hp' = IF \E t \in hp : t.fd = worker[w].fd THEN hp
             ELSE hp \cup {[fd |-> worker[w].fd, left |-> worker[w].left]}
    /\ worker' = [worker EXCEPT ![w] = Idle]
    /\ UNCHANGED <<open, latest, reactor>>

HeartbeatPush(w) ==
    /\ worker[w].at = "push"
    /\ hp' = hp \cup {[fd |-> worker[w].fd, left |-> worker[w].left]}
    /\ worker' = [worker EXCEPT ![w] = Idle]
    /\ UNCHANGED <<open, latest, reactor>>

-----------------------------------------------------------------------------
Sooner(n) == IF n > 0 THEN n - 1 ELSE n
Older(t)  == [t EXCEPT !.left = Sooner(@)]

(* Time passes, also between a thread's reading of the clock and its writes. *)
Tick ==
    /\ latest' = [f \in Fds |-> Sooner(latest[f])]
    /\ hp' = {Older(t) : t \in hp}
    /\ reactor' = Older(reactor)
    /\ worker' = [w \in Workers |-> Older(worker[w])]
    /\ UNCHANGED open

ReactorProceeds == AcceptArm \/ AcceptPush \/ (\E f \in Fds : Pop(f)) \/ SweepDone \/ Check
                   \/ AlreadyClosed \/ CloseBuffer \/ CloseErase
WorkerProceeds(w) == HeartbeatClock(w) \/ HeartbeatArm(w) \/ HeartbeatPush(w)

Next == \/ \E f \in Fds : Accept(f) \/ HangUp(f)
        \/ CheckTimeout \/ ReactorProceeds
        \/ \E w \in Workers : (\E f \in Fds : HeartbeatTask(w, f)) \/ WorkerProceeds(w)
        \/ Tick

(* Time passes, the timerfd keeps firing, threads are scheduled.  A timer in *)
(* the heap is overtaken only by timers that expire before it, hence the     *)
(* strong fairness of each Pop(f), which relative times cannot show.         *)
(* Whether a client connects, sends a heartbeat or leaves is up to it.       *)
Fairness == /\ WF_vars(Tick) /\ SF_vars(CheckTimeout) /\ WF_vars(ReactorProceeds)
            /\ \A f \in Fds : SF_vars(Pop(f))
            /\ \A w \in Workers : WF_vars(WorkerProceeds(w))

Spec == Init /\ [][Next]_vars
FairSpec == Spec /\ Fairness

-----------------------------------------------------------------------------
TypeOK ==
    /\ open \subseteq Fds
    /\ latest \in [Fds -> Left \cup {NoTimer}]
    /\ hp \subseteq Timer
    /\ reactor \in Thread
    /\ worker \in [Workers -> Thread]

(* A live connection always has a timer on its way to reclaim it: the one    *)
(* latest_expire names is in the heap, or popped and being checked, or about *)
(* to be pushed by the thread that wrote latest_expire.                      *)
AboutToPush(f) ==
    \E t \in {reactor} \cup {worker[w] : w \in Workers} :
        t.fd = f /\ t.at = "push" /\ t.left = latest[f]
TimerArmed ==
    \A f \in open :
        \/ reactor.fd = f /\ reactor.at \in {"arm", "close"}
        \/ /\ latest[f] # NoTimer
           /\ \/ [fd |-> f, left |-> latest[f]] \in hp
              \/ reactor.fd = f /\ reactor.at = "check" /\ reactor.left = latest[f]
              \/ AboutToPush(f)

(* A connection whose client has fallen silent is closed.                    *)
Silent(f) == \A w \in Workers : worker[w].fd # f
SilentIsClosed == \A f \in Fds : <>[]Silent(f) => []<>(f \notin open)
===============================================================================
