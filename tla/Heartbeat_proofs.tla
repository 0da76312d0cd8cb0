---------------------------- MODULE Heartbeat_proofs ----------------------------
(***************************************************************************)
(* Proofs about Heartbeat, for any number of descriptors and workers and   *)
(* any time-out.                                                           *)
(***************************************************************************)
EXTENDS Heartbeat, TLAPS

(* A thread has a descriptor in hand at every place but these two. *)
InHand(t) == t.at \notin {"idle", "top"} => t.fd \in Fds

Typing == TypeOK /\ InHand(reactor) /\ \A w \in Workers : InHand(worker[w])

(* What close_clint erases from latest_expire is no connection any more: the *)
(* reactor itself would have to accept it first.                             *)
Erased == reactor.at = "erase" => reactor.fd \notin open

(* The timer that latest_expire names for f is on its way, ... *)
Armed(f) ==
    /\ latest[f] # NoTimer
    /\ \/ [fd |-> f, left |-> latest[f]] \in hp
       \/ reactor.fd = f /\ reactor.at \in {"check", "push"} /\ reactor.left = latest[f]
       \/ \E w \in Workers : /\ worker[w].fd = f /\ worker[w].at = "push"
                             /\ worker[w].left = latest[f]

(* ... or the reactor is just beginning or ending the connection.            *)
Watched(f) == (reactor.fd = f /\ reactor.at \in {"arm", "close"}) \/ Armed(f)

Inv == Erased /\ \A f \in open : Watched(f)

-----------------------------------------------------------------------------
LEMMA Facts ==
  /\ Timeout \in Nat /\ Timeout > 0 /\ NoFd \notin Fds
  /\ Idle \in Thread /\ Idle.at = "idle"
  /\ Sweep \in Thread /\ Sweep.at = "top"
  /\ \A f \in Fds : Arming(f) \in Thread /\ Arming(f).at = "arm" /\ Arming(f).fd = f
  /\ reactor \in Thread => Return \in Thread /\ Return.at \in {"idle", "top"}
  <1>1. /\ Timeout \in Nat /\ Timeout > 0 /\ NoFd \notin Fds
        /\ 0 \in Left /\ Timeout \in Left
    BY HeartbeatAssumption DEF Left
  <1>2. Idle \in Thread /\ Idle.at = "idle"
    BY <1>1 DEF Thread, Idle
  <1>3. Sweep.at = "top"
    BY DEF Sweep, Idle
  <1>4. Sweep \in Thread
    BY <1>2 DEF Sweep, Thread
  <1>5. ASSUME NEW f \in Fds
        PROVE  Arming(f) \in Thread /\ Arming(f).at = "arm" /\ Arming(f).fd = f
    <2>1. Arming(f) \in Thread
      BY <1>1, <1>2 DEF Arming, Thread
    <2>2. Arming(f).at = "arm" /\ Arming(f).fd = f
      BY DEF Arming, Idle
    <2> QED  BY <2>1, <2>2
  <1>6. Return = Sweep \/ Return = Idle
    BY DEF Return
  <1> QED  BY <1>1, <1>2, <1>3, <1>4, <1>5, <1>6

LEMMA TickKeepsTypes ==
  /\ \A n \in Left \cup {NoTimer} : Sooner(n) \in Left \cup {NoTimer}
  /\ \A t \in Thread : /\ Older(t) \in Thread /\ Older(t).at = t.at /\ Older(t).fd = t.fd
                       /\ Older(t).left = Sooner(t.left)
  /\ \A t \in Timer : Older(t) = [fd |-> t.fd, left |-> Sooner(t.left)] /\ Older(t) \in Timer
  BY Facts DEF Sooner, Older, Left, NoTimer, Thread, Timer

LEMMA TypingInit == Init => Typing
  BY Facts DEF Init, Typing, TypeOK, InHand, Left, NoTimer

LEMMA TypingNext == Typing /\ [Next]_vars => Typing'
  <1> SUFFICES ASSUME Typing, [Next]_vars PROVE Typing'
    OBVIOUS
  <1> USE Facts DEF Typing, TypeOK, InHand
  <1>1. ASSUME NEW f \in Fds, Accept(f) \/ HangUp(f) PROVE Typing'
    <2>1. CASE Accept(f)
      BY <2>1 DEF Accept
    <2>2. CASE HangUp(f)
      BY <2>2 DEF HangUp, Thread
    <2> QED  BY <1>1, <2>1, <2>2
  <1>2. CASE AcceptArm
    BY <1>2 DEF AcceptArm, Thread
  <1>3. CASE AcceptPush
    BY <1>3 DEF AcceptPush, Thread, Timer, Idle
  <1>4. CASE CheckTimeout \/ SweepDone
    BY <1>4 DEF CheckTimeout, SweepDone
  <1>5. ASSUME NEW f \in Fds, Pop(f) PROVE Typing'
    BY <1>5 DEF Pop, Tops, Sweep, Idle, Thread, Timer
  <1>6. CASE Check
    BY <1>6 DEF Check, Sweep, Idle, Thread
  <1>7. CASE AlreadyClosed \/ CloseBuffer \/ CloseErase
    <2>1. CASE AlreadyClosed \/ CloseErase
      BY <2>1 DEF AlreadyClosed, CloseErase
    <2>2. CASE CloseBuffer
      BY <2>2 DEF CloseBuffer, Thread
    <2> QED  BY <1>7, <2>1, <2>2
  <1>8. ASSUME NEW w \in Workers, NEW f \in Fds, HeartbeatTask(w, f) PROVE Typing'
    <2>1. [Idle EXCEPT !.at = "begin", !.fd = f] \in Thread
      BY DEF Thread
    <2> QED  BY <1>8, <2>1 DEF HeartbeatTask, Thread
  <1>9. ASSUME NEW w \in Workers, HeartbeatClock(w) PROVE Typing'
    <2>1. worker[w].fd \in Fds
      BY <1>9 DEF HeartbeatClock
    <2> QED  BY <1>9, <2>1 DEF HeartbeatClock
  <1>10. ASSUME NEW w \in Workers, HeartbeatArm(w) PROVE Typing'
    BY <1>10 DEF HeartbeatArm, Thread
  <1>11. ASSUME NEW w \in Workers, HeartbeatPush(w) PROVE Typing'
    BY <1>11 DEF HeartbeatPush, Idle, Thread, Timer
  <1>12. CASE Tick
    BY <1>12, TickKeepsTypes DEF Tick
  <1>13. CASE UNCHANGED vars
    BY <1>13 DEF vars
  <1> QED
    BY <1>1, <1>2, <1>3, <1>4, <1>5, <1>6, <1>7, <1>8, <1>9, <1>10, <1>11, <1>12, <1>13
    DEF Next, ReactorProceeds, WorkerProceeds

(* For any time-out: what is in latest_expire, in the heap and in the        *)
(* threads' hands is a time up to it, and a descriptor.                      *)
THEOREM TypeCorrect == Spec => []TypeOK
  <1>1. Typing => TypeOK
    BY DEF Typing
  <1> QED  BY <1>1, TypingInit, TypingNext, PTL DEF Spec

-----------------------------------------------------------------------------
(* Steps that leave latest_expire and the heap alone, and with them the      *)
(* timers that are not in the hands of the thread that moves.                *)
LEMMA InvNext == Typing /\ Inv /\ [Next]_vars => Inv'
  <1> SUFFICES ASSUME Typing, Inv, [Next]_vars PROVE Inv'
    OBVIOUS
  <1>0. /\ open \subseteq Fds /\ latest \in [Fds -> Left \cup {NoTimer}] /\ hp \subseteq Timer
        /\ reactor \in Thread /\ worker \in [Workers -> Thread]
        /\ Erased /\ \A f \in open : Watched(f)
    BY DEF Typing, TypeOK, Inv
  <1> USE Facts DEF Inv, Erased, Watched
  <1>1. ASSUME NEW f \in Fds, Accept(f) PROVE Inv'
    <2>1. /\ open' = open \cup {f} /\ reactor.at = "idle" /\ reactor'.at = "arm"
          /\ reactor'.fd = f /\ UNCHANGED <<latest, hp, worker>>
      BY <1>1 DEF Accept
    <2> QED  BY <1>0, <2>1 DEF Armed
  <1>2. CASE AcceptArm
    <2>1. /\ reactor.fd \in Fds /\ reactor'.at = "push" /\ reactor'.fd = reactor.fd
          /\ reactor'.left = reactor.left /\ reactor.left \in Left
          /\ latest' = [latest EXCEPT ![reactor.fd] = reactor.left]
          /\ UNCHANGED <<open, hp, worker>> /\ reactor.at = "arm"
      BY <1>0, <1>2 DEF AcceptArm, Thread, Typing, InHand
    <2>2. Armed(reactor.fd)'
      BY <1>0, <2>1 DEF Armed, Left, NoTimer
    <2> QED  BY <1>0, <2>1, <2>2 DEF Armed
  <1>3. CASE AcceptPush
    BY <1>0, <1>3 DEF AcceptPush, Armed, Idle
  <1>4. ASSUME NEW f \in Fds, HangUp(f) PROVE Inv'
    BY <1>0, <1>4 DEF HangUp, Armed, Idle
  <1>5. CASE CheckTimeout \/ SweepDone
    <2>1. /\ reactor.at \in {"idle", "top"} /\ reactor'.at \in {"idle", "top"}
          /\ UNCHANGED <<open, latest, hp, worker>>
      BY <1>5 DEF CheckTimeout, SweepDone
    <2> QED  BY <1>0, <2>1 DEF Armed
  <1>6. ASSUME NEW f \in Fds, Pop(f) PROVE Inv'
    <2>1. PICK t \in hp : /\ hp' = hp \ {t} /\ reactor'.at = "check" /\ reactor'.fd = t.fd
                          /\ reactor'.left = t.left /\ reactor.at = "top"
                          /\ UNCHANGED <<open, latest, worker>>
      BY <1>6 DEF Pop, Tops, Sweep, Idle
    <2> QED  BY <1>0, <2>1 DEF Armed
  <1>7. CASE Check
    <2>1. reactor.at = "check" /\ UNCHANGED <<open, latest, hp, worker>>
      BY <1>7 DEF Check
    <2>2. CASE IsValid(reactor)
      BY <1>0, <1>7, <2>1, <2>2 DEF Check, Armed, Thread
    <2>3. CASE ~IsValid(reactor)
      <3>1. reactor'.at = "top"
        BY <1>7, <2>3 DEF Check, Sweep, Idle
      <3>2. \A f \in open : ~(reactor.fd = f /\ reactor.left = latest[f] /\ latest[f] # NoTimer)
        BY <2>3 DEF IsValid
      <3> QED  BY <1>0, <2>1, <3>1, <3>2 DEF Armed
    <2> QED  BY <2>2, <2>3
  <1>8. CASE AlreadyClosed \/ CloseBuffer
    <2>1. /\ reactor.at = "close" /\ UNCHANGED <<latest, hp, worker>>
          /\ open' = open \ {reactor.fd} /\ reactor'.at \in {"idle", "top", "erase"}
          /\ reactor'.at = "erase" => reactor'.fd = reactor.fd
      <3>1. CASE AlreadyClosed
        BY <1>0, <3>1 DEF AlreadyClosed
      <3>2. CASE CloseBuffer
        BY <1>0, <3>2 DEF CloseBuffer, Thread
      <3> QED  BY <1>8, <3>1, <3>2
    <2> QED  BY <1>0, <2>1 DEF Armed
  <1>9. CASE CloseErase
    <2>1. /\ reactor.at = "erase" /\ reactor.fd \notin open
          /\ \A f \in open : latest'[f] = latest[f]
          /\ reactor'.at \in {"idle", "top"} /\ UNCHANGED <<open, hp, worker>>
      BY <1>0, <1>9 DEF CloseErase
    <2> QED  BY <1>0, <2>1 DEF Armed
  <1>10. ASSUME NEW w \in Workers, NEW f \in Fds, HeartbeatTask(w, f) PROVE Inv'
    BY <1>0, <1>10 DEF HeartbeatTask, Armed, Idle
  <1>11. ASSUME NEW w \in Workers, HeartbeatClock(w) PROVE Inv'
    BY <1>0, <1>11 DEF HeartbeatClock, Armed, Arming, Idle
  <1>12. ASSUME NEW w \in Workers, HeartbeatArm(w) PROVE Inv'
    <2> DEFINE g == worker[w].fd
    <2>1. /\ g \in Fds /\ worker[w].at = "arm" /\ worker[w].left \in Left
          /\ worker'[w].at = "push" /\ worker'[w].fd = g /\ worker'[w].left = worker[w].left
          /\ \A v \in Workers : v # w => worker'[v] = worker[v]
          /\ latest' = [latest EXCEPT ![g] = worker[w].left]
          /\ UNCHANGED <<open, hp, reactor>>
      BY <1>0, <1>12 DEF HeartbeatArm, Thread, Typing, InHand
    <2>2. ASSUME NEW f \in open, f = g PROVE Armed(f)'
      BY <1>0, <2>1, <2>2 DEF Armed, Left, NoTimer
    <2> HIDE DEF g
    <2>3. ASSUME NEW f \in open, f # g, Armed(f) PROVE Armed(f)'
      <3>1. latest'[f] = latest[f] /\ latest[f] # NoTimer
        BY <1>0, <2>1, <2>3 DEF Armed
      <3>2. CASE [fd |-> f, left |-> latest[f]] \in hp
        BY <2>1, <3>1, <3>2 DEF Armed
      <3>3. CASE reactor.fd = f /\ reactor.at \in {"check", "push"} /\ reactor.left = latest[f]
        BY <2>1, <3>1, <3>3 DEF Armed
      <3>4. ASSUME NEW v \in Workers, worker[v].fd = f, worker[v].at = "push",
                   worker[v].left = latest[f]
            PROVE  Armed(f)'
        <4>1. worker'[v] = worker[v]
          BY <2>1, <3>4
        <4> QED  BY <3>1, <3>4, <4>1 DEF Armed
      <3> QED  BY <2>3, <3>2, <3>3, <3>4 DEF Armed
    <2>4. ASSUME NEW f \in open PROVE Watched(f)'
      <3>1. CASE f = g
        BY <2>2, <3>1
      <3>2. CASE f # g /\ Armed(f)
        BY <2>3, <3>2
      <3>3. CASE ~Armed(f)
        BY <1>0, <2>1, <3>3
      <3> QED  BY <3>1, <3>2, <3>3
    <2> QED  BY <1>0, <2>1, <2>4
  <1>13. ASSUME NEW w \in Workers, HeartbeatPush(w) PROVE Inv'
    BY <1>0, <1>13 DEF HeartbeatPush, Armed, Idle
  <1>14. CASE Tick
    <2>1. ASSUME NEW f \in open, Armed(f) PROVE Armed(f)'
      <3>1. latest'[f] = Sooner(latest[f]) /\ latest'[f] # NoTimer
        BY <1>0, <1>14, <2>1 DEF Tick, Armed, Sooner, NoTimer, Left
      <3>2. ASSUME [fd |-> f, left |-> latest[f]] \in hp
            PROVE  [fd |-> f, left |-> latest'[f]] \in hp'
        BY <1>0, <1>14, <3>1, <3>2, TickKeepsTypes DEF Tick
      <3>3. /\ reactor'.at = reactor.at /\ reactor'.fd = reactor.fd
            /\ reactor'.left = Sooner(reactor.left)
            /\ \A w \in Workers : /\ worker'[w].at = worker[w].at
                                  /\ worker'[w].fd = worker[w].fd
                                  /\ worker'[w].left = Sooner(worker[w].left)
        BY <1>0, <1>14, TickKeepsTypes DEF Tick
      <3> QED  BY <2>1, <3>1, <3>2, <3>3 DEF Armed
    <2>2. reactor'.at = reactor.at /\ reactor'.fd = reactor.fd /\ open' = open
      BY <1>0, <1>14, TickKeepsTypes DEF Tick
    <2> QED  BY <1>0, <2>1, <2>2
  <1>15. CASE UNCHANGED vars
    BY <1>0, <1>15 DEF vars, Armed
  <1> QED
    BY <1>1, <1>2, <1>3, <1>4, <1>5, <1>6, <1>7, <1>8, <1>9, <1>10, <1>11, <1>12, <1>13,
       <1>14, <1>15
    DEF Next, ReactorProceeds, WorkerProceeds

(* A live connection always has a timer on its way that will end it if its   *)
(* client stays silent, although workers and the reactor write latest_expire *)
(* without a lock, the number may be somebody else's by the time a heartbeat *)
(* is handled, and a timer is popped and judged in two steps.                *)
THEOREM TimerArmedHolds == Spec => []TimerArmed
  <1>1. Init => Inv
    BY DEF Init, Inv, Erased, Idle
  <1>2. Typing /\ Inv => TimerArmed
    BY DEF Inv, Watched, Armed, TimerArmed, AboutToPush
  <1> QED  BY <1>1, <1>2, InvNext, TypingInit, TypingNext, PTL DEF Spec
=============================================================================
