--------------------------- MODULE WorkerPool_proofs ---------------------------
(***************************************************************************)
(* Proofs about the worker pool, for any numbers of threads, tasks and     *)
(* connections and any limits: first ConnPool by itself, then ThreadPool   *)
(* by itself, which is the instance T here, then the whole.  Every step of *)
(* the whole is a step of each part, or leaves it alone, so what is proved *)
(* of the parts holds of the whole.                                        *)
(***************************************************************************)
EXTENDS WorkerPool, FiniteSetTheorems, TLAPS

-----------------------------------------------------------------------------
(* The connections.  That connectionCount_ stays a natural number is already *)
(* a consequence of what it counts, so types and counting are one invariant. *)

(* Connections outside the queue: in use, and being created. *)
Using    == Cardinality(At("using"))
Creating == Cardinality(At("create"))

(* connectionCount_ covers every connection; until stop() empties the queue  *)
(* without adjusting it, it counts nothing else.                             *)
Counting == /\ idle + Using + Creating <= count /\ count <= MaxConns
            /\ running => count = idle + Using + Creating

Inv == TypeOK /\ Counting

-----------------------------------------------------------------------------
(* A worker that goes from one place to another changes the size of the sets *)
(* of these two places, by one, and of no other.                             *)
LEMMA AtFinite ==
  ASSUME NEW l PROVE IsFiniteSet(At(l)) /\ Cardinality(At(l)) \in Nat
  BY FS_Subset, FS_CardinalityType, ConnPoolAssumption DEF At

LEMMA AtOther ==
  ASSUME TypeOK, NEW c \in Clients, NEW from, NEW to, NEW l,
         pc[c] = from, Goto(c, to), l # from, l # to
  PROVE  Cardinality(At(l)') = Cardinality(At(l))
  <1>1. At(l)' = At(l)
    BY DEF At, Goto, TypeOK
  <1> QED  BY <1>1

LEMMA AtEntered ==
  ASSUME TypeOK, NEW c \in Clients, NEW from, NEW to,
         pc[c] = from, Goto(c, to), from # to
  PROVE  Cardinality(At(to)') = Cardinality(At(to)) + 1
  <1>1. At(to)' = At(to) \cup {c} /\ c \notin At(to)
    BY DEF At, Goto, TypeOK
  <1> QED  BY <1>1, AtFinite, FS_AddElement

LEMMA AtLeft ==
  ASSUME TypeOK, NEW c \in Clients, NEW from, NEW to,
         pc[c] = from, Goto(c, to), from # to
  PROVE  /\ Cardinality(At(from)') = Cardinality(At(from)) - 1
         /\ Cardinality(At(from)) > 0
  <1>1. At(from)' = At(from) \ {c} /\ c \in At(from)
    BY DEF At, Goto, TypeOK
  <1>2. Cardinality(At(from)) # 0
    BY <1>1, AtFinite, FS_EmptySet
  <1> QED  BY <1>1, <1>2, AtFinite, FS_RemoveElement

-----------------------------------------------------------------------------
LEMMA InvInit == Init => Inv
  <1> SUFFICES ASSUME Init PROVE Inv
    OBVIOUS
  <1>1. idle \in Nat /\ count = idle /\ idle <= MinConns
    BY ConnPoolAssumption DEF Init
  <1>2. At("using") = {} /\ At("create") = {}
    BY DEF Init, At
  <1>3. Using = 0 /\ Creating = 0
    BY <1>2, FS_EmptySet DEF Using, Creating
  <1>4. TypeOK
    BY <1>1, ConnPoolAssumption DEF Init, TypeOK
  <1>5. Counting
    BY <1>1, <1>3, ConnPoolAssumption DEF Counting
  <1> QED  BY <1>4, <1>5 DEF Inv

LEMMA InvNext == Inv /\ [Next]_vars => Inv'
  <1> SUFFICES ASSUME Inv, [Next]_vars PROVE Inv'
    OBVIOUS
  <1>0. /\ Using \in Nat /\ Creating \in Nat /\ idle \in Nat /\ count \in Nat
        /\ MinConns \in Nat /\ MaxConns \in Nat
        /\ idle + Using + Creating <= count /\ count <= MaxConns
        /\ running => count = idle + Using + Creating
    BY AtFinite, ConnPoolAssumption DEF Inv, TypeOK, Counting, Using, Creating
  <1> USE DEF Inv, Counting, Using, Creating
  <1>1. ASSUME NEW c \in Clients, Call(c) \/ Wait(c) \/ Wake(c) \/ GetNull(c)
        PROVE  Inv'
    <2>1. PICK from \in {"none", "loop", "wait"}, to \in {"none", "loop", "wait"} :
              pc[c] = from /\ Goto(c, to)
      BY <1>1 DEF Call, Wait, Wake, GetNull
    <2>2. Using' = Using /\ Creating' = Creating
      BY <2>1, AtOther
    <2>3. UNCHANGED <<running, idle, count>>
      BY <1>1 DEF Call, Wait, Wake, GetNull
    <2>4. TypeOK'
      BY <1>1 DEF Call, Wait, Wake, GetNull, Goto, TypeOK
    <2> QED  BY <1>0, <2>2, <2>3, <2>4
  <1>2. ASSUME NEW c \in Clients, GetIdle(c) PROVE Inv'
    <2>1. Using' = Using + 1 /\ Creating' = Creating
      BY <1>2, AtEntered, AtOther DEF GetIdle
    <2>2. TypeOK'
      BY <1>2, <1>0 DEF GetIdle, Goto, TypeOK
    <2> QED  BY <1>0, <1>2, <2>1, <2>2 DEF GetIdle
  <1>3. ASSUME NEW c \in Clients, DropDead(c) PROVE Inv'
    <2>1. Using' = Using /\ Creating' = Creating
      BY <1>3 DEF DropDead, At
    <2>2. TypeOK'
      BY <1>3, <1>0 DEF DropDead, TypeOK
    <2> QED  BY <1>0, <1>3, <2>1, <2>2 DEF DropDead
  <1>4. ASSUME NEW c \in Clients, Grow(c) PROVE Inv'
    <2>1. Using' = Using /\ Creating' = Creating + 1
      BY <1>4, AtEntered, AtOther DEF Grow
    <2>2. TypeOK'
      BY <1>4, <1>0 DEF Grow, Goto, TypeOK
    <2> QED  BY <1>0, <1>4, <2>1, <2>2 DEF Grow, MayGrow
  <1>5. ASSUME NEW c \in Clients, Created(c) PROVE Inv'
    <2>1. Using' = Using + 1 /\ Creating' = Creating - 1
      BY <1>5, AtEntered, AtLeft DEF Created
    <2>2. TypeOK'
      BY <1>5 DEF Created, Goto, TypeOK
    <2> QED  BY <1>0, <1>5, <2>1, <2>2 DEF Created
  <1>6. ASSUME NEW c \in Clients, CreateFails(c) PROVE Inv'
    <2>1. Using' = Using /\ Creating' = Creating - 1 /\ Creating > 0
      BY <1>6, AtOther, AtLeft DEF CreateFails
    <2>2. TypeOK'
      BY <1>6, <1>0, <2>1 DEF CreateFails, Goto, TypeOK
    <2> QED  BY <1>0, <1>6, <2>1, <2>2 DEF CreateFails
  <1>7. ASSUME NEW c \in Clients, EnConn(c) PROVE Inv'
    <2>1. Using' = Using - 1 /\ Creating' = Creating
      BY <1>7, AtOther, AtLeft DEF EnConn
    <2>2. TypeOK'
      BY <1>7, <1>0 DEF EnConn, Goto, TypeOK
    <2> QED  BY <1>0, <1>7, <2>1, <2>2 DEF EnConn
  <1>8. ASSUME Shrink \/ Stop \/ StopClear \/ UNCHANGED vars PROVE Inv'
    <2>1. Using' = Using /\ Creating' = Creating
      BY <1>8 DEF Shrink, Stop, StopClear, vars, At
    <2>2. CASE Shrink
      BY <1>0, <2>1, <2>2 DEF Shrink, TooManyIdle, TypeOK
    <2>3. CASE Stop \/ UNCHANGED vars
      <3>1. idle' = idle /\ count' = count /\ (running' => running)
        BY <2>3 DEF Stop, vars
      <3>2. TypeOK'
        BY <2>3 DEF Stop, vars, TypeOK
      <3> QED  BY <1>0, <2>1, <3>1, <3>2
    <2>4. CASE StopClear
      <3>1. idle' = 0 /\ count' = count /\ running' = FALSE
        BY <2>4 DEF StopClear, TypeOK
      <3>2. TypeOK'
        BY <2>4 DEF StopClear, TypeOK
      <3> QED  BY <1>0, <2>1, <3>1, <3>2
    <2> QED  BY <1>8, <2>2, <2>3, <2>4
  <1> QED
    BY <1>1, <1>2, <1>3, <1>4, <1>5, <1>6, <1>7, <1>8 DEF Next, GetStep

(* connectionCount_ and the number of idle connections never go below zero,  *)
(* although they are decremented in four places.                             *)
THEOREM TypeCorrect == Spec => []TypeOK
  <1>1. Inv => TypeOK
    BY DEF Inv
  <1> QED  BY <1>1, InvInit, InvNext, PTL DEF Spec

(* Until stop(), connectionCount_ is the number of connections queued, in    *)
(* use and being created, although it is changed before a connection is      *)
(* created and the lock is not held while it is.                             *)
THEOREM CountExactHolds == Spec => []CountExact
  <1>1. Inv => CountExact
    BY DEF Inv, Counting, CountExact, Using, Creating
  <1> QED  BY <1>1, InvInit, InvNext, PTL DEF Spec

(* The pool never holds more than maxConns_ connections to MySQL.            *)
THEOREM WithinLimitHolds == Spec => []WithinLimit
  <1>1. ASSUME Inv PROVE WithinLimit
    <2>1. Using \in Nat /\ Creating \in Nat
      BY AtFinite DEF Using, Creating
    <2> QED  BY <1>1, <2>1, ConnPoolAssumption
             DEF Inv, TypeOK, Counting, WithinLimit, Using, Creating
  <1> QED  BY <1>1, InvInit, InvNext, PTL DEF Spec

-----------------------------------------------------------------------------
LEMMA NoWaitInit == Init => NoWaitWhenEnough
  BY DEF Init, NoWaitWhenEnough, At

(* Were a worker to find no connection idle and no room for another, all     *)
(* connections would be with the other workers: fewer than MaxConns.         *)
LEMMA NoWaitNext == Inv /\ NoWaitWhenEnough /\ [Next]_vars => NoWaitWhenEnough'
  <1> SUFFICES ASSUME Inv, NoWaitWhenEnough, [Next]_vars,
                      Cardinality(Clients) <= MaxConns
               PROVE  At("wait")' = {}
    BY DEF NoWaitWhenEnough
  <1>0. At("wait") = {} /\ TypeOK
    BY DEF NoWaitWhenEnough, Inv
  <1>1. ASSUME NEW c \in Clients PROVE ~Wait(c)
    <2> SUFFICES ASSUME Wait(c) PROVE FALSE
      OBVIOUS
    <2> DEFINE out == At("using") \cup At("create")
    <2>1. Using \in Nat /\ Creating \in Nat /\ Using + Creating >= MaxConns
      BY AtFinite, ConnPoolAssumption DEF Using, Creating, Wait, MayGrow, Inv, Counting, TypeOK
    <2>2. Cardinality(out) = Using + Creating
      <3>1. At("using") \cap At("create") = {}
        BY DEF At
      <3>2. Cardinality(At("using") \cap At("create")) = 0
        BY <3>1, FS_EmptySet
      <3>3. IsFiniteSet(At("using")) /\ IsFiniteSet(At("create"))
        BY AtFinite
      <3>4. Cardinality(out) = Cardinality(At("using")) + Cardinality(At("create"))
                               - Cardinality(At("using") \cap At("create"))
        BY ONLY <3>3, FS_Union
      <3> QED  BY <3>2, <3>4, <2>1 DEF Using, Creating
    <2>3. out \subseteq Clients /\ c \in Clients /\ c \notin out
      BY <1>1 DEF Wait, At
    <2>4. Cardinality(out) <= Cardinality(Clients \ {c})
      BY <2>3, FS_Subset, FS_RemoveElement, ConnPoolAssumption
    <2>5. Cardinality(Clients \ {c}) = Cardinality(Clients) - 1 /\ Cardinality(Clients) \in Nat
      BY <1>1, FS_RemoveElement, FS_CardinalityType, ConnPoolAssumption
    <2> QED  BY <2>1, <2>2, <2>4, <2>5, ConnPoolAssumption
  <1>2. ASSUME NEW c \in Clients, pc'[c] = "wait" PROVE pc[c] = "wait"
    BY <1>0, <1>1, <1>2 DEF TypeOK, Next, GetStep, Call, GetIdle, DropDead, Grow, Created,
       CreateFails, Wake, GetNull, EnConn, Shrink, Stop, StopClear, Goto, vars
  <1> QED  BY <1>0, <1>2 DEF At

(* With as many connections as workers, which is what pool(16) gives, no     *)
(* worker ever waits for one.                                                *)
THEOREM NoWaitHolds == Spec => []NoWaitWhenEnough
  BY InvInit, InvNext, NoWaitInit, NoWaitNext, PTL DEF Spec

-----------------------------------------------------------------------------
(* The threads.  The instance has its own name for the size of a set. *)
LEMMA Sizes ==
  ASSUME NEW S
  PROVE  T!Cardinality(S) = Cardinality(S) /\ T!IsFiniteSet(S) = IsFiniteSet(S)
  <1>1. T!Cardinality(S) = Cardinality(S)
    BY DEF T!Cardinality, Cardinality
  <1>2. T!IsFiniteSet(S) = IsFiniteSet(S)
    BY DEF T!IsFiniteSet, IsFiniteSet
  <1> QED  BY <1>1, <1>2

LEMMA ThreadFacts ==
  /\ MinThreads \in Nat \ {0} /\ MaxThreads \in Nat /\ MinThreads <= MaxThreads
  /\ ScaleFactor \in Nat \ {0} /\ MaxTasks \in Nat /\ IsFiniteSet(Clients)
  BY WorkerPoolAssumption, ConnPoolAssumption DEF T!ThreadPoolAssumption

(* Only the manager adds threads: between its reading of threadCount_ and    *)
(* the last thread it adds, the number of threads can only have decreased.   *)
ThreadLimits ==
    /\ threadCount <= MaxThreads
    /\ running => threadCount >= MinThreads
    /\ manager.at = "idle" => threadCount <= manager.cur
    /\ manager.at = "add" => threadCount + manager.toAdd <= MaxThreads

ThreadCounts ==
    threadCount = Cardinality(T!Live) /\ idleCount = Cardinality(T!Waiting)

ThreadInv == T!TypeOK /\ ThreadCounts /\ ThreadLimits

-----------------------------------------------------------------------------
(* What a thread's step does to the sets that the counters count. *)
LEMMA Finite ==
  /\ IsFiniteSet(T!Live) /\ IsFiniteSet(T!Waiting)
  /\ Cardinality(T!Live) \in Nat /\ Cardinality(T!Waiting) \in Nat
  BY FS_Subset, FS_CardinalityType, ThreadFacts DEF T!Live, T!Waiting

LEMMA Starts ==
  ASSUME T!TypeOK, NEW t \in Clients, thread[t] = "off", T!Goto(t, "while")
  PROVE  Cardinality(T!Live') = Cardinality(T!Live) + 1 /\ T!Waiting' = T!Waiting
  <1>1. T!Live' = T!Live \cup {t} /\ t \notin T!Live /\ T!Waiting' = T!Waiting
    BY DEF T!Live, T!Waiting, T!Goto, T!TypeOK
  <1> QED  BY <1>1, Finite, FS_AddElement

LEMMA Stays ==
  ASSUME T!TypeOK, NEW t \in Clients, NEW l, l # "off", thread[t] # "off", T!Goto(t, l)
  PROVE  T!Live' = T!Live
  BY DEF T!Live, T!Goto, T!TypeOK

LEMMA Ends ==
  ASSUME T!TypeOK, NEW t \in Clients, thread[t] # "off", T!Goto(t, "off")
  PROVE  Cardinality(T!Live') = Cardinality(T!Live) - 1 /\ Cardinality(T!Live) > 0
  <1>1. T!Live' = T!Live \ {t} /\ t \in T!Live
    BY DEF T!Live, T!Goto, T!TypeOK
  <1>2. Cardinality(T!Live) # 0
    BY <1>1, Finite, FS_EmptySet
  <1>3. Cardinality(T!Live \ {t}) = Cardinality(T!Live) - 1
    BY <1>1, Finite, FS_RemoveElement
  <1> QED  BY <1>1, <1>2, <1>3, Finite

LEMMA Awake ==
  ASSUME T!TypeOK, NEW t \in Clients, NEW l, l # "wait", thread[t] # "wait", T!Goto(t, l)
  PROVE  T!Waiting' = T!Waiting
  BY DEF T!Waiting, T!Goto, T!TypeOK

LEMMA Waits ==
  ASSUME T!TypeOK, NEW t \in Clients, thread[t] # "wait", T!Goto(t, "wait")
  PROVE  Cardinality(T!Waiting') = Cardinality(T!Waiting) + 1
  <1>1. T!Waiting' = T!Waiting \cup {t} /\ t \notin T!Waiting
    BY DEF T!Waiting, T!Goto, T!TypeOK
  <1> QED  BY <1>1, Finite, FS_AddElement

LEMMA WakesUp ==
  ASSUME T!TypeOK, NEW t \in Clients, NEW l,
         l # "wait", thread[t] = "wait", T!Goto(t, l)
  PROVE  Cardinality(T!Waiting') = Cardinality(T!Waiting) - 1 /\ Cardinality(T!Waiting) > 0
  <1>1. T!Waiting' = T!Waiting \ {t} /\ t \in T!Waiting
    BY DEF T!Waiting, T!Goto, T!TypeOK
  <1>2. Cardinality(T!Waiting) # 0
    BY <1>1, Finite, FS_EmptySet
  <1>3. Cardinality(T!Waiting \ {t}) = Cardinality(T!Waiting) - 1
    BY <1>1, Finite, FS_RemoveElement
  <1> QED  BY <1>1, <1>2, <1>3, Finite

(* What the manager decides to add fits, as of the number of threads it read. *)
LEMMA ToAddFits ==
  ASSUME NEW b \in Nat, NEW cur \in Nat, NEW free \in Nat
  PROVE  /\ T!ToAdd(b, cur, free) \in 0..MaxThreads
         /\ cur <= MaxThreads => cur + T!ToAdd(b, cur, free) <= MaxThreads
         /\ cur > MaxThreads => T!ToAdd(b, cur, free) = 0
  <1>1. CASE b - free > 0 /\ cur < MaxThreads
    <2> DEFINE needed == (b - free) \div ScaleFactor + 1
    <2>1. (b - free) \div ScaleFactor \in Nat
      BY <1>1, ThreadFacts
    <2>2. needed \in Nat /\ needed > 0
      BY <2>1
    <2>3. T!ToAdd(b, cur, free) = T!Lesser(needed, MaxThreads - cur)
      BY <1>1 DEF T!ToAdd
    <2> HIDE DEF needed
    <2> QED  BY <1>1, <2>2, <2>3, ThreadFacts DEF T!Lesser
  <1>2. CASE ~(b - free > 0 /\ cur < MaxThreads)
    BY <1>2, ThreadFacts DEF T!ToAdd
  <1> QED  BY <1>1, <1>2

-----------------------------------------------------------------------------
LEMMA ThreadInvInit ==
  T!Init => ThreadInv
  <1> SUFFICES ASSUME T!Init PROVE ThreadInv
    OBVIOUS
  <1>1. T!Waiting = {} /\ Cardinality(T!Waiting) = 0
    BY FS_EmptySet DEF T!Init, T!Waiting
  <1>2. thread \in [Clients -> {"off", "while", "lock", "wait", "run"}]
    BY DEF T!Init
  <1> QED
    BY <1>1, <1>2, ThreadFacts, Sizes
    DEF T!Init, ThreadInv, T!TypeOK, ThreadCounts, ThreadLimits, T!Asleep

LEMMA ThreadInvNext ==
  ThreadInv /\ [T!Next]_(T!vars) => ThreadInv'
  <1> SUFFICES ASSUME ThreadInv, [T!Next]_(T!vars) PROVE ThreadInv'
    OBVIOUS
  <1>0. /\ threadCount = Cardinality(T!Live) /\ idleCount = Cardinality(T!Waiting)
        /\ threadCount \in Nat /\ idleCount \in Nat /\ backlog \in Nat
        /\ MinThreads \in Nat /\ MaxThreads \in Nat /\ MaxTasks \in Nat
        /\ T!TypeOK
    BY Finite, ThreadFacts DEF ThreadInv, T!TypeOK, ThreadCounts
  <1> USE DEF ThreadInv, ThreadCounts, ThreadLimits
  (* Steps that move no thread. *)
  <1>1. ASSUME UNCHANGED thread PROVE T!Live' = T!Live /\ T!Waiting' = T!Waiting
    BY <1>1 DEF T!Live, T!Waiting
  <1>2. CASE T!AddTask
    BY <1>0, <1>1, <1>2 DEF T!AddTask, T!TypeOK
  <1>3. CASE T!ReadBacklog
    BY <1>0, <1>1, <1>3 DEF T!ReadBacklog, T!TypeOK
  <1>4. CASE T!ReadCount
    <2>1. manager'.at = "idle" /\ manager'.cur = threadCount
      BY <1>4 DEF T!ReadCount, T!TypeOK
    <2>2. T!TypeOK'
      BY <1>0, <1>4 DEF T!ReadCount, T!TypeOK
    <2> QED  BY <1>0, <1>1, <1>4, <2>1, <2>2 DEF T!ReadCount
  <1>5. CASE T!ReadIdle
    <2>1. /\ manager.backlog \in Nat /\ manager.cur \in Nat
          /\ threadCount <= manager.cur /\ threadCount <= MaxThreads
      BY <1>5 DEF T!ReadIdle, T!TypeOK
    <2>2. /\ manager'.at = "add"
          /\ manager'.toAdd = T!ToAdd(manager.backlog, manager.cur, idleCount)
          /\ manager'.toAdd \in 0..MaxThreads
      BY <1>0, <1>5, <2>1, ToAddFits DEF T!ReadIdle, T!TypeOK
    <2>3. threadCount + manager'.toAdd <= MaxThreads
      <3> DEFINE n == T!ToAdd(manager.backlog, manager.cur, idleCount)
      <3>1. /\ n \in 0..MaxThreads
            /\ manager.cur <= MaxThreads => manager.cur + n <= MaxThreads
            /\ manager.cur > MaxThreads => n = 0
        BY <1>0, <2>1, ToAddFits
      <3> HIDE DEF n
      <3>2. threadCount + n <= MaxThreads
        BY ONLY <1>0, <2>1, <3>1
      <3> QED  BY <2>2, <3>2 DEF n
    <2>4. T!TypeOK'
      BY <1>5, <2>2 DEF T!ReadIdle, T!TypeOK
    <2> QED  BY <1>0, <1>1, <1>5, <2>2, <2>3, <2>4 DEF T!ReadIdle
  <1>6. CASE T!ManagerRound
    BY <1>0, <1>1, <1>6 DEF T!ManagerRound, T!Asleep, T!TypeOK
  <1>7. CASE T!Stop \/ T!JoinManager \/ T!JoinWorkers
    <2>1. /\ (running' => running)
          /\ UNCHANGED <<threadCount, idleCount, thread, manager>>
      BY <1>7 DEF T!Stop, T!JoinManager, T!JoinWorkers
    <2>2. T!TypeOK'
      BY <1>7 DEF T!Stop, T!JoinManager, T!JoinWorkers, T!TypeOK
    <2> QED  BY <1>0, <1>1, <2>1, <2>2
  <1>8. CASE UNCHANGED T!vars
    BY <1>0, <1>1, <1>8 DEF T!vars, T!TypeOK
  (* Steps of a thread. *)
  <1>9. ASSUME NEW t \in Clients, T!Loop(t) \/ T!Done(t) PROVE ThreadInv'
    <2>1. T!Live' = T!Live /\ T!Waiting' = T!Waiting
      BY <1>0, <1>9, Stays, Awake DEF T!Loop, T!Done
    <2> QED  BY <1>0, <1>9, <2>1 DEF T!Loop, T!Done, T!Goto, T!TypeOK
  <1>10. ASSUME NEW t \in Clients, T!LoopEnds(t) PROVE ThreadInv'
    <2>1. Cardinality(T!Live') = threadCount - 1 /\ threadCount > 0 /\ T!Waiting' = T!Waiting
      BY <1>0, <1>10, Ends, Awake DEF T!LoopEnds
    <2>2. T!TypeOK'
      BY <1>0, <1>10, <2>1 DEF T!LoopEnds, T!Goto, T!TypeOK
    <2> QED  BY <1>0, <1>10, <2>1, <2>2 DEF T!LoopEnds, T!TypeOK
  <1>11. ASSUME NEW t \in Clients, T!Wait(t) PROVE ThreadInv'
    <2>1. T!Live' = T!Live /\ Cardinality(T!Waiting') = idleCount + 1
      BY <1>0, <1>11, Stays, Waits DEF T!Wait
    <2>2. T!TypeOK'
      BY <1>0, <1>11 DEF T!Wait, T!Goto, T!TypeOK
    <2> QED  BY <1>0, <1>11, <2>1, <2>2 DEF T!Wait
  <1>12. ASSUME NEW t \in Clients, T!Take(t) PROVE ThreadInv'
    <2>1. T!Live' = T!Live /\ Cardinality(T!Waiting') = idleCount - 1 /\ idleCount > 0
      BY <1>0, <1>12, Stays, WakesUp DEF T!Take
    <2>2. T!TypeOK'
      BY <1>0, <1>12, <2>1 DEF T!Take, T!Goto, T!TypeOK
    <2> QED  BY <1>0, <1>12, <2>1, <2>2 DEF T!Take
  <1>13. ASSUME NEW t \in Clients, T!Leave(t) PROVE ThreadInv'
    <2>1. /\ Cardinality(T!Live') = threadCount - 1 /\ threadCount > 0
          /\ Cardinality(T!Waiting') = idleCount - 1 /\ idleCount > 0
      BY <1>0, <1>13, Ends, WakesUp DEF T!Leave
    <2>2. T!TypeOK'
      BY <1>0, <1>13, <2>1 DEF T!Leave, T!Goto, T!TypeOK
    <2> QED  BY <1>0, <1>13, <2>1, <2>2 DEF T!Leave, T!TypeOK
  <1>14. ASSUME NEW t \in Clients, T!TimeOut(t) PROVE ThreadInv'
    <2>1. thread[t] # "off" /\ Cardinality(T!Waiting') = idleCount - 1 /\ idleCount > 0
      BY <1>0, <1>14, WakesUp DEF T!TimeOut
    <2>2. CASE T!TooMany
      <3>1. Cardinality(T!Live') = threadCount - 1 /\ threadCount > MinThreads
        BY <1>0, <1>14, <2>1, <2>2, Ends DEF T!TimeOut, T!TooMany
      <3>2. T!TypeOK'
        BY <1>0, <1>14, <2>1, <2>2, <3>1 DEF T!TimeOut, T!Goto, T!TypeOK
      <3> QED  BY <1>0, <1>14, <2>1, <2>2, <3>1, <3>2 DEF T!TimeOut, T!TypeOK
    <2>3. CASE ~T!TooMany
      <3>1. T!Live' = T!Live
        BY <1>0, <1>14, <2>1, <2>3, Stays DEF T!TimeOut
      <3>2. T!TypeOK'
        BY <1>0, <1>14, <2>1, <2>3 DEF T!TimeOut, T!Goto, T!TypeOK
      <3> QED  BY <1>0, <1>14, <2>1, <2>3, <3>1, <3>2 DEF T!TimeOut
    <2> QED  BY <2>2, <2>3
  <1>15. ASSUME NEW t \in Clients, T!AddThread(t) PROVE ThreadInv'
    <2>1. Cardinality(T!Live') = threadCount + 1 /\ T!Waiting' = T!Waiting
      BY <1>0, <1>15, Starts DEF T!AddThread
    <2>2. /\ manager.toAdd \in Nat /\ manager.toAdd > 0 /\ manager.at = "add"
          /\ threadCount + manager.toAdd <= MaxThreads
          /\ manager' = [manager EXCEPT !.toAdd = @ - 1]
      BY <1>15 DEF T!AddThread, T!TypeOK
    <2>3. manager'.at = "add" /\ manager'.toAdd = manager.toAdd - 1
      BY <2>2 DEF T!TypeOK
    <2>4. T!TypeOK'
      BY <1>0, <1>15, <2>2 DEF T!AddThread, T!Goto, T!TypeOK
    <2> QED  BY <1>0, <1>15, <2>1, <2>2, <2>3, <2>4 DEF T!AddThread
  <1> QED
    BY <1>2, <1>3, <1>4, <1>5, <1>6, <1>7, <1>8, <1>9, <1>10, <1>11, <1>12, <1>13, <1>14, <1>15
    DEF T!Next, T!Worker, T!Manager

(* threadCount_ and idleThreadCount_, which are atomic counters changed in   *)
(* five places, always equal the numbers of threads that exist and that wait. *)
THEOREM CountersAreExact == T!Spec => []T!CountersExact
  <1>1. ThreadInv => T!CountersExact
    BY Sizes DEF ThreadInv, ThreadCounts, T!CountersExact
  <1> QED  BY <1>1, ThreadInvInit, ThreadInvNext, PTL DEF T!Spec

(* Neither stale numbers nor threads that leave at the same time take the    *)
(* pool beyond maxThreads_ or, before stop, below minThreads_.               *)
THEOREM ElasticHolds == T!Spec => []T!Elastic
  <1>1. ThreadInv => T!Elastic
    BY Sizes DEF ThreadInv, ThreadCounts, ThreadLimits, T!Elastic
  <1> QED  BY <1>1, ThreadInvInit, ThreadInvNext, PTL DEF T!Spec

-----------------------------------------------------------------------------
(* The pool as a whole. *)
LEMMA ConnStepsImplemented == [PoolNext]_poolVars => [Next]_vars
  <1> SUFFICES ASSUME [PoolNext]_poolVars PROVE [Next]_vars
    OBVIOUS
  <1> USE DEF vars, connVars, threadVars
  <1>1. CASE AddTask
    BY <1>1 DEF AddTask, T!AddTask
  <1>2. ASSUME NEW t \in Clients, LoopStep(t) PROVE [Next]_vars
    BY <1>2 DEF LoopStep, T!Loop, T!LoopEnds, T!Wait, T!Leave, T!TimeOut
  <1>3. ASSUME NEW t \in Clients, TakeTask(t) \/ ConnStep(t) PROVE [Next]_vars
    BY <1>3 DEF TakeTask, ConnStep, Next
  <1>4. ASSUME NEW t \in Clients, Done(t) PROVE [Next]_vars
    BY <1>4 DEF Done, T!Done
  <1>5. CASE ManageThreads
    BY <1>5 DEF ManageThreads, T!ReadBacklog, T!ReadCount, T!ReadIdle, T!AddThread
  <1>6. CASE ManageConns
    BY <1>6 DEF ManageConns, T!ManagerRound, Next
  <1>7. CASE StopPool
    BY <1>7 DEF StopPool, Next
  <1>8. CASE Owner
    BY <1>8 DEF Owner, JoinManager, JoinWorkers, T!JoinManager, T!JoinWorkers, Next
  <1>9. CASE UNCHANGED poolVars
    BY <1>9 DEF poolVars
  <1> QED
    BY <1>1, <1>2, <1>3, <1>4, <1>5, <1>6, <1>7, <1>8, <1>9 DEF PoolNext, Worker, Manager

(* A step of get_conn or en_conn does not move running_. *)
LEMMA ConnStepRunning ==
  ASSUME NEW t \in Clients, ConnStep(t) PROVE UNCHANGED T!vars
  BY DEF ConnStep, GetStep, GetIdle, DropDead, Grow, Created, CreateFails, Wait, Wake,
         GetNull, EnConn, threadVars, T!vars

LEMMA ThreadStepsImplemented == [PoolNext]_poolVars => [T!Next]_(T!vars)
  <1> SUFFICES ASSUME [PoolNext]_poolVars PROVE [T!Next]_(T!vars)
    OBVIOUS
  <1> USE DEF T!Next
  <1>1. CASE AddTask
    BY <1>1 DEF AddTask
  <1>2. ASSUME NEW t \in Clients, LoopStep(t) \/ TakeTask(t) \/ Done(t)
        PROVE  [T!Next]_(T!vars)
    BY <1>2 DEF LoopStep, TakeTask, Done, T!Worker
  <1>3. ASSUME NEW t \in Clients, ConnStep(t) PROVE [T!Next]_(T!vars)
    BY <1>3, ConnStepRunning
  <1>4. CASE Manager
    BY <1>4 DEF Manager, ManageThreads, ManageConns, T!Manager
  <1>5. CASE StopPool \/ Owner
    BY <1>5 DEF StopPool, Owner, JoinManager, JoinWorkers
  <1>6. CASE UNCHANGED poolVars
    BY <1>6 DEF poolVars, threadVars, T!vars
  <1> QED
    BY <1>1, <1>2, <1>3, <1>4, <1>5, <1>6 DEF PoolNext, Worker

(* The connections of the pool behave as specified in ConnPool. *)
THEOREM ConnsImplemented == PoolSpec => Spec
  BY ConnStepsImplemented, PTL DEF PoolSpec, PoolInit, Spec

(* The threads of the pool behave as specified in ThreadPool, whether or not *)
(* their tasks wait for connections.                                         *)
THEOREM ThreadsImplemented == PoolSpec => T!Spec
  BY ThreadStepsImplemented, PTL DEF PoolSpec, PoolInit, T!Spec

(* So connectionCount_ is exact until stop, and the limit is kept, with the  *)
(* workers and the manager coming and going.                                 *)
THEOREM PoolCountExact == PoolSpec => []CountExact
  BY ConnsImplemented, CountExactHolds, PTL

THEOREM PoolWithinLimit == PoolSpec => []WithinLimit
  BY ConnsImplemented, WithinLimitHolds, PTL

(* Whether or not their tasks wait for connections: threadCount_ and         *)
(* idleThreadCount_ are what they count, ...                                 *)
THEOREM PoolCountersExact == PoolSpec => []CountersExact
  BY ThreadsImplemented, CountersAreExact, PTL DEF CountersExact

(* ... and the number of threads stays within its limits.                    *)
THEOREM PoolElastic == PoolSpec => []Elastic
  BY ThreadsImplemented, ElasticHolds, PTL DEF Elastic

-----------------------------------------------------------------------------
(* How the pool ends: the order of the joins, and that whoever is anywhere   *)
(* in get_conn, or has a connection, is a thread with a task in hand.        *)
Joined ==
    /\ owner # "use" => ~running
    /\ owner \in {"joinWorkers", "destroyed"} => manager.at = "exit"
    /\ owner = "destroyed" => T!Live = {} /\ idle = 0
InTask == \A t \in Clients : pc[t] # "none" => thread[t] = "run"

Parts  == Inv /\ ThreadInv
Ending == Joined /\ InTask

LEMMA PartsHold == PoolSpec => []Parts
  <1>1. Spec => []Inv
    BY InvInit, InvNext, PTL DEF Spec
  <1>2. T!Spec => []ThreadInv
    BY ThreadInvInit, ThreadInvNext, PTL DEF T!Spec
  <1> QED  BY <1>1, <1>2, ConnsImplemented, ThreadsImplemented, PTL DEF Parts

LEMMA InTaskNext == Parts /\ InTask /\ [PoolNext]_poolVars => InTask'
  <1> SUFFICES ASSUME Parts, InTask, [PoolNext]_poolVars PROVE InTask'
    OBVIOUS
  <1> USE DEF InTask
  <1>0. TypeOK /\ T!TypeOK
    BY DEF Parts, Inv, ThreadInv
  <1>1. CASE AddTask \/ StopPool \/ JoinManager \/ UNCHANGED poolVars
    BY <1>1 DEF AddTask, StopPool, JoinManager, T!AddTask, T!Stop, Stop, T!JoinManager,
                connVars, poolVars, threadVars
  <1>2. ASSUME NEW t \in Clients, LoopStep(t) PROVE InTask'
    BY <1>0, <1>2 DEF LoopStep, T!Loop, T!LoopEnds, T!Wait, T!Leave, T!TimeOut, T!Goto,
                      connVars, T!TypeOK
  <1>3. ASSUME NEW t \in Clients, TakeTask(t) PROVE InTask'
    BY <1>0, <1>3 DEF TakeTask, T!Take, Call, T!Goto, Goto, T!TypeOK, TypeOK
  <1>4. ASSUME NEW t \in Clients, ConnStep(t) PROVE InTask'
    <2>1. thread' = thread /\ pc[t] # "none" /\ \A u \in Clients : u # t => pc'[u] = pc[u]
      BY <1>0, <1>4 DEF ConnStep, GetStep, GetIdle, DropDead, Grow, Created, CreateFails,
                        Wait, Wake, GetNull, EnConn, Goto, TypeOK, threadVars
    <2> QED  BY <2>1
  <1>5. ASSUME NEW t \in Clients, Done(t) PROVE InTask'
    BY <1>0, <1>5 DEF Done, T!Done, T!Goto, connVars, T!TypeOK
  <1>6. CASE Manager
    BY <1>0, <1>6 DEF Manager, ManageThreads, ManageConns, T!ReadBacklog, T!ReadCount,
       T!ReadIdle, T!AddThread, T!ManagerRound, T!Goto, Shrink, connVars, T!TypeOK
  <1>7. CASE JoinWorkers
    BY <1>7 DEF JoinWorkers, T!JoinWorkers, StopClear, connVars
  <1> QED  BY <1>1, <1>2, <1>3, <1>4, <1>5, <1>6, <1>7 DEF PoolNext, Worker, Owner

(* Once the pool is destroyed nothing of it moves; before, the last join     *)
(* finds no thread, so nobody in a task, so no connection with anybody.      *)
LEMMA JoinedNext == Parts /\ Ending /\ [PoolNext]_poolVars => Joined'
  <1> SUFFICES ASSUME Parts, Ending, [PoolNext]_poolVars PROVE Joined'
    OBVIOUS
  <1> USE DEF Joined
  <1>0. TypeOK /\ T!TypeOK /\ Joined /\ InTask
    BY DEF Parts, Inv, ThreadInv, Ending
  <1>1. CASE AddTask \/ UNCHANGED poolVars
    BY <1>0, <1>1 DEF AddTask, T!AddTask, connVars, poolVars, threadVars, T!Live
  <1>2. CASE StopPool
    BY <1>0, <1>2 DEF StopPool, T!Stop
  <1>3. CASE JoinManager
    BY <1>0, <1>3 DEF JoinManager, T!JoinManager, connVars, T!Live
  <1>4. ASSUME NEW t \in Clients, LoopStep(t) \/ TakeTask(t) \/ Done(t) PROVE Joined'
    <2>1. thread[t] # "off" /\ UNCHANGED <<running, owner, manager, idle>>
      BY <1>4 DEF LoopStep, T!Loop, T!LoopEnds, T!Wait, T!Leave, T!TimeOut, TakeTask,
                  T!Take, Call, Done, T!Done, connVars
    <2> QED  BY <1>0, <2>1 DEF T!Live
  <1>5. ASSUME NEW t \in Clients, ConnStep(t) PROVE Joined'
    <2>1. pc[t] # "none" /\ UNCHANGED <<running, thread, owner, manager>>
      BY <1>5 DEF ConnStep, GetStep, GetIdle, DropDead, Grow, Created, CreateFails,
                  Wait, Wake, GetNull, EnConn, threadVars
    <2>2. t \in T!Live
      BY <1>0, <2>1 DEF InTask, T!Live
    <2> QED  BY <1>0, <2>1, <2>2
  <1>6. CASE Manager
    <2>1. /\ manager.at # "exit" /\ UNCHANGED <<running, owner>>
          /\ manager'.at = "exit" => ~running
      BY <1>0, <1>6 DEF Manager, ManageThreads, ManageConns, T!ReadBacklog, T!ReadCount,
         T!ReadIdle, T!AddThread, T!ManagerRound, T!Asleep, T!TypeOK
    <2> QED  BY <1>0, <2>1
  <1>7. CASE JoinWorkers
    <2>1. /\ owner = "joinWorkers" /\ T!Live = {} /\ owner' = "destroyed"
          /\ UNCHANGED <<running, thread, manager>>
      BY <1>7 DEF JoinWorkers, T!JoinWorkers
    <2>2. idle' = 0
      BY <1>0, <1>7 DEF JoinWorkers, StopClear, connVars, TypeOK
    <2> QED  BY <1>0, <2>1, <2>2 DEF T!Live
  <1> QED  BY <1>1, <1>2, <1>3, <1>4, <1>5, <1>6, <1>7 DEF PoolNext, Worker, Owner

(* When stop() returns and the members are freed, no worker and no manager   *)
(* exists, nobody holds or waits for a connection, and none is open,         *)
(* wherever in get_conn or in a task a thread was when stop() was called.    *)
THEOREM NoOrphansHolds == PoolSpec => []NoOrphans
  <1>1. PoolInit => Ending
    BY DEF PoolInit, Init, T!Init, T!Asleep, Ending, Joined, InTask
  <1>2. Parts /\ Ending /\ [PoolNext]_poolVars => Ending'
    BY InTaskNext, JoinedNext DEF Ending
  <1>3. Parts /\ Ending => NoOrphans
    BY DEF Ending, Joined, InTask, NoOrphans, T!NoOrphans, T!Live, At
  <1> QED  BY <1>1, <1>2, <1>3, PartsHold, PTL DEF PoolSpec
===============================================================================
