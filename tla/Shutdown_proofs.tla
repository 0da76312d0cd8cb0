---------------------------- MODULE Shutdown_proofs ----------------------------
(***************************************************************************)
(* Proofs about the background services and the end of main, for any       *)
(* number of clients, statements, commands and outages.  First, DbWriter   *)
(* by itself.  Then, the whole behaves as DbWriter says towards the        *)
(* database and as RedisLink says towards Redis; last, invariants of       *)
(* RedisLink, which so are invariants of the whole, whatever the main      *)
(* thread does in between.                                                 *)
(***************************************************************************)
EXTENDS Shutdown, SequenceTheorems, TLAPS

-----------------------------------------------------------------------------
(* The asynchronous SQL.  InOrder speaks of a concatenation of three         *)
(* sequences; Places says the same of each of them, element by element.      *)

(* The local copy is a statement from Take to Execute. *)
Typing == TypeOK /\ (thread = "exec" => sql \in Stmts)

LEMMA TypingInit == Init => Typing
  BY EmptySeq DEF Init, Typing, TypeOK

LEMMA TypingNext == Typing /\ [Next]_vars => Typing'
  <1> SUFFICES ASSUME Typing, [Next]_vars PROVE Typing'
    OBVIOUS
  <1> USE DEF Typing, TypeOK
  <1>1. CASE AddTask
    <2>1. added + 1 \in Stmts
      BY <1>1, DbWriterAssumption DEF AddTask, Stmts
    <2> QED  BY <1>1, <2>1 DEF AddTask
  <1>2. CASE Connect \/ While \/ Nothing \/ Block \/ Leave
    BY <1>2 DEF Connect, While, Nothing, Block, Leave
  <1>3. CASE Take
    BY <1>3, HeadTailProperties DEF Take
  <1>4. CASE Execute
    BY <1>4 DEF Execute
  <1>5. CASE Stop \/ StopNotify \/ Join
    BY <1>5 DEF Stop, StopNotify, Join
  <1>6. CASE UNCHANGED vars
    BY <1>6 DEF vars
  <1> QED  BY <1>1, <1>2, <1>3, <1>4, <1>5, <1>6 DEF Next, HandleDb

(* Every queue and history in the state consists of statements queued.       *)
THEOREM TypeCorrect == Spec => []TypeOK
  <1>1. Typing => TypeOK
    BY DEF Typing
  <1> QED  BY <1>1, TypingInit, TypingNext, PTL DEF Spec

-----------------------------------------------------------------------------
(* How many statements have been taken from the queue. *)
Taken == Len(executed) + (IF thread = "exec" THEN 1 ELSE 0)

Places == /\ \A i \in 1..Len(executed) : executed[i] = i
          /\ thread = "exec" => sql = Taken
          /\ \A i \in 1..Len(queue) : queue[i] = Taken + i
          /\ added = Taken + Len(queue)

LEMMA PlacesInit == Init => Places
  BY DEF Init, Places, Taken

LEMMA PlacesNext == Typing /\ Places /\ [Next]_vars => Places'
  <1> SUFFICES ASSUME Typing, Places, [Next]_vars PROVE Places'
    OBVIOUS
  <1> USE DEF Typing, TypeOK, Places, Taken
  <1>0. Len(executed) \in Nat /\ Len(queue) \in Nat /\ added \in Nat
    BY LenProperties, DbWriterAssumption DEF Stmts
  <1>1. CASE AddTask
    <2>1. /\ Len(queue') = Len(queue) + 1 /\ queue'[Len(queue) + 1] = added + 1
          /\ \A i \in 1..Len(queue) : queue'[i] = queue[i]
      BY <1>1 DEF AddTask
    <2>0. Taken \in Nat /\ added = Taken + Len(queue)
      BY <1>0
    <2>2. thread' = "exec" <=> thread = "exec"
      BY <1>1 DEF AddTask
    <2>3. executed' = executed /\ sql' = sql /\ Taken' = Taken
      BY <1>1, <2>2 DEF AddTask
    <2> HIDE DEF Typing, TypeOK, Places, Taken
    <2>4. \A i \in 1..Len(queue') : queue'[i] = Taken + i
      <3> SUFFICES ASSUME NEW i \in 1..Len(queue') PROVE queue'[i] = Taken + i
        OBVIOUS
      <3>1. CASE i = Len(queue) + 1
        BY ONLY <1>0, <2>0, <2>1, <3>1
      <3>2. CASE i # Len(queue) + 1
        BY <1>0, <2>1, <3>2 DEF Places
      <3> QED  BY <3>1, <3>2
    <2>5. added' = Taken + Len(queue')
      <3>1. added' = added + 1
        BY <1>1 DEF AddTask
      <3> QED  BY ONLY <1>0, <2>0, <2>1, <3>1
    <2> QED  BY <2>2, <2>3, <2>4, <2>5 DEF Places
  <1>2. CASE Connect \/ While \/ Nothing \/ Block \/ Leave
    BY <1>0, <1>2 DEF Connect, While, Nothing, Block, Leave
  <1>3. CASE Take
    <2>1. /\ Len(queue) > 0 /\ sql' = queue[1]
          /\ Len(queue') = Len(queue) - 1
          /\ \A i \in 1..Len(queue') : queue'[i] = queue[i + 1]
      BY <1>3 DEF Take
    <2> QED  BY <1>0, <1>3, <2>1 DEF Take
  <1>4. CASE Execute
    <2>1. /\ Len(executed') = Len(executed) + 1 /\ executed'[Len(executed) + 1] = sql
          /\ \A i \in 1..Len(executed) : executed'[i] = executed[i]
      BY <1>4 DEF Execute
    <2> QED  BY <1>0, <1>4, <2>1 DEF Execute
  <1>5. CASE Stop \/ StopNotify \/ Join
    BY <1>0, <1>5 DEF Stop, StopNotify, Join
  <1>6. CASE UNCHANGED vars
    BY <1>6 DEF vars
  <1> QED  BY <1>1, <1>2, <1>3, <1>4, <1>5, <1>6 DEF Next, HandleDb

LEMMA PlacesInOrder == Typing /\ Places => InOrder
  <1> SUFFICES ASSUME Typing, Places PROVE InOrder
    OBVIOUS
  <1> DEFINE left == executed \o InHand
             all  == left \o queue
  <1>1. executed \in Seq(Stmts) /\ InHand \in Seq(Stmts) /\ queue \in Seq(Stmts)
    BY DEF Typing, TypeOK, InHand
  <1>2. Len(InHand) = (IF thread = "exec" THEN 1 ELSE 0) /\ (thread = "exec" => InHand[1] = sql)
    BY DEF InHand
  <1>3. /\ left \in Seq(Stmts) /\ Len(left) = Len(executed) + Len(InHand)
        /\ \A i \in 1..Len(left) : left[i] = IF i <= Len(executed) THEN executed[i]
                                             ELSE InHand[i - Len(executed)]
    BY <1>1, ConcatProperties
  <1>4. /\ all \in Seq(Stmts) /\ Len(all) = Len(left) + Len(queue)
        /\ \A i \in 1..Len(all) : all[i] = IF i <= Len(left) THEN left[i]
                                           ELSE queue[i - Len(left)]
    BY <1>1, <1>3, ConcatProperties
  <1>5. Len(executed) \in Nat /\ Len(queue) \in Nat
    BY <1>1, LenProperties
  <1>6. Len(left) = Taken /\ \A i \in 1..Len(left) : left[i] = i
    BY <1>2, <1>3, <1>5 DEF Places, Taken
  <1>7. Len(all) = added /\ \A i \in 1..Len(all) : all[i] = i
    <2>1. Len(all) = added /\ Taken \in Nat
      BY <1>4, <1>5, <1>6 DEF Places, Taken
    <2>2. \A i \in 1..Len(queue) : queue[i] = Taken + i
      BY DEF Places
    <2> SUFFICES ASSUME NEW i \in 1..Len(all) PROVE all[i] = i
      BY <2>1
    <2>3. CASE i <= Len(left)
      BY ONLY <1>4, <1>6, <2>1, <2>3, i \in 1..Len(all)
    <2>4. CASE ~(i <= Len(left))
      <3>1. i - Taken \in 1..Len(queue)
        BY ONLY <1>4, <1>5, <1>6, <2>1, <2>4, i \in 1..Len(all)
      <3>2. all[i] = queue[i - Taken]
        BY ONLY <1>4, <1>6, <2>4, i \in 1..Len(all)
      <3> QED  BY ONLY <2>1, <2>2, <3>1, <3>2, i \in 1..Len(all), <1>5
    <2> QED  BY <2>3, <2>4
  <1>8. all = [i \in 1..Len(all) |-> all[i]]
    BY <1>4, LenProperties
  <1> QED  BY <1>7, <1>8 DEF InOrder

(* The statements executed, in hand and queued are, in this order, the ones  *)
(* given to add_task: none is lost, repeated or overtaken, also across stop, *)
(* for any number of them.                                                   *)
THEOREM InOrderHolds == Spec => []InOrder
  BY TypingInit, TypingNext, PlacesInit, PlacesNext, PlacesInOrder, PTL DEF Spec

-----------------------------------------------------------------------------
(* The whole. *)
LEMMA DbStep == [ServerNext]_allVars => [Next]_vars
  <1> SUFFICES ASSUME [ServerNext]_allVars PROVE [Next]_vars
    OBVIOUS
  <1>1. CASE UNCHANGED vars
    BY <1>1
  <1>2. CASE WorkerAddsTask \/ DbThread
    BY <1>2 DEF WorkerAddsTask, DbThread, Next
  <1>3. CASE Closing
    BY <1>3 DEF Closing, CloseOffline, CloseUnsub, StopDb, DestroyRedis, Next
  <1>4. CASE WorkerUsesRedis \/ RedisThreads \/ RedisServer \/ LeaveLoop
    BY <1>4 DEF WorkerUsesRedis, RedisThreads, RedisServer, Redis, LeaveLoop
  <1>5. CASE UNCHANGED allVars
    BY <1>1, <1>5 DEF allVars
  <1> QED  BY <1>2, <1>3, <1>4, <1>5 DEF ServerNext

(* The statements of workers and of the closing main thread reach MySQL as   *)
(* module DbWriter says, so that what is proved of it holds at the end of    *)
(* the process too.                                                          *)
THEOREM DbImplemented == ServerSpec => Spec
  <1>1. ServerInit => Init
    BY DEF ServerInit
  <1> QED  BY <1>1, DbStep, PTL DEF ServerSpec, Spec

(* No is_online = 0 of close_clint overtakes the is_online = 1 of the        *)
(* sign_in before it, and none is lost before stop.                          *)
THEOREM ServerInOrder == ServerSpec => []InOrder
  BY DbImplemented, InOrderHolds, PTL

-----------------------------------------------------------------------------
LEMMA RedisUnchanged == UNCHANGED redisVars => UNCHANGED R!vars
  BY DEF redisVars, R!vars, R!redis, R!contexts, R!flags, R!commands, R!threads,
         R!ghosts, R!worker

LEMMA RedisStep == [ServerNext]_allVars => [R!Next]_(R!vars)
  <1> SUFFICES ASSUME [ServerNext]_allVars PROVE R!Next \/ UNCHANGED R!vars
    OBVIOUS
  <1>1. CASE UNCHANGED redisVars
    BY <1>1, RedisUnchanged
  <1>2. CASE WorkerAddsTask \/ DbThread \/ LeaveLoop \/ UNCHANGED allVars
    BY <1>1, <1>2 DEF WorkerAddsTask, DbThread, LeaveLoop, allVars
  <1>3. CASE WorkerUsesRedis \/ RedisThreads \/ RedisServer
    BY <1>3 DEF WorkerUsesRedis, RedisThreads, RedisServer, Redis, R!Next
  <1>4. CASE Closing
    BY <1>1, <1>4 DEF Closing, CloseOffline, CloseUnsub, StopDb, DestroyRedis, R!Next
  <1> QED  BY <1>2, <1>3, <1>4 DEF ServerNext

(* The link to Redis is used, and at the end destroyed, as module RedisLink  *)
(* says: nothing the main thread does is outside of its actions.             *)
THEOREM RedisImplemented == ServerSpec => R!Spec
  <1>1. ServerInit => R!Init
    BY DEF ServerInit
  <1> QED  BY <1>1, RedisStep, PTL DEF ServerSpec, R!Spec

-----------------------------------------------------------------------------
(* Where the observer and the keep-alive thread are when a context is freed, *)
(* and when the destructor has got past the joins.                           *)
Guarded ==
    /\ ka \in {"free", "connect", "connect2"} => observer = "none"
    /\ sub = "null" => observer = "none"
    /\ dtor # "none" => ka \notin {"join", "free", "connect", "connect2"}
    /\ dtor \in {"keepalive", "free", "done"} => observer = "none"
    /\ ~broken
Uncrossed == ~crossed => Guarded

LEMMA UncrossedInit == R!Init => Uncrossed
  BY DEF R!Init, Uncrossed, Guarded

LEMMA UncrossedNext == Uncrossed /\ [R!Next]_(R!vars) => Uncrossed'
  <1> SUFFICES ASSUME Uncrossed, [R!Next]_(R!vars), ~crossed' PROVE Guarded'
    BY DEF Uncrossed
  <1> USE DEF R!redis, R!contexts, R!flags, R!commands, R!threads, R!ghosts, R!worker
  <1>1. CASE /\ UNCHANGED <<observer, dtor, crossed, broken>>
             /\ ka' \notin {"join", "free", "connect", "connect2"}
             /\ sub' = "null" => sub = "null"
    BY <1>1 DEF Uncrossed, Guarded
  <1>2. CASE /\ UNCHANGED <<observer, dtor, crossed, broken, ka>>
             /\ sub' = "null" => sub = "null"
    BY <1>2 DEF Uncrossed, Guarded
  <1>3. CASE R!GoesAway
    BY <1>2, <1>3 DEF R!GoesAway, R!Lost
  <1>4. CASE R!ComesBack \/ R!Enqueue \/ R!CommandBegins \/ R!CommandEnds
    BY <1>2, <1>4 DEF R!ComesBack, R!Enqueue, R!CommandBegins, R!CommandEnds
  <1>5. CASE R!Observe
    <2>1. /\ UNCHANGED <<dtor, ka, crossed>> /\ observer \in {"while", "write", "read", "failed"}
          /\ sub' = "null" => sub = "null"
          /\ broken' => broken \/ sub = "null"
      <3>1. CASE R!TakeCommands \/ R!ObserverEnds \/ R!WriteFails \/ R!WriteAgain \/ R!Failed
        BY <3>1 DEF R!TakeCommands, R!ObserverEnds, R!WriteFails, R!WriteAgain, R!Failed
      <3>2. CASE R!Write
        BY <3>2 DEF R!Write
      <3>3. CASE R!Read
        BY <3>3 DEF R!Read
      <3> QED  BY <1>5, <3>1, <3>2, <3>3 DEF R!Observe
    <2>2. Guarded /\ observer # "none"
      BY <2>1 DEF Uncrossed
    <2> QED  BY <2>1, <2>2 DEF Guarded
  <1>6. CASE R!Sleep \/ R!Notes \/ R!Ping
    BY <1>1, <1>6 DEF R!Sleep, R!Notes, R!Ping
  <1>7. CASE R!StopObserver
    BY <1>7 DEF R!StopObserver, R!Crossing, Uncrossed, Guarded
  <1>8. CASE R!JoinObserver \/ R!FreeContexts \/ R!ConnectPublish
    <2>1. ~crossed /\ dtor = "none" /\ dtor' = dtor
      BY <1>8 DEF R!JoinObserver, R!FreeContexts, R!ConnectPublish, R!Crossing
    <2>2. Guarded
      BY <2>1 DEF Uncrossed
    <2>3. CASE R!JoinObserver
      BY <2>1, <2>2, <2>3 DEF R!JoinObserver, Guarded
    <2>4. CASE R!FreeContexts
      BY <2>1, <2>2, <2>4 DEF R!FreeContexts, Guarded
    <2>5. CASE R!ConnectPublish
      BY <2>1, <2>2, <2>5 DEF R!ConnectPublish, Guarded
    <2> QED  BY <1>8, <2>3, <2>4, <2>5
  <1>9. CASE R!ConnectSubscribe
    BY <1>9 DEF R!ConnectSubscribe, R!Crossing, Uncrossed, Guarded
  <1>10. CASE R!Destroy
    BY <1>10 DEF R!Destroy, R!Reconnecting, Uncrossed, Guarded
  <1>11. CASE R!Destructor
    <2>1. ~crossed /\ ka' = ka
      BY <1>11 DEF R!Destructor, R!DestroyJoinsObserver, R!DestroyJoinsKeepAlive, R!DestroyFrees
    <2>2. Guarded
      BY <2>1 DEF Uncrossed
    <2>3. CASE R!DestroyJoinsObserver
      BY <2>1, <2>2, <2>3 DEF R!DestroyJoinsObserver, Guarded
    <2>4. CASE R!DestroyJoinsKeepAlive
      BY <2>1, <2>2, <2>4 DEF R!DestroyJoinsKeepAlive, Guarded
    <2>5. CASE R!DestroyFrees
      BY <2>1, <2>2, <2>5 DEF R!DestroyFrees, Guarded
    <2> QED  BY <1>11, <2>3, <2>4, <2>5 DEF R!Destructor
  <1>12. CASE UNCHANGED R!vars
    BY <1>2, <1>12 DEF R!vars
  <1> QED
    BY <1>3, <1>4, <1>5, <1>6, <1>7, <1>8, <1>9, <1>10, <1>11, <1>12 DEF R!Next, R!KeepAlive

(* For any number of outages and commands: no thread uses a context that     *)
(* another has freed, there is one observer at most, and no thread object is *)
(* joined twice or destroyed while it runs, unless a reconnection is under   *)
(* way when ~Redis begins.                                                   *)
THEOREM ThreadsSafeHolds == ServerSpec => []ThreadsSafe
  <1>1. Uncrossed => ThreadsSafe
    BY DEF Uncrossed, Guarded, ThreadsSafe, R!ThreadsSafe
  <1> QED
    BY <1>1, RedisImplemented, UncrossedInit, UncrossedNext, PTL DEF R!Spec

-----------------------------------------------------------------------------
(* While Redis is there, nothing is taken for its absence, and the object    *)
(* lives, nothing is ever reconnected.                                       *)
Undisturbed ==
    /\ outages \in Nat
    /\ R!Steady /\ dtor # "done" =>
         /\ up /\ pub = "ok" /\ sub \in {"ok", "late"} /\ ~lost
         /\ ka \in {"while", "check", "ping", "end"}

LEMMA UndisturbedInit == R!Init => Undisturbed
  BY DEF R!Init, Undisturbed

LEMMA UndisturbedNext == Undisturbed /\ [R!Next]_(R!vars) => Undisturbed'
  <1> SUFFICES ASSUME Undisturbed, [R!Next]_(R!vars) PROVE Undisturbed'
    OBVIOUS
  <1> USE DEF R!redis, R!contexts, R!flags, R!commands, R!threads, R!ghosts, R!worker,
              R!Steady, Undisturbed
  <1>1. CASE UNCHANGED <<up, outages, pub, sub, ka, dtor, misread, lost>>
    BY <1>1
  <1>2. CASE R!GoesAway
    BY <1>2 DEF R!GoesAway
  <1>3. CASE R!ComesBack \/ R!Enqueue
    BY <1>3 DEF R!ComesBack, R!Enqueue
  <1>4. CASE R!CommandBegins \/ R!CommandEnds
    BY <1>4 DEF R!CommandBegins, R!CommandEnds
  <1>5. CASE R!Observe
    <2>1. UNCHANGED <<up, outages, pub, ka, dtor, misread, lost>>
      BY <1>5 DEF R!Observe, R!TakeCommands, R!ObserverEnds, R!Write, R!WriteFails,
                  R!WriteAgain, R!Read, R!Failed
    <2>2. sub \in {"ok", "late"} => sub' \in {"ok", "late"}
      BY <1>5 DEF R!Observe, R!TakeCommands, R!ObserverEnds, R!Write, R!WriteFails,
                  R!WriteAgain, R!Read, R!Failed
    <2> QED  BY <2>1, <2>2
  <1>6. CASE R!Sleep \/ R!Notes \/ R!Ping
    <2>1. CASE R!Sleep
      BY <2>1 DEF R!Sleep
    <2>2. CASE R!Notes
      <3>1. ~misread' => ~misread /\ sub # "late"
        BY <2>2 DEF R!Notes
      <3> QED  BY <2>2, <3>1 DEF R!Notes
    <2>3. CASE R!Ping
      BY <2>3 DEF R!Ping
    <2> QED  BY <1>6, <2>1, <2>2, <2>3
  <1>7. CASE R!StopObserver \/ R!JoinObserver \/ R!FreeContexts
    BY <1>7 DEF R!StopObserver, R!JoinObserver, R!FreeContexts
  <1>8. CASE R!ConnectPublish \/ R!ConnectSubscribe
    BY <1>8 DEF R!ConnectPublish, R!ConnectSubscribe
  <1>9. CASE R!Destroy \/ R!Destructor
    BY <1>9 DEF R!Destroy, R!Destructor, R!DestroyJoinsObserver, R!DestroyJoinsKeepAlive,
                R!DestroyFrees
  <1>10. CASE UNCHANGED R!vars
    BY <1>1, <1>10 DEF R!vars
  <1> QED
    BY <1>2, <1>3, <1>4, <1>5, <1>6, <1>7, <1>8, <1>9, <1>10 DEF R!Next, R!KeepAlive

(* A command of a worker never meets a context that is null or freed under   *)
(* it, for any number of commands, as long as Redis was always there, no     *)
(* time-out of the observer was taken for its absence, and ~Redis has not    *)
(* ended.                                                                    *)
THEOREM WorkersSafeHolds == ServerSpec => []WorkersSafe
  <1>1. Undisturbed => WorkersSafe
    BY DEF Undisturbed, WorkersSafe, R!WorkersSafe
  <1> QED
    BY <1>1, RedisImplemented, UndisturbedInit, UndisturbedNext, PTL DEF R!Spec

-----------------------------------------------------------------------------
(* Sequences of numbers that grow from left to right.                        *)
Growing(s)  == \A i, j \in 1..Len(s) : i < j => s[i] < s[j]
Below(s, t) == \A i \in 1..Len(s), j \in 1..Len(t) : s[i] < t[j]

LEMMA GrowingConcat ==
  ASSUME NEW s \in Seq(Nat), NEW t \in Seq(Nat), Growing(s), Growing(t), Below(s, t)
  PROVE  s \o t \in Seq(Nat) /\ Growing(s \o t)
  <1> DEFINE u == s \o t
  <1>1. /\ u \in Seq(Nat) /\ Len(u) = Len(s) + Len(t)
        /\ \A i \in 1..Len(u) : u[i] = IF i <= Len(s) THEN s[i] ELSE t[i - Len(s)]
    BY ConcatProperties
  <1>2. Len(s) \in Nat /\ Len(t) \in Nat
    BY LenProperties
  <1> HIDE DEF u
  <1>3. ASSUME NEW i \in 1..Len(u), NEW j \in 1..Len(u), i < j PROVE u[i] < u[j]
    <2>1. CASE j <= Len(s)
      <3>1. i \in 1..Len(s) /\ j \in 1..Len(s)
        BY <1>1, <1>2, <1>3, <2>1
      <3>2. u[i] = s[i] /\ u[j] = s[j]
        BY <1>1, <3>1
      <3> QED  BY <1>3, <3>1, <3>2 DEF Growing
    <2>2. CASE i <= Len(s) /\ ~(j <= Len(s))
      <3>1. i \in 1..Len(s) /\ j - Len(s) \in 1..Len(t)
        BY <1>1, <1>2, <1>3, <2>2
      <3>2. u[i] = s[i] /\ u[j] = t[j - Len(s)]
        BY <1>1, <2>2
      <3> QED  BY <3>1, <3>2 DEF Below
    <2>3. CASE ~(i <= Len(s))
      <3>1. /\ i - Len(s) \in 1..Len(t) /\ j - Len(s) \in 1..Len(t)
            /\ i - Len(s) < j - Len(s) /\ ~(j <= Len(s))
        BY <1>1, <1>2, <1>3, <2>3
      <3>2. u[i] = t[i - Len(s)] /\ u[j] = t[j - Len(s)]
        BY <1>1, <2>3, <3>1
      <3>3. t[i - Len(s)] < t[j - Len(s)]
        BY <3>1 DEF Growing
      <3> QED  BY <3>2, <3>3
    <2> QED  BY <2>1, <2>2, <2>3
  <1> QED  BY <1>1, <1>3 DEF Growing, u

LEMMA AppendGrows ==
  ASSUME NEW s \in Seq(Nat), NEW e \in Nat, Growing(s), \A i \in 1..Len(s) : s[i] < e
  PROVE  Growing(Append(s, e))
  <1> DEFINE u == Append(s, e)
  <1>1. /\ Len(u) = Len(s) + 1 /\ u[Len(s) + 1] = e
        /\ \A i \in 1..Len(s) : u[i] = s[i]
    BY AppendProperties
  <1>2. Len(s) \in Nat
    BY LenProperties
  <1> HIDE DEF u
  <1>3. ASSUME NEW i \in 1..Len(u), NEW j \in 1..Len(u), i < j PROVE u[i] < u[j]
    <2>1. i \in 1..Len(s) /\ u[i] = s[i]
      BY <1>1, <1>2, <1>3
    <2>2. CASE j = Len(s) + 1
      BY <1>1, <2>1, <2>2
    <2>3. CASE j # Len(s) + 1
      <3>1. j \in 1..Len(s) /\ u[j] = s[j]
        BY <1>1, <1>2, <2>3
      <3> QED  BY <1>3, <2>1, <3>1 DEF Growing
    <2> QED  BY <2>2, <2>3
  <1> QED  BY <1>3 DEF Growing, u

LEMMA BelowConcat ==
  ASSUME NEW s \in Seq(Nat), NEW t \in Seq(Nat), NEW u \in Seq(Nat),
         Below(s, u), Below(t, u)
  PROVE  Below(s \o t, u)
  <1>1. /\ Len(s \o t) = Len(s) + Len(t)
        /\ \A i \in 1..Len(s \o t) : (s \o t)[i] = IF i <= Len(s) THEN s[i] ELSE t[i - Len(s)]
    BY ConcatProperties
  <1>2. Len(s) \in Nat /\ Len(t) \in Nat
    BY LenProperties
  <1>3. ASSUME NEW i \in 1..Len(s \o t), NEW j \in 1..Len(u) PROVE (s \o t)[i] < u[j]
    <2>1. CASE i <= Len(s)
      <3>1. i \in 1..Len(s) /\ (s \o t)[i] = s[i]
        BY <1>1, <1>2, <2>1
      <3> QED  BY <3>1 DEF Below
    <2>2. CASE ~(i <= Len(s))
      <3>1. i - Len(s) \in 1..Len(t) /\ (s \o t)[i] = t[i - Len(s)]
        BY <1>1, <1>2, <2>2
      <3> QED  BY <3>1 DEF Below
    <2> QED  BY <2>1, <2>2
  <1> QED  BY <1>3 DEF Below

(* The queues of commands and the history, one by one; what the observer has *)
(* taken it has written or dropped before it looks for more, and there is no *)
(* observer while the contexts are replaced.                                 *)
CmdTyping ==
    /\ cmds \in Nat
    /\ cmdQueue \in Seq(Nat) /\ local \in Seq(Nat) /\ sent \in Seq(Nat)
    /\ observer # "write" => local = <<>>
    /\ ka \in {"free", "connect", "connect2"} => observer = "none"

LEMMA CmdTypingInit == R!Init => CmdTyping
  BY EmptySeq DEF R!Init, CmdTyping

LEMMA CmdTypingNext == CmdTyping /\ [R!Next]_(R!vars) => CmdTyping'
  <1> SUFFICES ASSUME CmdTyping, [R!Next]_(R!vars) PROVE CmdTyping'
    OBVIOUS
  <1> USE DEF R!redis, R!contexts, R!flags, R!commands, R!threads, R!ghosts, R!worker,
              CmdTyping
  <1>1. CASE UNCHANGED <<cmds, cmdQueue, local, sent, observer, ka>>
    BY <1>1
  <1>2. CASE R!GoesAway \/ R!ComesBack \/ R!CommandBegins \/ R!CommandEnds
    BY <1>1, <1>2 DEF R!GoesAway, R!ComesBack, R!CommandBegins, R!CommandEnds
  <1>3. CASE R!Enqueue
    BY <1>3, AppendProperties DEF R!Enqueue
  <1>4. CASE R!TakeCommands \/ R!ObserverEnds \/ R!WriteFails \/ R!WriteAgain
    BY <1>4, EmptySeq DEF R!TakeCommands, R!ObserverEnds, R!WriteFails, R!WriteAgain
  <1>5. CASE R!Write
    <2>1. local # <<>> /\ observer = "write"
      BY <1>5 DEF R!Write
    <2>2. /\ Head(local) \in Nat /\ Tail(local) \in Seq(Nat) /\ Len(Tail(local)) = Len(local) - 1
      BY <2>1, HeadTailProperties
    <2>3. Len(local) = 1 => Tail(local) = <<>>
      <3>1. Tail(local) # <<>> => Len(Tail(local)) \in Nat \ {0}
        BY <2>2, EmptySeq
      <3> QED  BY <2>2, <3>1
    <2>4. Append(sent, Head(local)) \in Seq(Nat)
      BY <2>2, AppendProperties
    <2>5. /\ UNCHANGED <<cmds, cmdQueue, ka>>
          /\ local' = Tail(local) /\ sent' = Append(sent, Head(local))
          /\ observer' = IF Len(local) = 1 THEN "read" ELSE "write"
      BY <1>5 DEF R!Write
    <2> QED  BY <2>1, <2>2, <2>3, <2>4, <2>5
  <1>6. CASE R!Read \/ R!Failed
    BY <1>6 DEF R!Read, R!Failed
  <1>7. CASE R!Sleep \/ R!Notes \/ R!Ping
    BY <1>7 DEF R!Sleep, R!Notes, R!Ping
  <1>8. CASE R!StopObserver \/ R!JoinObserver \/ R!FreeContexts
    BY <1>8 DEF R!StopObserver, R!JoinObserver, R!FreeContexts
  <1>9. CASE R!ConnectPublish \/ R!ConnectSubscribe
    BY <1>9 DEF R!ConnectPublish, R!ConnectSubscribe
  <1>10. CASE R!Destroy \/ R!Destructor
    BY <1>10 DEF R!Destroy, R!Destructor, R!DestroyJoinsObserver, R!DestroyJoinsKeepAlive,
                 R!DestroyFrees
  <1>11. CASE UNCHANGED R!vars
    BY <1>1, <1>11 DEF R!vars
  <1> QED
    BY <1>2, <1>3, <1>4, <1>5, <1>6, <1>7, <1>8, <1>9, <1>10, <1>11
    DEF R!Next, R!Observe, R!KeepAlive

(* The order of the commands, in and across the three sequences.             *)
Order ==
    /\ Growing(sent) /\ Growing(local) /\ Growing(cmdQueue)
    /\ Below(sent, local) /\ Below(sent, cmdQueue) /\ Below(local, cmdQueue)
    /\ \A i \in 1..Len(sent) : sent[i] <= cmds
    /\ \A i \in 1..Len(local) : local[i] <= cmds
    /\ \A i \in 1..Len(cmdQueue) : cmdQueue[i] <= cmds

LEMMA OrderInit == R!Init => Order
  <1> SUFFICES ASSUME R!Init PROVE Order
    OBVIOUS
  <1>1. Len(sent) = 0 /\ Len(local) = 0 /\ Len(cmdQueue) = 0
    BY EmptySeq DEF R!Init
  <1> QED  BY <1>1 DEF Order, Growing, Below

LEMMA OrderNext == CmdTyping /\ Order /\ [R!Next]_(R!vars) => Order'
  <1> SUFFICES ASSUME CmdTyping, Order, [R!Next]_(R!vars) PROVE Order'
    OBVIOUS
  <1> USE DEF R!redis, R!contexts, R!flags, R!commands, R!threads, R!ghosts, R!worker
  <1>0. /\ Len(sent) \in Nat /\ Len(local) \in Nat /\ Len(cmdQueue) \in Nat /\ cmds \in Nat
        /\ \A i \in 1..Len(sent) : sent[i] \in Nat
        /\ \A i \in 1..Len(local) : local[i] \in Nat
        /\ \A i \in 1..Len(cmdQueue) : cmdQueue[i] \in Nat
    BY LenProperties, ElementOfSeq DEF CmdTyping
  <1>1. CASE UNCHANGED <<cmds, cmdQueue, local, sent>>
    BY <1>1 DEF Order, Growing, Below
  <1>2. CASE R!GoesAway \/ R!ComesBack \/ R!CommandBegins \/ R!CommandEnds
    BY <1>1, <1>2 DEF R!GoesAway, R!ComesBack, R!CommandBegins, R!CommandEnds
  <1>3. CASE R!Enqueue
    <2>1. /\ Len(cmdQueue') = Len(cmdQueue) + 1 /\ cmdQueue'[Len(cmdQueue) + 1] = cmds + 1
          /\ \A i \in 1..Len(cmdQueue) : cmdQueue'[i] = cmdQueue[i]
          /\ UNCHANGED <<sent, local>> /\ cmds' = cmds + 1
      BY <1>3, AppendProperties DEF R!Enqueue, CmdTyping
    <2>2. Growing(cmdQueue')
      <3>1. cmdQueue' = Append(cmdQueue, cmds + 1)
        BY <1>3 DEF R!Enqueue
      <3>2. cmds + 1 \in Nat /\ \A i \in 1..Len(cmdQueue) : cmdQueue[i] < cmds + 1
        BY <1>0 DEF Order
      <3> QED  BY <3>1, <3>2, AppendGrows DEF CmdTyping, Order
    <2>3. Growing(sent') /\ Growing(local') /\ Below(sent', local')
      BY <2>1 DEF Order
    <2>4. Below(sent', cmdQueue')
      BY <1>0, <2>1 DEF Order, Below
    <2>5. Below(local', cmdQueue')
      <3> SUFFICES ASSUME NEW i \in 1..Len(local), NEW j \in 1..Len(cmdQueue')
                   PROVE  local[i] < cmdQueue'[j]
        BY <2>1 DEF Below
      <3>1. CASE j = Len(cmdQueue) + 1
        BY <1>0, <2>1, <3>1 DEF Order
      <3>2. CASE j # Len(cmdQueue) + 1
        BY <1>0, <2>1, <3>2 DEF Order, Below
      <3> QED  BY <3>1, <3>2
    <2>6. \A i \in 1..Len(cmdQueue') : cmdQueue'[i] <= cmds'
      BY <1>0, <2>1 DEF Order
    <2>7. \A i \in 1..Len(sent') : sent'[i] <= cmds'
      BY <1>0, <2>1 DEF Order
    <2>8. \A i \in 1..Len(local') : local'[i] <= cmds'
      BY <1>0, <2>1 DEF Order
    <2> QED  BY <2>2, <2>3, <2>4, <2>5, <2>6, <2>7, <2>8 DEF Order, Growing, Below
  <1>4. CASE R!TakeCommands
    <2>1. local' = cmdQueue /\ Len(cmdQueue') = 0 /\ UNCHANGED <<sent, cmds>>
      BY <1>4, EmptySeq DEF R!TakeCommands
    <2> QED  BY <2>1 DEF Order, Growing, Below
  <1>5. CASE R!Write
    <2>1. /\ local # <<>> /\ UNCHANGED <<cmds, cmdQueue>>
          /\ local' = Tail(local) /\ sent' = Append(sent, local[1])
      BY <1>5 DEF R!Write
    <2>2. /\ Len(local) >= 1 /\ Len(local') = Len(local) - 1 /\ local[1] \in Nat
          /\ \A i \in 1..Len(local') : local'[i] = local[i + 1]
      BY <1>0, <2>1, HeadTailProperties, EmptySeq DEF CmdTyping
    <2>3. /\ Len(sent') = Len(sent) + 1 /\ sent'[Len(sent) + 1] = local[1]
          /\ \A i \in 1..Len(sent) : sent'[i] = sent[i]
      BY <2>1, <2>2, AppendProperties DEF CmdTyping
    <2>0. /\ \A i \in 1..Len(sent) : sent[i] < local[1]
          /\ \A i \in 1..Len(local') : i + 1 \in 1..Len(local) /\ local[1] < local'[i]
      <3>1. 1 \in 1..Len(local)
        BY <1>0, <2>2
      <3>2. \A i \in 1..Len(sent) : sent[i] < local[1]
        BY <3>1 DEF Order, Below
      <3>3. \A i \in 1..Len(local') : i + 1 \in 1..Len(local) /\ 1 < i + 1
        BY <1>0, <2>2
      <3>4. \A i \in 1..Len(local') : local[1] < local'[i]
        BY <2>2, <3>1, <3>3 DEF Order, Growing
      <3> QED  BY <3>2, <3>3, <3>4
    <2>4. Growing(sent')
      BY <2>0, <2>1, <2>2, AppendGrows DEF CmdTyping, Order
    <2>5. Growing(local')
      <3> SUFFICES ASSUME NEW i \in 1..Len(local'), NEW j \in 1..Len(local'), i < j
                   PROVE  local'[i] < local'[j]
        BY DEF Growing
      <3>1. i + 1 < j + 1 /\ local'[i] = local[i + 1] /\ local'[j] = local[j + 1]
        BY <2>2
      <3> QED  BY <2>0, <3>1 DEF Order, Growing
    <2>6. Below(sent', local')
      <3> SUFFICES ASSUME NEW i \in 1..Len(sent'), NEW j \in 1..Len(local')
                   PROVE  sent'[i] < local'[j]
        BY DEF Below
      <3>1. CASE i = Len(sent) + 1
        BY <2>0, <2>3, <3>1
      <3>2. CASE i # Len(sent) + 1
        <4>1. i \in 1..Len(sent) /\ sent'[i] = sent[i]
          BY <1>0, <2>3, <3>2
        <4>2. j + 1 \in 1..Len(local) /\ local'[j] = local[j + 1]
          BY <2>0, <2>2
        <4> QED  BY <4>1, <4>2 DEF Order, Below
      <3> QED  BY <3>1, <3>2
    <2>7. Below(sent', cmdQueue')
      BY <1>0, <2>1, <2>2, <2>3 DEF Order, Below
    <2>8. Below(local', cmdQueue')
      BY <1>0, <2>1, <2>2 DEF Order, Below
    <2>9. \A i \in 1..Len(sent') : sent'[i] <= cmds'
      BY <1>0, <2>1, <2>2, <2>3 DEF Order
    <2>10. \A i \in 1..Len(local') : local'[i] <= cmds'
      BY <1>0, <2>1, <2>2 DEF Order
    <2>11. Growing(cmdQueue') /\ \A i \in 1..Len(cmdQueue') : cmdQueue'[i] <= cmds'
      BY <2>1 DEF Order
    <2> QED
      BY <2>4, <2>5, <2>6, <2>7, <2>8, <2>9, <2>10, <2>11 DEF Order, Growing, Below
  <1>6. CASE R!WriteFails
    <2>1. Len(local') = 0 /\ UNCHANGED <<sent, cmdQueue, cmds>>
      BY <1>6, EmptySeq DEF R!WriteFails
    <2> QED  BY <2>1 DEF Order, Growing, Below
  <1>7. CASE R!ObserverEnds \/ R!WriteAgain \/ R!Read \/ R!Failed
    BY <1>1, <1>7 DEF R!ObserverEnds, R!WriteAgain, R!Read, R!Failed
  <1>8. CASE R!KeepAlive
    BY <1>1, <1>8 DEF R!KeepAlive, R!Sleep, R!Notes, R!Ping, R!StopObserver, R!JoinObserver,
                      R!FreeContexts, R!ConnectPublish, R!ConnectSubscribe
  <1>9. CASE R!Destroy \/ R!Destructor
    BY <1>1, <1>9 DEF R!Destroy, R!Destructor, R!DestroyJoinsObserver,
                      R!DestroyJoinsKeepAlive, R!DestroyFrees
  <1>10. CASE UNCHANGED R!vars
    BY <1>1, <1>10 DEF R!vars
  <1> QED
    BY <1>2, <1>3, <1>4, <1>5, <1>6, <1>7, <1>8, <1>9, <1>10 DEF R!Next, R!Observe

(* While nothing disturbs the link, no reconnection can cross ~Redis.        *)
Calm ==
    /\ dtor \in {"free", "done"} => ka = "end"
    /\ R!Steady => ~crossed

LEMMA CalmInit == R!Init => Calm
  BY DEF R!Init, Calm

LEMMA CalmNext == Calm /\ Undisturbed /\ [R!Next]_(R!vars) => Calm'
  <1> SUFFICES ASSUME Calm, Undisturbed, [R!Next]_(R!vars) PROVE Calm'
    OBVIOUS
  <1> USE DEF R!redis, R!contexts, R!flags, R!commands, R!threads, R!ghosts, R!worker,
              R!Steady
  <1>1. CASE UNCHANGED <<outages, ka, dtor, misread, crossed>>
    BY <1>1 DEF Calm
  <1>2. CASE R!GoesAway
    BY <1>2 DEF R!GoesAway, Calm, Undisturbed
  <1>3. CASE R!ComesBack \/ R!Enqueue \/ R!CommandBegins \/ R!CommandEnds
    BY <1>1, <1>3 DEF R!ComesBack, R!Enqueue, R!CommandBegins, R!CommandEnds
  <1>4. CASE R!Observe
    BY <1>1, <1>4 DEF R!Observe, R!TakeCommands, R!ObserverEnds, R!Write, R!WriteFails,
                      R!WriteAgain, R!Read, R!Failed
  <1>5. CASE R!Sleep \/ R!Notes \/ R!Ping
    <2>1. ka # "end" /\ UNCHANGED <<dtor, outages, crossed>>
      BY <1>5 DEF R!Sleep, R!Notes, R!Ping
    <2>2. ~misread' => ~misread
      BY <1>5 DEF R!Sleep, R!Notes, R!Ping
    <2> QED  BY <2>1, <2>2 DEF Calm
  <1>6. CASE \/ R!StopObserver \/ R!JoinObserver \/ R!FreeContexts
             \/ R!ConnectPublish \/ R!ConnectSubscribe
    <2>1. /\ ka \in {"stop", "join", "free", "connect", "connect2"}
          /\ UNCHANGED <<dtor, outages, misread>>
      BY <1>6 DEF R!StopObserver, R!JoinObserver, R!FreeContexts, R!ConnectPublish,
                  R!ConnectSubscribe
    <2>2. dtor \notin {"free", "done"}
      BY <2>1 DEF Calm
    <2>3. ~R!Steady
      BY <2>1, <2>2 DEF Undisturbed
    <2> QED  BY <2>1, <2>2, <2>3 DEF Calm
  <1>7. CASE R!Destroy
    <2>1. dtor = "none" /\ dtor' = "observer" /\ UNCHANGED <<outages, misread>>
          /\ (crossed' => crossed \/ R!Reconnecting)
      BY <1>7 DEF R!Destroy
    <2>2. R!Steady => ~R!Reconnecting
      BY <2>1 DEF Undisturbed, R!Reconnecting
    <2> QED  BY <2>1, <2>2 DEF Calm
  <1>8. CASE R!Destructor
    BY <1>8 DEF R!Destructor, R!DestroyJoinsObserver, R!DestroyJoinsKeepAlive,
                R!DestroyFrees, Calm
  <1>9. CASE UNCHANGED R!vars
    BY <1>1, <1>9 DEF R!vars
  <1> QED
    BY <1>2, <1>3, <1>4, <1>5, <1>6, <1>7, <1>8, <1>9 DEF R!Next, R!KeepAlive

(* What the three sequences hold when nothing was dropped.                   *)
Filled ==
    R!Steady => /\ cmds = Len(sent) + Len(local) + Len(cmdQueue)
                /\ \A i \in 1..Len(sent) : sent[i] = i
                /\ \A i \in 1..Len(local) : local[i] = Len(sent) + i
                /\ \A i \in 1..Len(cmdQueue) : cmdQueue[i] = Len(sent) + Len(local) + i

LEMMA FilledInit == R!Init => Filled
  <1> SUFFICES ASSUME R!Init PROVE Filled
    OBVIOUS
  <1>1. Len(sent) = 0 /\ Len(local) = 0 /\ Len(cmdQueue) = 0 /\ cmds = 0
    BY EmptySeq DEF R!Init
  <1> QED  BY <1>1 DEF Filled

LEMMA FilledNext ==
  CmdTyping /\ Undisturbed /\ Uncrossed /\ Calm /\ Filled /\ [R!Next]_(R!vars) => Filled'
  <1> SUFFICES ASSUME CmdTyping, Undisturbed, Uncrossed, Calm, Filled,
                      [R!Next]_(R!vars), R!Steady'
               PROVE  Filled'
    BY DEF Filled
  <1> USE DEF R!redis, R!contexts, R!flags, R!commands, R!threads, R!ghosts, R!worker
  <1>0. Len(sent) \in Nat /\ Len(local) \in Nat /\ Len(cmdQueue) \in Nat /\ cmds \in Nat
    BY LenProperties DEF CmdTyping
  <1>1. CASE UNCHANGED <<cmds, cmdQueue, local, sent>> /\ R!Steady
    BY <1>1 DEF Filled
  <1>2. CASE R!GoesAway
    BY <1>2 DEF R!GoesAway, Undisturbed, R!Steady
  <1>3. CASE R!ComesBack \/ R!CommandBegins \/ R!CommandEnds
    BY <1>1, <1>3 DEF R!ComesBack, R!CommandBegins, R!CommandEnds, R!Steady
  <1>4. CASE R!Enqueue
    <2>1. /\ Len(cmdQueue') = Len(cmdQueue) + 1 /\ cmdQueue'[Len(cmdQueue) + 1] = cmds + 1
          /\ \A i \in 1..Len(cmdQueue) : cmdQueue'[i] = cmdQueue[i]
          /\ UNCHANGED <<sent, local>> /\ cmds' = cmds + 1
      BY <1>4, AppendProperties DEF R!Enqueue, CmdTyping
    <2>2. R!Steady
      BY <1>4 DEF R!Enqueue, R!Steady
    <2>3. cmds' = Len(sent') + Len(local') + Len(cmdQueue')
      BY <1>0, <2>1, <2>2 DEF Filled
    <2>4. \A i \in 1..Len(cmdQueue') : cmdQueue'[i] = Len(sent') + Len(local') + i
      <3> SUFFICES ASSUME NEW i \in 1..Len(cmdQueue')
                   PROVE  cmdQueue'[i] = Len(sent) + Len(local) + i
        BY <2>1
      <3>1. CASE i = Len(cmdQueue) + 1
        <4>1. cmds = Len(sent) + Len(local) + Len(cmdQueue)
          BY <2>2 DEF Filled
        <4> QED  BY <1>0, <2>1, <3>1, <4>1
      <3>2. CASE i # Len(cmdQueue) + 1
        <4>1. i \in 1..Len(cmdQueue)
          BY <1>0, <2>1, <3>2
        <4> QED  BY <2>1, <2>2, <4>1 DEF Filled
      <3> QED  BY <3>1, <3>2
    <2> QED  BY <2>1, <2>2, <2>3, <2>4 DEF Filled
  <1>5. CASE R!TakeCommands
    <2>1. /\ observer = "while" /\ local' = cmdQueue /\ Len(cmdQueue') = 0
          /\ UNCHANGED <<sent, cmds>> /\ R!Steady
      BY <1>5, EmptySeq DEF R!TakeCommands, R!Steady
    <2>2. Len(local) = 0
      BY <2>1, EmptySeq DEF CmdTyping
    <2> QED  BY <1>0, <2>1, <2>2 DEF Filled
  <1>6. CASE R!Write
    <2>1. /\ local # <<>> /\ UNCHANGED <<cmds, cmdQueue>> /\ R!Steady
          /\ local' = Tail(local) /\ sent' = Append(sent, local[1])
      BY <1>6 DEF R!Write, R!Steady
    <2>2. /\ Len(local) >= 1 /\ Len(local') = Len(local) - 1 /\ local[1] \in Nat
          /\ \A i \in 1..Len(local') : local'[i] = local[i + 1]
      BY <1>0, <2>1, HeadTailProperties, EmptySeq DEF CmdTyping
    <2>3. /\ Len(sent') = Len(sent) + 1 /\ sent'[Len(sent) + 1] = local[1]
          /\ \A i \in 1..Len(sent) : sent'[i] = sent[i]
      BY <2>1, <2>2, AppendProperties DEF CmdTyping
    <2>4. cmds' = Len(sent') + Len(local') + Len(cmdQueue')
      BY <1>0, <2>1, <2>2, <2>3 DEF Filled
    <2>5. \A i \in 1..Len(sent') : sent'[i] = i
      <3>1. local[1] = Len(sent) + 1 /\ \A i \in 1..Len(sent) : sent[i] = i
        BY <1>0, <2>1, <2>2 DEF Filled
      <3> QED  BY <1>0, <2>3, <3>1
    <2>6. \A i \in 1..Len(local') : local'[i] = Len(sent') + i
      <3> SUFFICES ASSUME NEW i \in 1..Len(local') PROVE local'[i] = Len(sent') + i
        OBVIOUS
      <3>1. i + 1 \in 1..Len(local) /\ local'[i] = local[i + 1]
        BY <1>0, <2>2
      <3>2. local[i + 1] = Len(sent) + (i + 1)
        BY <2>1, <3>1 DEF Filled
      <3> QED  BY <1>0, <2>3, <3>1, <3>2
    <2>7. \A i \in 1..Len(cmdQueue') : cmdQueue'[i] = Len(sent') + Len(local') + i
      <3>1. Len(sent') + Len(local') = Len(sent) + Len(local)
        BY <1>0, <2>2, <2>3
      <3> QED  BY <2>1, <3>1 DEF Filled
    <2> QED  BY <2>4, <2>5, <2>6, <2>7 DEF Filled
  <1>7. CASE R!WriteFails
    <2>1. observer = "write" /\ sub \in {"dead", "err"} /\ R!Steady
      BY <1>7 DEF R!WriteFails, R!Steady
    <2>2. dtor = "done"
      BY <2>1 DEF Undisturbed
    <2>3. observer = "none"
      BY <2>1, <2>2 DEF Calm, Uncrossed, Guarded
    <2> QED  BY <2>1, <2>3
  <1>8. CASE R!ObserverEnds \/ R!WriteAgain \/ R!Read \/ R!Failed
    BY <1>1, <1>8 DEF R!ObserverEnds, R!WriteAgain, R!Read, R!Failed, R!Steady
  <1>9. CASE R!KeepAlive
    <2>1. UNCHANGED <<cmds, cmdQueue, local, sent, outages>>
      BY <1>9 DEF R!KeepAlive, R!Sleep, R!Notes, R!Ping, R!StopObserver, R!JoinObserver,
                  R!FreeContexts, R!ConnectPublish, R!ConnectSubscribe
    <2>2. ~misread' => ~misread
      <3>1. CASE R!Notes
        BY <3>1 DEF R!Notes
      <3>2. CASE misread' = misread
        BY <3>2
      <3> QED  BY <1>9, <3>1, <3>2 DEF R!KeepAlive, R!Sleep, R!Ping, R!StopObserver,
                  R!JoinObserver, R!FreeContexts, R!ConnectPublish, R!ConnectSubscribe
    <2> QED  BY <1>1, <2>1, <2>2 DEF R!Steady
  <1>10. CASE R!Destroy \/ R!Destructor
    BY <1>1, <1>10 DEF R!Destroy, R!Destructor, R!DestroyJoinsObserver,
                       R!DestroyJoinsKeepAlive, R!DestroyFrees, R!Steady
  <1>11. CASE UNCHANGED R!vars
    BY <1>1, <1>11 DEF R!vars, R!Steady
  <1> QED
    BY <1>2, <1>3, <1>4, <1>5, <1>6, <1>7, <1>8, <1>9, <1>10, <1>11 DEF R!Next, R!Observe

LEMMA OrderGives == CmdTyping /\ Order /\ Filled => CommandsInOrder
  <1> SUFFICES ASSUME CmdTyping, Order, Filled PROVE R!CommandsInOrder
    BY DEF CommandsInOrder
  <1> DEFINE left == sent \o local
             all  == left \o cmdQueue
  <1>1. /\ cmdQueue \in Seq(Nat) /\ local \in Seq(Nat) /\ sent \in Seq(Nat)
        /\ Len(sent) \in Nat /\ Len(local) \in Nat /\ Len(cmdQueue) \in Nat
    BY LenProperties DEF CmdTyping
  <1>2. left \in Seq(Nat) /\ Growing(left) /\ Below(left, cmdQueue)
    BY <1>1, GrowingConcat, BelowConcat DEF Order
  <1>3. all \in Seq(Nat) /\ Growing(all)
    <2> HIDE DEF left
    <2> QED  BY <1>1, <1>2, GrowingConcat DEF Order
  <1>4. ASSUME R!Steady PROVE all = [i \in 1..cmds |-> i]
    <2>1. /\ Len(left) = Len(sent) + Len(local)
          /\ \A i \in 1..Len(left) : left[i] = IF i <= Len(sent) THEN sent[i]
                                               ELSE local[i - Len(sent)]
      BY <1>1, ConcatProperties
    <2>2. \A i \in 1..Len(left) : left[i] = i
      <3> SUFFICES ASSUME NEW i \in 1..Len(left) PROVE left[i] = i
        OBVIOUS
      <3>1. CASE i <= Len(sent)
        BY <1>1, <1>4, <2>1, <3>1 DEF Filled
      <3>2. CASE ~(i <= Len(sent))
        <4>1. i - Len(sent) \in 1..Len(local) /\ left[i] = local[i - Len(sent)]
          BY <1>1, <2>1, <3>2
        <4>2. local[i - Len(sent)] = Len(sent) + (i - Len(sent))
          BY <1>4, <4>1 DEF Filled
        <4> QED  BY <1>1, <4>1, <4>2
      <3> QED  BY <3>1, <3>2
    <2> HIDE DEF left
    <2>3. /\ Len(all) = Len(left) + Len(cmdQueue)
          /\ \A i \in 1..Len(all) : all[i] = IF i <= Len(left) THEN left[i]
                                             ELSE cmdQueue[i - Len(left)]
      BY <1>1, <1>2, ConcatProperties
    <2>4. Len(all) = cmds
      BY <1>1, <1>4, <2>1, <2>3 DEF Filled
    <2>5. \A i \in 1..Len(all) : all[i] = i
      <3> SUFFICES ASSUME NEW i \in 1..Len(all) PROVE all[i] = i
        OBVIOUS
      <3> HIDE DEF all
      <3>1. CASE i <= Len(left)
        BY <1>1, <2>1, <2>2, <2>3, <3>1
      <3>2. CASE ~(i <= Len(left))
        <4>1. i - Len(left) \in 1..Len(cmdQueue) /\ all[i] = cmdQueue[i - Len(left)]
          BY <1>1, <2>1, <2>3, <3>2
        <4>2. cmdQueue[i - Len(left)] = Len(left) + (i - Len(left))
          BY <1>4, <2>1, <4>1 DEF Filled
        <4> QED  BY <1>1, <2>1, <4>1, <4>2
      <3> QED  BY <3>1, <3>2
    <2> HIDE DEF all
    <2>6. all = [i \in 1..Len(all) |-> all[i]]
      BY <1>3, LenProperties
    <2> QED  BY <2>4, <2>5, <2>6
  <1> QED  BY <1>3, <1>4 DEF R!CommandsInOrder, R!Queued, Growing

(* Commands are written to Redis in the order in which they were queued,     *)
(* each at most once, for any number of commands and outages; none is        *)
(* missing unless a connection was lost or believed to be.                   *)
THEOREM CommandsInOrderHolds == ServerSpec => []CommandsInOrder
  BY RedisImplemented, CmdTypingInit, CmdTypingNext, OrderInit, OrderNext,
     UncrossedInit, UncrossedNext, UndisturbedInit, UndisturbedNext, CalmInit, CalmNext,
     FilledInit, FilledNext, OrderGives, PTL DEF R!Spec
===============================================================================
