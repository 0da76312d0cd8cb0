--------------------------- MODULE ParserPool_proofs ---------------------------
(***************************************************************************)
(* Proofs about ParserPool, for any number of descriptors and parsers.     *)
(*                                                                         *)
(* The inductive invariant has three layers, each proved with the help of  *)
(* the ones before: Typing (types, and which fields are in use where),     *)
(* Exclusion (who holds a descriptor is in _processing_fds, and alone) and *)
(* Order (the positions of all messages on the way).                       *)
(***************************************************************************)
EXTENDS ParserPool, TLAPS

-----------------------------------------------------------------------------
(* What the reactor works on is a descriptor, a live one while it receives,  *)
(* and one that is gone while it clears it.                                  *)
ReactorFd == /\ reactor.at = "recv" => reactor.fd \in open
             /\ reactor.at = "clearFd" => reactor.fd \in Fds \ open

(* A parser has a descriptor from Pick to Finish. *)
Busy == {"parse", "push", "finish"}
PickedFd == \A p \in Parsers : pc[p] \in Busy <=> cur[p] # NoFd

(* A live connection has a number, and so has a message in hand. *)
Numbered ==
    /\ \A f \in open : gen[f] > 0
    /\ \A p \in Parsers : pc[p] = "push" => msg[p].gen > 0 /\ msg[p].seq > 0

Typing == TypeOK /\ ReactorFd /\ PickedFd /\ Numbered

-----------------------------------------------------------------------------
(* Waking threads only moves waiting ones back to "lock". *)
LEMMA NotifyOneWakes ==
    ASSUME TypeOK, NotifyOne
    PROVE  /\ pc' \in [Parsers -> ParserPCs]
           /\ \A p \in Parsers : pc'[p] = pc[p] \/ (pc[p] = "wait" /\ pc'[p] = "lock")
  BY DEF NotifyOne, Waiting, Woken, TypeOK, ParserPCs

LEMMA TypingInit == Init => Typing
  BY ParserPoolAssumption
  DEF Init, Typing, TypeOK, ReactorFd, PickedFd, Busy, Numbered, Idle, NoMsg, Task, ReactorPCs,
      ParserPCs

LEMMA TypingNext == Typing /\ [Next]_vars => Typing'
  <1> SUFFICES ASSUME Typing, [Next]_vars PROVE Typing'
    OBVIOUS
  <1> USE ParserPoolAssumption DEF Typing, TypeOK, ReactorFd, PickedFd, Busy, Numbered, ReactorPCs,
             ParserPCs
  <1>1. ASSUME NEW f \in Fds, HandleNewConnect(f) PROVE Typing'
    BY <1>1 DEF HandleNewConnect, Idle, poolVars, threadVars
  <1>2. ASSUME NEW f \in Fds, HandleClintData(f) PROVE Typing'
    BY <1>2 DEF HandleClintData, bufferVars, poolVars, threadVars
  <1>3. ASSUME NEW f \in Fds, CloseClint(f) PROVE Typing'
    BY <1>3 DEF CloseClint, poolVars, threadVars
  <1>4. ASSUME NEW k \in 0..MaxItems, Recv(k) PROVE Typing'
    BY <1>4 DEF Recv, poolVars, threadVars
  <1>5. CASE AddFd
    <2>1. NotifyOne \/ pc' = pc
      BY <1>5 DEF AddFd
    <2>2. /\ pc' \in [Parsers -> ParserPCs]
          /\ \A p \in Parsers : pc'[p] = pc[p] \/ (pc[p] = "wait" /\ pc'[p] = "lock")
      BY <2>1, NotifyOneWakes
    <2> QED  BY <1>5, <2>2 DEF AddFd, Idle, bufferVars
  <1>6. CASE ClearFd
    BY <1>6 DEF ClearFd, Idle, bufferVars, threadVars
  <1>7. CASE Stop
    BY <1>7 DEF Stop, bufferVars, threadVars
  <1>8. CASE StopNotify
    BY <1>8 DEF StopNotify, Woken, Waiting, bufferVars, poolVars
  <1>9. CASE Join
    BY <1>9 DEF Join, bufferVars, poolVars, threadVars
  <1>10. ASSUME NEW p \in Parsers, LockStep(p) PROVE Typing'
    <2>1. CASE NothingToDo(p)
      BY <2>1 DEF NothingToDo, bufferVars
    <2>2. CASE Pick(p)
      BY <2>2 DEF Pick, Available, bufferVars
    <2>3. CASE LeaveLoop(p)
      BY <2>3 DEF LeaveLoop, bufferVars, poolVars
    <2>4. CASE Finish(p)
      BY <2>4 DEF Finish, bufferVars
    <2> QED  BY <1>10, <2>1, <2>2, <2>3, <2>4 DEF LockStep
  <1>11. ASSUME NEW p \in Parsers, FreeStep(p) PROVE Typing'
    <2>1. CASE WhileRunning(p)
      BY <2>1 DEF WhileRunning, bufferVars, poolVars
    <2>2. CASE Block(p)
      BY <2>2 DEF Block, bufferVars
    <2>3. CASE NoMore(p)
      BY <2>3 DEF NoMore, bufferVars, poolVars
    <2>4. CASE SkipJunk(p)
      <3>1. head' \in [Fds -> 0..MaxItems]
        BY <2>4 DEF SkipJunk
      <3> QED  BY <2>4, <3>1 DEF SkipJunk, poolVars, threadVars
    <2>5. CASE Extract(p)
      <3>1. cur[p] \in open /\ head[cur[p]] \in 0..MaxItems /\ head[cur[p]] + 1 \in 1..MaxItems
        BY <2>5 DEF Extract
      <3>2. /\ head' \in [Fds -> 0..MaxItems]
            /\ msg' \in [Parsers -> [gen : 0..MaxGen, seq : 0..MaxItems]]
            /\ msg'[p].gen > 0 /\ msg'[p].seq > 0
            /\ \A q \in Parsers : q # p => msg'[q] = msg[q]
        BY <2>5, <3>1 DEF Extract, NextItem
      <3> QED  BY <2>5, <3>2 DEF Extract, poolVars
    <2>6. CASE AddTask(p)
      <3>1. InFlight(p) \in Task
        BY <2>6 DEF AddTask, InFlight, Task
      <3>2. tasks' \in Seq(Task)
        BY <2>6, <3>1 DEF AddTask
      <3>3. /\ msg' \in [Parsers -> [gen : 0..MaxGen, seq : 0..MaxItems]]
            /\ pc' = [pc EXCEPT ![p] = "parse"]
            /\ \A q \in Parsers : q # p => msg'[q] = msg[q]
            /\ UNCHANGED <<bufferVars, reactor, poolVars, cur>>
        BY <2>6 DEF AddTask, NoMsg
      <3> QED  BY <2>6, <3>2, <3>3 DEF AddTask, bufferVars, poolVars
    <2>7. CASE NotifyAll(p)
      BY <2>7 DEF NotifyAll, Woken, Waiting, bufferVars, poolVars
    <2> QED  BY <1>11, <2>1, <2>2, <2>3, <2>4, <2>5, <2>6, <2>7 DEF FreeStep, Parse
  <1>12. ASSUME NEW p \in Parsers, SpuriousWakeup(p) PROVE Typing'
    BY <1>12 DEF SpuriousWakeup, Woken, bufferVars, poolVars
  <1>13. CASE UNCHANGED vars
    BY <1>13 DEF vars, bufferVars, poolVars, threadVars
  <1> QED
    BY <1>1, <1>2, <1>3, <1>4, <1>5, <1>6, <1>7, <1>8, <1>9, <1>10, <1>11, <1>12, <1>13
    DEF Next, ReactorStep, ParserStep

(* The state of the reactor, the parsers and the buffers is always well      *)
(* formed: every index in use is a descriptor, and every task has a place.   *)
THEOREM TypeCorrect == Spec => []TypeOK
  <1>1. Typing => TypeOK
    BY DEF Typing
  <1> QED  BY <1>1, TypingInit, TypingNext, PTL DEF Spec

-----------------------------------------------------------------------------
(* A descriptor that a parser has is in _processing_fds, so that no other    *)
(* parser finds it available; that parser alone takes it out again.          *)
Exclusion == /\ \A p \in Parsers : cur[p] # NoFd => cur[p] \in processing
             /\ OneParserPerFd

LEMMA ExclusionInit == Init => Exclusion
  BY DEF Init, Exclusion, OneParserPerFd

LEMMA ExclusionNext == Typing /\ Exclusion /\ [Next]_vars => Exclusion'
  <1> SUFFICES ASSUME Typing, Exclusion, [Next]_vars PROVE Exclusion'
    OBVIOUS
  <1> USE DEF Exclusion, OneParserPerFd
  <1>1. ASSUME NEW p \in Parsers, Pick(p) PROVE Exclusion'
    BY <1>1 DEF Pick, Available, Typing, TypeOK
  <1>2. ASSUME NEW p \in Parsers, Finish(p) PROVE Exclusion'
    BY <1>2 DEF Finish, Typing, TypeOK, PickedFd, Busy
  <1>3. CASE UNCHANGED <<cur, processing>>
    BY <1>3
  <1>4. \/ UNCHANGED <<cur, processing>>
        \/ \E p \in Parsers : Pick(p) \/ Finish(p)
    BY DEF Next, ReactorStep, HandleNewConnect, HandleClintData, CloseClint, Recv, AddFd,
           ClearFd, Stop, StopNotify, Join, ParserStep, LockStep, FreeStep, NothingToDo,
           LeaveLoop, WhileRunning, Block, Parse, NoMore, SkipJunk, Extract, AddTask,
           NotifyAll, SpuriousWakeup, vars, bufferVars, poolVars, threadVars
  <1> QED  BY <1>1, <1>2, <1>3, <1>4

(* workerLoop makes sure that no two threads process the same descriptor     *)
(* (ParserPool.cpp:38), for any number of parsers.                           *)
THEOREM ExclusionHolds == Spec => []OneParserPerFd
  <1>1. Exclusion => OneParserPerFd
    BY DEF Exclusion
  <1> QED
    BY <1>1, TypingInit, TypingNext, ExclusionInit, ExclusionNext, PTL DEF Spec

-----------------------------------------------------------------------------
(* The positions already used by messages of descriptor f: no later than     *)
(* what has been taken out of its present buffer.                            *)
Used(f, g, k) == g <= gen[f] /\ (g = gen[f] => k <= head[f])

(* Connections are numbered as they come. *)
Counted == \A f \in Fds : gen[f] <= accepted

QueuedUsed == \A i \in 1..Len(tasks) : Used(tasks[i].fd, tasks[i].gen, tasks[i].seq)

(* The position of a message in hand is used too, and all those queued for   *)
(* its descriptor come before it.                                            *)
Last(p) == /\ Used(cur[p], msg[p].gen, msg[p].seq)
           /\ \A i \in 1..Len(tasks) : tasks[i].fd = cur[p] => Before(tasks[i], InFlight(p))

InHandLast == \A p \in Parsers : pc[p] = "push" => Last(p)

Order == Counted /\ QueuedUsed /\ InHandLast /\ InOrder

LEMMA OrderInit == Init => Order
  BY DEF Init, Order, Counted, QueuedUsed, InHandLast, InOrder

(* A step that pushes nothing leaves the queue as it is; then it is enough   *)
(* that used positions stay used and that whatever is extracted is the last. *)
LEMMA OrderKept ==
    ASSUME Typing, Order, Counted', tasks' = tasks,
           \A p \in Parsers : pc'[p] = "push" =>
               \/ pc[p] = "push" /\ msg'[p] = msg[p] /\ cur'[p] = cur[p]
               \/ Last(p)',
           \A f \in Fds, g \in 0..MaxGen, k \in 0..MaxItems : Used(f, g, k) => Used(f, g, k)'
    PROVE  Order'
  <1> USE DEF Typing, TypeOK
  <1>1. \A i \in 1..Len(tasks) : tasks[i] \in Task
    OBVIOUS
  <1>2. QueuedUsed'
    <2> SUFFICES ASSUME NEW i \in 1..Len(tasks)
                 PROVE  Used(tasks[i].fd, tasks[i].gen, tasks[i].seq)'
      BY DEF QueuedUsed
    <2>1. Used(tasks[i].fd, tasks[i].gen, tasks[i].seq)
      BY DEF Order, QueuedUsed
    <2>2. tasks[i] \in Task
      BY <1>1
    <2>3. tasks[i].fd \in Fds /\ tasks[i].gen \in 0..MaxGen /\ tasks[i].seq \in 0..MaxItems
      BY ONLY <2>2, ParserPoolAssumption DEF Task, ParserPoolAssumption
    <2> QED  BY ONLY <2>1, <2>3, tasks' = tasks,
                   \A f \in Fds, g \in 0..MaxGen, k \in 0..MaxItems : Used(f, g, k) => Used(f, g, k)'
             DEF Used
  <1>3. InHandLast'
    <2> SUFFICES ASSUME NEW p \in Parsers, pc[p] = "push", msg'[p] = msg[p], cur'[p] = cur[p]
                 PROVE  Last(p)'
      BY DEF InHandLast
    <2>1. cur[p] \in Fds /\ msg[p].gen \in 0..MaxGen /\ msg[p].seq \in 0..MaxItems
      BY DEF PickedFd, Busy
    <2>2. Last(p)
      BY DEF Order, InHandLast
    <2>3. Used(cur[p], msg[p].gen, msg[p].seq)'
      BY <2>1, <2>2 DEF Last, Used
    <2> QED  BY <2>2, <2>3 DEF Last, InFlight, Before
  <1>4. InOrder'
    <2>1. InOrder
      BY DEF Order
    <2> QED  BY ONLY <2>1, tasks' = tasks DEF InOrder, Before
  <1> QED  BY <1>2, <1>3, <1>4 DEF Order

LEMMA OrderNext == Typing /\ Exclusion /\ Order /\ [Next]_vars => Order'
  <1> SUFFICES ASSUME Typing, Exclusion, Order, [Next]_vars PROVE Order'
    OBVIOUS
  <1> USE DEF Typing, TypeOK
  <1>0. \A i \in 1..Len(tasks) : tasks[i] \in Task
    OBVIOUS
  <1>1. ASSUME NEW f \in Fds, HandleNewConnect(f) PROVE Order'
    <2>1. Counted'
      BY <1>1 DEF HandleNewConnect, Order, Counted
    <2>2. \A h \in Fds, g \in 0..MaxGen, k \in 0..MaxItems : Used(h, g, k) => Used(h, g, k)'
      BY <1>1 DEF HandleNewConnect, Order, Counted, Used
    <2>3. tasks' = tasks /\ UNCHANGED <<pc, msg, cur>>
      BY <1>1 DEF HandleNewConnect, threadVars
    <2> QED  BY <2>1, <2>2, <2>3, OrderKept
  <1>2. ASSUME NEW p \in Parsers, SkipJunk(p) PROVE Order'
    <2>1. Counted'
      BY <1>2 DEF SkipJunk, Order, Counted
    <2>2. \A f \in Fds, g \in 0..MaxGen, k \in 0..MaxItems : Used(f, g, k) => Used(f, g, k)'
      BY <1>2 DEF SkipJunk, Used
    <2> QED  BY <1>2, <2>1, <2>2, OrderKept DEF SkipJunk, threadVars
  <1>3. ASSUME NEW p \in Parsers, Extract(p) PROVE Order'
    <2>1. Counted'
      BY <1>3 DEF Extract, Order, Counted
    <2>2. \A f \in Fds, g \in 0..MaxGen, k \in 0..MaxItems : Used(f, g, k) => Used(f, g, k)'
      BY <1>3 DEF Extract, Used
    <2>3. /\ cur[p] \in Fds /\ cur' = cur /\ tasks' = tasks
          /\ gen' = gen /\ gen[cur[p]] \in 0..MaxGen
          /\ head[cur[p]] \in 0..MaxItems /\ head'[cur[p]] = head[cur[p]] + 1
          /\ msg'[p].gen = gen[cur[p]] /\ msg'[p].seq = head[cur[p]] + 1
      BY <1>3 DEF Extract, NextItem
    <2>4. Last(p)'
      <3>1. Used(cur[p], msg[p].gen, msg[p].seq)'
        BY <2>3 DEF Used
      <3>2. ASSUME NEW i \in 1..Len(tasks), tasks[i].fd = cur[p]
            PROVE  Before(tasks[i], InFlight(p)')
        <4>1. Used(cur[p], tasks[i].gen, tasks[i].seq)
          BY <3>2 DEF Order, QueuedUsed
        <4>2. tasks[i] \in Task
          BY <1>0
        <4>3. tasks[i].gen \in Nat /\ tasks[i].seq \in Nat
          BY ONLY <4>2, ParserPoolAssumption DEF Task
        <4> QED  BY <2>3, <4>1, <4>3 DEF Used, Before, InFlight
      <3> QED  BY <2>3, <3>1, <3>2 DEF Last, Before
    <2>5. \A q \in Parsers : pc'[q] = "push" /\ q # p
                             => pc[q] = "push" /\ msg'[q] = msg[q] /\ cur'[q] = cur[q]
      BY <1>3 DEF Extract
    <2> QED  BY <2>1, <2>2, <2>3, <2>4, <2>5, OrderKept
  <1>4. ASSUME NEW p \in Parsers, AddTask(p) PROVE Order'
    <2> DEFINE n == Len(tasks)
    <2>1. /\ tasks' = Append(tasks, InFlight(p)) /\ InFlight(p).fd = cur[p]
          /\ UNCHANGED <<gen, head, accepted, cur>>
          /\ pc[p] = "push" /\ pc'[p] = "parse"
          /\ \A q \in Parsers : q # p => pc'[q] = pc[q] /\ msg'[q] = msg[q]
      BY <1>4 DEF AddTask, bufferVars, InFlight
    <2>2. Last(p)
      BY <2>1 DEF Order, InHandLast
    <2>3. /\ Len(tasks') = n + 1 /\ tasks'[n + 1] = InFlight(p) /\ n \in Nat
          /\ \A i \in 1..n : tasks'[i] = tasks[i]
      BY <2>1
    <2>4. QueuedUsed'
      <3>1. \A i \in 1..n : Used(tasks[i].fd, tasks[i].gen, tasks[i].seq)
        BY DEF Order, QueuedUsed
      <3>2. Used(InFlight(p).fd, InFlight(p).gen, InFlight(p).seq)
        BY <2>2 DEF Last, InFlight
      <3> QED  BY <2>1, <2>3, <3>1, <3>2 DEF QueuedUsed, Used
    <2>5. InHandLast'
      <3> SUFFICES ASSUME NEW q \in Parsers, pc'[q] = "push" PROVE Last(q)'
        BY DEF InHandLast
      <3>1. q # p /\ cur[q] # NoFd /\ Last(q)
        BY <2>1 DEF Order, InHandLast, PickedFd, Busy
      <3>2. cur[q] # cur[p]
        BY <3>1 DEF Exclusion, OneParserPerFd
      <3> QED  BY <2>1, <2>3, <3>1, <3>2 DEF Last, Used, InFlight, Before
    <2>6. InOrder'
      <3> SUFFICES ASSUME NEW i \in 1..(n + 1), NEW j \in 1..(n + 1), i < j,
                          tasks'[i].fd = tasks'[j].fd
                   PROVE  Before(tasks'[i], tasks'[j])
        BY <2>3 DEF InOrder, Before
      <3>1. n \in Nat /\ i \in 1..n /\ (j \in 1..n \/ j = n + 1)
        BY ONLY <2>3, i \in 1..(n + 1), j \in 1..(n + 1), i < j
      <3>2. CASE j \in 1..n
        <4>1. tasks'[i] = tasks[i] /\ tasks'[j] = tasks[j]
          BY <2>3, <3>1, <3>2
        <4> QED  BY <3>1, <3>2, <4>1 DEF Order, InOrder
      <3>3. CASE j = n + 1
        <4>1. tasks'[i] = tasks[i] /\ tasks'[j] = InFlight(p)
          BY <2>3, <3>1, <3>3
        <4> QED  BY <2>1, <2>2, <3>1, <4>1 DEF Last
      <3> QED  BY <3>1, <3>2, <3>3
    <2> QED  BY <2>1, <2>4, <2>5, <2>6 DEF Order, Counted
  <1>5. CASE /\ UNCHANGED <<accepted, gen, head, tasks, msg>>
             /\ \A p \in Parsers : pc'[p] = "push" => pc[p] = "push" /\ cur'[p] = cur[p]
    <2>1. Counted'
      BY <1>5 DEF Order, Counted
    <2>2. \A f \in Fds, g \in 0..MaxGen, k \in 0..MaxItems : Used(f, g, k) => Used(f, g, k)'
      BY <1>5 DEF Used
    <2> QED  BY <1>5, <2>1, <2>2, OrderKept
  <1>6. CASE AddFd
    <2>1. NotifyOne \/ pc' = pc
      BY <1>6 DEF AddFd
    <2>2. \A p \in Parsers : pc'[p] = pc[p] \/ pc'[p] = "lock"
      BY <2>1, NotifyOneWakes
    <2> QED  BY <1>5, <1>6, <2>2 DEF AddFd, bufferVars
  <1>7. CASE StopNotify \/ (\E p \in Parsers : NotifyAll(p) \/ SpuriousWakeup(p))
    BY <1>5, <1>7 DEF StopNotify, NotifyAll, SpuriousWakeup, Woken, bufferVars
  <1>8. ASSUME NEW p \in Parsers, LockStep(p) \/ WhileRunning(p) \/ Block(p) \/ NoMore(p)
        PROVE  Order'
    BY <1>5, <1>8 DEF LockStep, NothingToDo, Pick, LeaveLoop, Finish, WhileRunning, Block,
                      NoMore, bufferVars
  <1>9. CASE \/ \E f \in Fds : HandleClintData(f) \/ CloseClint(f)
             \/ \E k \in 0..MaxItems : Recv(k)
             \/ ClearFd \/ Stop \/ Join \/ UNCHANGED vars
    BY <1>5, <1>9 DEF HandleClintData, CloseClint, Recv, ClearFd, Stop, Join, vars, bufferVars,
                      threadVars
  <1> QED
    BY <1>1, <1>2, <1>3, <1>4, <1>6, <1>7, <1>8, <1>9
    DEF Next, ReactorStep, ParserStep, LockStep, FreeStep, Parse

(* Messages of a descriptor reach the worker queue in the order received,    *)
(* each once, and those of an earlier connection on it first, for any number *)
(* of parsers, descriptors, connections and messages.                        *)
THEOREM InOrderHolds == Spec => []InOrder
  <1>1. Order => InOrder
    BY DEF Order
  <1> QED
    BY <1>1, TypingInit, TypingNext, ExclusionInit, ExclusionNext, OrderInit, OrderNext, PTL
    DEF Spec

-----------------------------------------------------------------------------
(* Nothing is lost between buffer and queue.                                 *)

(* What has become of item k of the connection on f. *)
Accounted(f, k) ==
    LET t == [fd |-> f, gen |-> gen[f], seq |-> k]
    IN  IsJunk(f, k) \/ Pushed(t) \/ \E p \in Pushing : InFlight(p) = t

LEMMA NothingLostNext == Typing /\ NothingLost /\ [Next]_vars => NothingLost'
  <1> SUFFICES ASSUME Typing, NothingLost, [Next]_vars PROVE NothingLost'
    OBVIOUS
  <1> USE DEF Typing, TypeOK
  <1>1. SUFFICES ASSUME NEW f \in open', NEW k \in 1..head'[f] PROVE Accounted(f, k)'
    BY DEF NothingLost, Accounted
  <1>2. f \in Fds
    BY TypingNext
  (* Whatever is pushed or in hand stays so until it is pushed. *)
  <1>3. ASSUME f \in open, k \in 1..head[f], gen'[f] = gen[f], tasks' = tasks,
               \A p \in Parsers : pc[p] = "push" =>
                   pc'[p] = "push" /\ msg'[p] = msg[p] /\ cur'[p] = cur[p]
        PROVE  Accounted(f, k)'
    <2> DEFINE t == [fd |-> f, gen |-> gen[f], seq |-> k]
    <2>1. Accounted(f, k)
      BY <1>3 DEF NothingLost, Accounted
    <2>2. CASE IsJunk(f, k)
      BY <1>3, <2>2 DEF Accounted, IsJunk
    <2>3. CASE Pushed(t)
      BY <1>3, <2>3 DEF Accounted, Pushed
    <2>4. ASSUME NEW p \in Pushing, InFlight(p) = t PROVE Accounted(f, k)'
      <3>1. p \in Pushing' /\ InFlight(p)' = InFlight(p)
        BY <1>3 DEF Pushing, InFlight
      <3> QED  BY <1>3, <2>4, <3>1 DEF Accounted
    <2> QED  BY <2>1, <2>2, <2>3, <2>4 DEF Accounted
  <1>4. ASSUME NEW h \in Fds, HandleNewConnect(h) PROVE Accounted(f, k)'
    <2>1. f # h
      BY <1>2, <1>4 DEF HandleNewConnect
    <2>2. gen'[f] = gen[f] /\ f \in open /\ k \in 1..head[f]
      BY <1>2, <1>4, <2>1 DEF HandleNewConnect
    <2>3. tasks' = tasks /\ UNCHANGED <<pc, msg, cur>>
      BY <1>4 DEF HandleNewConnect, threadVars
    <2> QED  BY <1>3, <2>2, <2>3
  <1>5. ASSUME NEW p \in Parsers, SkipJunk(p) PROVE Accounted(f, k)'
    <2>1. CASE f = cur[p] /\ k = head[f] + 1
      BY <1>5, <2>1 DEF SkipJunk, Accounted, IsJunk, NextItem
    <2>2. CASE f # cur[p] \/ k # head[f] + 1
      <3>1. f \in open /\ k \in 1..head[f]
        BY <1>2, <1>5, <2>2 DEF SkipJunk
      <3> QED  BY <1>3, <1>5, <3>1 DEF SkipJunk, threadVars
    <2> QED  BY <2>1, <2>2
  <1>6. ASSUME NEW p \in Parsers, Extract(p) PROVE Accounted(f, k)'
    <2>1. CASE f = cur[p] /\ k = head[f] + 1
      <3>1. p \in Pushing' /\ InFlight(p)' = [fd |-> f, gen |-> gen'[f], seq |-> k]
        BY <1>6, <2>1 DEF Extract, Pushing, InFlight, NextItem
      <3> QED  BY <3>1 DEF Accounted
    <2>2. CASE f # cur[p] \/ k # head[f] + 1
      <3>1. f \in open /\ k \in 1..head[f]
        BY <1>2, <1>6, <2>2 DEF Extract
      <3> QED  BY <1>3, <1>6, <3>1 DEF Extract
    <2> QED  BY <2>1, <2>2
  <1>7. ASSUME NEW p \in Parsers, AddTask(p) PROVE Accounted(f, k)'
    <2> DEFINE t == [fd |-> f, gen |-> gen[f], seq |-> k]
    <2>1. Accounted(f, k)
      BY <1>7 DEF AddTask, bufferVars, NothingLost, Accounted
    <2>2. /\ gen' = gen /\ tasks' = Append(tasks, InFlight(p)) /\ cur' = cur
          /\ \A q \in Parsers : q # p => pc'[q] = pc[q] /\ msg'[q] = msg[q]
      BY <1>7 DEF AddTask, bufferVars
    <2>3. /\ \A i \in 1..Len(tasks) : i \in 1..Len(tasks') /\ tasks'[i] = tasks[i]
          /\ Len(tasks') \in 1..Len(tasks') /\ tasks'[Len(tasks')] = InFlight(p)
      BY <2>2
    <2>4. CASE IsJunk(f, k)
      BY <2>2, <2>4 DEF Accounted, IsJunk
    <2>5. CASE Pushed(t)
      BY <2>2, <2>3, <2>5 DEF Accounted, Pushed
    <2>6. ASSUME NEW q \in Pushing, InFlight(q) = t PROVE Accounted(f, k)'
      <3>1. CASE q = p
        BY <2>2, <2>3, <2>6, <3>1 DEF Accounted, Pushed
      <3>2. CASE q # p
        BY <2>2, <2>6, <3>2 DEF Accounted, Pushing, InFlight
      <3> QED  BY <3>1, <3>2
    <2> QED  BY <2>1, <2>4, <2>5, <2>6 DEF Accounted
  <1>8. CASE AddFd
    <2>1. NotifyOne \/ pc' = pc
      BY <1>8 DEF AddFd
    <2>2. \A p \in Parsers : pc'[p] = pc[p] \/ (pc[p] = "wait" /\ pc'[p] = "lock")
      BY <2>1, NotifyOneWakes
    <2> QED  BY <1>3, <1>8, <2>2 DEF AddFd, bufferVars
  <1>9. CASE StopNotify \/ (\E p \in Parsers : NotifyAll(p) \/ SpuriousWakeup(p))
    BY <1>3, <1>9 DEF StopNotify, NotifyAll, SpuriousWakeup, Woken, Waiting, bufferVars
  <1>10. ASSUME NEW p \in Parsers, LockStep(p) \/ WhileRunning(p) \/ Block(p) \/ NoMore(p)
         PROVE  Accounted(f, k)'
    BY <1>3, <1>10 DEF LockStep, NothingToDo, Pick, LeaveLoop, Finish, WhileRunning, Block,
                       NoMore, bufferVars
  <1>11. CASE \/ \E h \in Fds : HandleClintData(h) \/ CloseClint(h)
              \/ \E j \in 0..MaxItems : Recv(j)
              \/ ClearFd \/ Stop \/ Join \/ UNCHANGED vars
    BY <1>3, <1>11 DEF HandleClintData, CloseClint, Recv, ClearFd, Stop, Join, vars,
                       bufferVars, threadVars
  <1> QED
    BY <1>4, <1>5, <1>6, <1>7, <1>8, <1>9, <1>10, <1>11
    DEF Next, ReactorStep, ParserStep, LockStep, FreeStep, Parse

(* Every message taken out of the buffer of a live connection is queued for  *)
(* the workers, or a parser is about to queue it.                            *)
THEOREM NothingIsLost == Spec => []NothingLost
  <1>1. Init => NothingLost
    BY DEF Init, NothingLost
  <1> QED  BY <1>1, TypingInit, TypingNext, NothingLostNext, PTL DEF Spec

-----------------------------------------------------------------------------
(* No data is left behind.                                                   *)

(* Somebody will look at f again. *)
Watched(f) == \/ f \in pending
              \/ \E p \in Parsers : cur[p] = f /\ pc[p] \in {"parse", "push"}
              \/ reactor = [at |-> "recv", fd |-> f]

LEMMA NoStrandedDataNext == Typing /\ NoStrandedData /\ [Next]_vars => NoStrandedData'
  <1> SUFFICES ASSUME Typing, NoStrandedData, [Next]_vars,
                      NEW f \in open', head'[f] < tail'[f]
               PROVE  Watched(f)'
    BY DEF NoStrandedData, Watched
  <1> USE DEF Typing, TypeOK
  <1>1. f \in Fds
    BY TypingNext
  (* A parser stays with its descriptor except for NoMore. *)
  <1>2. ASSUME f \in open, head[f] < tail[f], f \in pending => f \in pending',
               reactor' = reactor \/ reactor.at # "recv" \/ reactor.fd # f,
               \A p \in Parsers : pc[p] \in {"parse", "push"} =>
                   cur'[p] = cur[p] /\ pc'[p] \in {"parse", "push"}
        PROVE  Watched(f)'
    <2>1. Watched(f)
      BY <1>2 DEF NoStrandedData, Watched
    <2>2. CASE f \in pending
      BY <1>2, <2>2 DEF Watched
    <2>3. ASSUME NEW p \in Parsers, cur[p] = f, pc[p] \in {"parse", "push"}
          PROVE  Watched(f)'
      <3>1. cur'[p] = f /\ pc'[p] \in {"parse", "push"}
        BY <1>2, <2>3
      <3> QED  BY <3>1 DEF Watched
    <2>4. CASE reactor = [at |-> "recv", fd |-> f]
      <3>1. reactor.at = "recv" /\ reactor.fd = f
        BY <2>4
      <3>2. reactor' = reactor
        BY <1>2, <3>1
      <3> QED  BY <2>4, <3>2 DEF Watched
    <2> QED  BY <2>1, <2>2, <2>3, <2>4 DEF Watched
  <1>3. ASSUME NEW h \in Fds, HandleNewConnect(h) PROVE Watched(f)'
    <2>1. f # h
      BY <1>1, <1>3 DEF HandleNewConnect
    <2>2. /\ f \in open /\ head[f] < tail[f]
          /\ UNCHANGED <<pending, reactor, pc, cur>>
      BY <1>1, <1>3, <2>1 DEF HandleNewConnect, poolVars, threadVars
    <2> QED  BY <1>2, <2>2
  <1>4. ASSUME NEW h \in Fds, HandleClintData(h) \/ CloseClint(h) PROVE Watched(f)'
    BY <1>2, <1>4 DEF HandleClintData, CloseClint, Idle, bufferVars, poolVars, threadVars
  <1>5. ASSUME NEW k \in 0..MaxItems, Recv(k) PROVE Watched(f)'
    <2>1. CASE reactor.fd = f
      BY <1>5, <2>1 DEF Recv, Watched
    <2>2. CASE reactor.fd # f
      BY <1>1, <1>2, <1>5, <2>2 DEF Recv, poolVars, threadVars
    <2> QED  BY <2>1, <2>2
  <1>6. CASE AddFd
    <2>1. CASE reactor.fd = f
      BY <1>6, <2>1 DEF AddFd, Watched
    <2>2. CASE reactor.fd # f
      <3>1. NotifyOne \/ pc' = pc
        BY <1>6 DEF AddFd
      <3>2. \A p \in Parsers : pc'[p] = pc[p] \/ (pc[p] = "wait" /\ pc'[p] = "lock")
        BY <3>1, NotifyOneWakes
      <3> QED  BY <1>2, <1>6, <2>2, <3>2 DEF AddFd, bufferVars
    <2> QED  BY <2>1, <2>2
  <1>7. CASE ClearFd
    BY <1>2, <1>7 DEF ClearFd, ReactorFd, Idle, bufferVars, threadVars
  <1>8. CASE Stop \/ StopNotify \/ Join
    BY <1>2, <1>8 DEF Stop, StopNotify, Join, Idle, Woken, Waiting, bufferVars, poolVars,
                      threadVars
  <1>9. ASSUME NEW p \in Parsers, Pick(p) PROVE Watched(f)'
    <2>1. CASE cur'[p] = f
      BY <1>9, <2>1 DEF Pick, Watched
    <2>2. CASE cur'[p] # f
      BY <1>2, <1>9, <2>2 DEF Pick, bufferVars
    <2> QED  BY <2>1, <2>2
  <1>10. ASSUME NEW p \in Parsers, NoMore(p) PROVE Watched(f)'
    <2>1. cur[p] # f
      BY <1>10 DEF NoMore, bufferVars
    <2>2. Watched(f)
      BY <1>10 DEF NoMore, bufferVars, NoStrandedData, Watched
    <2> QED  BY <1>10, <2>1, <2>2 DEF NoMore, poolVars, Watched
  <1>11. ASSUME NEW p \in Parsers, SkipJunk(p) \/ Extract(p) PROVE Watched(f)'
    <2>1. f \in open /\ head[f] < tail[f]
      BY <1>1, <1>11 DEF SkipJunk, Extract
    <2> QED  BY <1>2, <1>11, <2>1 DEF SkipJunk, Extract, poolVars, threadVars
  <1>12. ASSUME NEW p \in Parsers,
                \/ NothingToDo(p) \/ LeaveLoop(p) \/ Finish(p) \/ WhileRunning(p) \/ Block(p)
                \/ AddTask(p) \/ NotifyAll(p) \/ SpuriousWakeup(p)
         PROVE  Watched(f)'
    BY <1>2, <1>12 DEF NothingToDo, LeaveLoop, Finish, WhileRunning, Block, AddTask, NotifyAll,
                       SpuriousWakeup, Woken, Waiting, bufferVars, poolVars
  <1>13. CASE UNCHANGED vars
    BY <1>2, <1>13 DEF vars, bufferVars, poolVars, threadVars
  <1> QED
    BY <1>3, <1>4, <1>5, <1>6, <1>7, <1>8, <1>9, <1>10, <1>11, <1>12, <1>13
    DEF Next, ReactorStep, ParserStep, LockStep, FreeStep, Parse

(* Data that arrives while its descriptor is being parsed, or between the    *)
(* last look of a parser and its end, is never left behind: the descriptor   *)
(* is pending, or a parser is still in processBuffer for it.                 *)
THEOREM NoDataIsStranded == Spec => []NoStrandedData
  <1>1. Init => NoStrandedData
    BY DEF Init, NoStrandedData
  <1> QED  BY <1>1, TypingInit, TypingNext, NoStrandedDataNext, PTL DEF Spec
===============================================================================
