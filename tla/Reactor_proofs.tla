----------------------------- MODULE Reactor_proofs -----------------------------
(***************************************************************************)
(* Proofs about the main thread's loop (EventLoop) and about the bytes of  *)
(* one connection on their way through it (RingBuffer, with the senders of *)
(* SendMessage).  The two modules share no state.                          *)
(*                                                                         *)
(* First the loop, for any number of clients and descriptors, any batch    *)
(* and any number of descriptors that other threads open and close.  Then  *)
(* the ring, for any size of a byte, a message, the ring and a chunk, a    *)
(* length field of two digits, and any number of threads that write to the *)
(* socket: its steps are steps of FrameStream, the stream of whole         *)
(* messages that it implements.                                            *)
(***************************************************************************)
EXTENDS EventLoop, RingBuffer, WellFoundedInduction, SequenceTheorems, TLAPS

-----------------------------------------------------------------------------
(* The event loop.                                                           *)

(* Events about clients are about descriptors; who waits has no descriptor   *)
(* yet, nor has left.                                                        *)
Typing ==
    /\ TypeOK
    /\ \A e \in batch : e.on = "client" => e.fd \in Fds
    /\ waiting \cap (Connected \cup gone) = {}

(* Until a close overtakes something that is still to be handled: an event   *)
(* is the only one about its descriptor and tells the truth, as this is a    *)
(* client's and has been left if the event says so; and a number in a q or a *)
(* "bye" is still that of the client that said q.                            *)
Truthful ==
    ~overtaken =>
        /\ harmed = {}
        /\ \A e \in batch : e.on = "client" =>
              /\ owner[e.fd] \in Clients
              /\ e.hup => owner[e.fd] \in gone
              /\ \A d \in batch : d.on = "client" /\ d.fd = e.fd => d = e
        /\ \A d \in doomed \cup quits : owner[d.fd] = d.who

-----------------------------------------------------------------------------
(* The kernel's lowest free number is a free number. *)
LEMMA LowestUnused ==
  ASSUME Unused # {} PROVE Lowest(Unused) \in Fds /\ owner[Lowest(Unused)] = Free
  <1>1. Unused \in SUBSET Nat
    BY EventLoopAssumption DEF Unused
  <1>2. PICK f \in Unused : \A g \in Unused : <<g, f>> \notin OpToRel(<, Nat)
    BY <1>1, WFMin, NatLessThanWellFounded
  <1>3. ASSUME NEW g \in Nat, NEW h \in Nat, g < h PROVE <<g, h>> \in OpToRel(<, Nat)
    BY <1>3 DEF OpToRel
  <1>4. \A g \in Unused : f <= g
    <2> SUFFICES ASSUME NEW g \in Unused, ~(f <= g) PROVE FALSE
      OBVIOUS
    <2>1. f \in Nat /\ g \in Nat /\ g < f
      BY <1>1
    <2> QED  BY <2>1, <1>2, <1>3
  <1>5. Lowest(Unused) \in Unused
    BY <1>4 DEF Lowest
  <1> QED  BY <1>5 DEF Unused

(* A free descriptor is given to o. *)
LEMMA Opened ==
  ASSUME Unused # {}, owner \in [Fds -> Clients \cup {Free, Other}],
         NEW o \in Clients \cup {Other}, owner' = [owner EXCEPT ![Lowest(Unused)] = o]
  PROVE  \E f \in Fds : /\ f = Lowest(Unused) /\ owner[f] = Free /\ owner'[f] = o
                        /\ \A g \in Fds : g # f => owner'[g] = owner[g]
                        /\ owner' \in [Fds -> Clients \cup {Free, Other}]
  BY LowestUnused

(* What close_clint does to the descriptor it is called with. *)
LEMMA Closed ==
  ASSUME Typing, NEW f \in Fds, NEW bufs, NEW causes, CloseClint(f, bufs, causes)
  PROVE  /\ owner' \in [Fds -> Clients \cup {Free, Other}]
         /\ \A g \in Fds : g # f => owner'[g] = owner[g]
         /\ buffers' = bufs \ {f}
         /\ harmed \subseteq harmed'
         /\ owner[f] \in causes \cup {Free} => harmed' = harmed
         /\ \/ f \in bufs /\ owner'[f] = Free /\ overtaken' = (overtaken \/ Expected(f)')
            \/ f \notin bufs /\ UNCHANGED <<owner, harmed, overtaken>>
  BY DEF CloseClint, Typing, TypeOK

(* What handling an event about a client does. *)
LEMMA Handled ==
  ASSUME Typing, NEW e \in batch, HandleClient(e) \/ HandleOverflow(e)
  PROVE  /\ e.fd \in Fds /\ e.on = "client" /\ batch' = batch \ {e}
         /\ owner' \in [Fds -> Clients \cup {Free, Other}]
         /\ \A g \in Fds : g # e.fd => owner'[g] = owner[g]
         /\ harmed \subseteq harmed'
         /\ \/ /\ buffers' = buffers \ {e.fd} /\ owner'[e.fd] = Free
               /\ overtaken' = (overtaken \/ Expected(e.fd)')
               /\ harmed' = harmed \/ (e.hup /\ owner[e.fd] \notin gone)
            \/ /\ buffers' = buffers \cup {e.fd} /\ UNCHANGED <<owner, overtaken>>
               /\ harmed' = IF owner[e.fd] = Other THEN harmed \cup {Other} ELSE harmed
               /\ owner[e.fd] \notin gone \cup {Free}
         /\ unread' = unread \ {owner[e.fd]}
         /\ UNCHANGED <<waiting, edge, gone, tick, quits, doomed, wake, loop, stop, ends, refused>>
  <1> DEFINE bufs == buffers \cup {e.fd}
  <1>1. e.fd \in Fds /\ e.on = "client"
    BY DEF HandleClient, HandleOverflow, ClientEvent, Typing, TypeOK
  <1>2. ASSUME NEW causes, ClientEvent(e, TRUE, causes),
               owner[e.fd] \in causes \cup {Free} \/ (e.hup /\ owner[e.fd] \notin gone)
        PROVE  /\ batch' = batch \ {e} /\ owner' \in [Fds -> Clients \cup {Free, Other}]
               /\ \A g \in Fds : g # e.fd => owner'[g] = owner[g]
               /\ harmed \subseteq harmed'
               /\ buffers' = buffers \ {e.fd} /\ owner'[e.fd] = Free
               /\ overtaken' = (overtaken \/ Expected(e.fd)')
               /\ harmed' = harmed \/ (e.hup /\ owner[e.fd] \notin gone)
               /\ unread' = unread \ {owner[e.fd]}
               /\ UNCHANGED <<waiting, edge, gone, tick, quits, doomed, wake, loop, stop, ends,
                              refused>>
    <2>1. CloseClint(e.fd, bufs, causes)
      BY <1>2 DEF ClientEvent
    <2>2. /\ buffers' = bufs \ {e.fd} /\ owner'[e.fd] = Free
          /\ owner' \in [Fds -> Clients \cup {Free, Other}]
          /\ \A g \in Fds : g # e.fd => owner'[g] = owner[g]
          /\ harmed \subseteq harmed' /\ overtaken' = (overtaken \/ Expected(e.fd)')
          /\ owner[e.fd] \in causes \cup {Free} => harmed' = harmed
      <3> HIDE DEF bufs
      <3>1. e.fd \in bufs
        BY DEF bufs
      <3> QED  BY <1>1, <2>1, <3>1, Closed
    <2>3. buffers' = buffers \ {e.fd}
      BY <2>2
    <2> QED  BY <1>2, <2>2, <2>3 DEF ClientEvent
  <1>3. CASE HandleClient(e) /\ (EndOfFile(e) \/ BadFd(e) \/ e.hup)
    <2>1. ClientEvent(e, TRUE, gone)
      BY <1>3 DEF HandleClient, ClientEvent
    <2> QED  BY <1>1, <1>2, <1>3, <2>1 DEF EndOfFile, BadFd
  <1>4. CASE HandleClient(e) /\ ~(EndOfFile(e) \/ BadFd(e) \/ e.hup)
    BY <1>1, <1>4 DEF HandleClient, ClientEvent, EndOfFile, BadFd, Typing, TypeOK
  <1>5. CASE HandleOverflow(e)
    BY <1>1, <1>2, <1>5 DEF HandleOverflow
  <1> QED  BY <1>3, <1>4, <1>5

(* What closing a doomed or an expired number does. *)
LEMMA Ended ==
  ASSUME Typing, NEW f \in Fds,
         (\E d \in doomed : d.fd = f /\ CloseDoomed(d)) \/ CloseExpired(f)
  PROVE  /\ owner' \in [Fds -> Clients \cup {Free, Other}]
         /\ \A g \in Fds : g # f => owner'[g] = owner[g]
         /\ buffers' = buffers \ {f} /\ harmed \subseteq harmed'
         /\ \/ f \in buffers /\ owner'[f] = Free /\ overtaken' = (overtaken \/ Expected(f)')
            \/ f \notin buffers /\ UNCHANGED <<owner, harmed, overtaken>>
         /\ doomed' \subseteq doomed
         /\ UNCHANGED <<waiting, edge, unread, gone, tick, quits, wake, batch, loop, stop, ends,
                        refused>>
  <1>1. PICK causes : CloseClint(f, buffers, causes)
    BY DEF CloseDoomed, CloseExpired
  <1>2. /\ doomed' \subseteq doomed
        /\ UNCHANGED <<waiting, edge, unread, gone, tick, quits, wake, batch, loop, stop, ends,
                       refused>>
    BY DEF CloseDoomed, CloseExpired
  <1> QED  BY <1>1, <1>2, Closed

-----------------------------------------------------------------------------
LEMMA TypingInit == Init => Typing
  <1> SUFFICES ASSUME Init PROVE Typing
    OBVIOUS
  <1>1. TypeOK
    BY EventLoopAssumption DEF Init, TypeOK
  <1> QED  BY <1>1 DEF Init, Typing

(* A step that frees descriptors, or none, keeps the table one of types. *)
LEMMA FreesOnly ==
  ASSUME Typing, owner' \in [Fds -> Clients \cup {Free, Other}],
         \A f \in Fds : owner'[f] \in {owner[f], Free}
  PROVE  /\ \A f, g \in Fds : f # g /\ owner'[f] \in Clients => owner'[f] # owner'[g]
         /\ Connected' \subseteq Connected
  BY EventLoopAssumption DEF Typing, TypeOK, Connected

LEMMA TypingNext == Typing /\ [Next]_vars => Typing'
  <1> SUFFICES ASSUME Typing, [Next]_vars PROVE Typing'
    OBVIOUS
  <1>0. owner \in [Fds -> Clients \cup {Free, Other}]
    BY DEF Typing, TypeOK
  <1>1. ASSUME NEW c \in Clients, Connect(c) \/ ClientSends(c) \/ Leave(c) PROVE Typing'
    <2>1. /\ waiting' \subseteq Clients /\ unread' \subseteq Clients /\ gone' \subseteq Clients
          /\ edge' \in BOOLEAN /\ Connected' = Connected
          /\ waiting' \cap (Connected' \cup gone') = {}
          /\ UNCHANGED <<owner, tick, reactor>>
      <3>1. CASE Connect(c)
        BY <3>1 DEF Connect, Typing, TypeOK, Connected, reactor
      <3>2. CASE ClientSends(c) \/ Leave(c)
        BY <3>2 DEF ClientSends, Leave, Typing, TypeOK, Connected, reactor
      <3> QED  BY <1>1, <3>1, <3>2
    <2> QED  BY <2>1 DEF Typing, TypeOK, reactor, ghosts
  <1>2. CASE (\E f \in Fds : Quit(f)) \/ (\E q \in quits : Doom(q)) \/ TimerFires
    <2>1. ASSUME NEW f \in Fds, Quit(f) PROVE Typing'
      BY <2>1 DEF Quit, Typing, TypeOK, Connected, kernel, ghosts
    <2>2. ASSUME NEW q \in quits, Doom(q) PROVE Typing'
      BY <2>2 DEF Doom, Typing, TypeOK, Connected, kernel, ghosts
    <2>3. CASE TimerFires
      BY <2>3 DEF TimerFires, Typing, TypeOK, Connected, ghosts
    <2> QED  BY <1>2, <2>1, <2>2, <2>3
  <1>3. ASSUME NEW f \in Fds, OtherCloses(f) PROVE Typing'
    <2>1. /\ owner' \in [Fds -> Clients \cup {Free, Other}]
          /\ \A g \in Fds : owner'[g] \in {owner[g], Free}
      BY <1>0, <1>3 DEF OtherCloses
    <2> QED  BY <1>3, <2>1, FreesOnly DEF OtherCloses, Typing, TypeOK, reactor, ghosts
  <1>4. CASE OtherOpens
    <2>1. PICK f \in Fds : /\ owner[f] = Free /\ owner'[f] = Other
                           /\ \A g \in Fds : g # f => owner'[g] = owner[g]
                           /\ owner' \in [Fds -> Clients \cup {Free, Other}]
      BY <1>0, <1>4, Opened DEF OtherOpens
    <2>2. /\ \A h, g \in Fds : h # g /\ owner'[h] \in Clients => owner'[h] # owner'[g]
          /\ Connected' = Connected
      BY <2>1, EventLoopAssumption DEF Typing, TypeOK, Connected
    <2> QED  BY <1>4, <2>1, <2>2 DEF OtherOpens, Typing, TypeOK, reactor, ghosts
  <1>5. ASSUME NEW c \in Clients, Accept(c) PROVE Typing'
    <2>1. PICK f \in Fds : /\ owner[f] = Free /\ owner'[f] = c /\ f = Lowest(Unused)
                           /\ \A g \in Fds : g # f => owner'[g] = owner[g]
                           /\ owner' \in [Fds -> Clients \cup {Free, Other}]
      BY <1>0, <1>5, Opened DEF Accept
    <2>2. c \notin Connected /\ c \notin gone
      BY <1>5 DEF Accept, Typing
    <2>3. \A h, g \in Fds : h # g /\ owner'[h] \in Clients => owner'[h] # owner'[g]
      BY <2>1, <2>2, EventLoopAssumption DEF Typing, TypeOK, Connected
    <2>4. Connected' \subseteq Connected \cup {c}
      BY <2>1 DEF Connected
    <2> QED  BY <1>5, <2>1, <2>2, <2>3, <2>4 DEF Accept, Typing, TypeOK, ghosts
  <1>6. CASE \/ Sigint \/ BatchDone \/ HandleListen \/ AcceptEnds \/ HandleWake \/ DoomEnds
             \/ HandleTimer \/ CheckEnds
    BY <1>6 DEF Sigint, BatchDone, HandleListen, AcceptEnds, HandleWake, DoomEnds, HandleTimer,
                CheckEnds, TakeEvent, Typing, TypeOK, Connected, kernel, ghosts
  <1>7. CASE EpollWait
    <2>1. \A e \in batch' : e.on = "client" => e.fd \in Fds
      BY <1>7 DEF EpollWait, Ready, Event
    <2> QED  BY <1>7, <2>1 DEF EpollWait, Typing, TypeOK, Connected, ghosts
  <1>8. ASSUME NEW f \in Fds, (\E d \in doomed : d.fd = f /\ CloseDoomed(d)) \/ CloseExpired(f)
        PROVE  Typing'
    <2>1. /\ owner' \in [Fds -> Clients \cup {Free, Other}]
          /\ \A g \in Fds : owner'[g] \in {owner[g], Free}
      BY <1>0, <1>8, Ended
    <2>2. overtaken' \in BOOLEAN
      BY <1>8, Ended DEF Typing, TypeOK
    <2> QED  BY <1>8, <2>1, <2>2, FreesOnly, Ended DEF Typing, TypeOK
  <1>9. ASSUME NEW e \in batch, HandleClient(e) \/ HandleOverflow(e) PROVE Typing'
    <2>1. /\ owner' \in [Fds -> Clients \cup {Free, Other}]
          /\ \A g \in Fds : owner'[g] \in {owner[g], Free}
      BY <1>0, <1>9, Handled
    <2>2. overtaken' \in BOOLEAN
      BY <1>9, Handled DEF Typing, TypeOK
    <2> QED  BY <1>9, <2>1, <2>2, FreesOnly, Handled DEF Typing, TypeOK
  <1>10. ASSUME NEW c \in Clients, NoUnblocking(c) \/ NoEpoll(c) PROVE Typing'
    BY <1>10 DEF NoUnblocking, NoEpoll, Rejected, Typing, TypeOK, Connected
  <1>11. \A d \in doomed : d.fd \in Fds
    BY DEF Typing, TypeOK
  <1>12. buffers \subseteq Fds
    BY DEF Typing, TypeOK
  <1>13. CASE UNCHANGED vars
    BY <1>13 DEF vars, kernel, reactor, ghosts, Typing, TypeOK, Connected
  <1> QED
    BY <1>1, <1>2, <1>3, <1>4, <1>5, <1>6, <1>7, <1>8, <1>9, <1>10, <1>11, <1>12, <1>13
    DEF Next, Reactor

(* The descriptor table is a table: no client is at two numbers, whatever    *)
(* closes and opens within a batch.                                          *)
THEOREM TypeCorrect == Spec => []TypeOK
  <1>1. Typing => TypeOK
    BY DEF Typing
  <1> QED  BY <1>1, TypingInit, TypingNext, PTL DEF Spec

-----------------------------------------------------------------------------
LEMMA BuffersNext ==
  Typing /\ BuffersAreConnections /\ [Next]_vars => BuffersAreConnections'
  <1> SUFFICES ASSUME Typing, BuffersAreConnections, [Next]_vars, Other \notin harmed'
               PROVE  buffers' = {f \in Fds : owner'[f] \in Clients}
    BY DEF BuffersAreConnections
  <1>0. /\ owner \in [Fds -> Clients \cup {Free, Other}] /\ buffers \subseteq Fds
        /\ gone \subseteq Clients /\ Free \notin Clients /\ Other \notin Clients
        /\ Free # Other
    BY EventLoopAssumption DEF Typing, TypeOK
  <1>1. Other \notin harmed => buffers = {f \in Fds : owner[f] \in Clients}
    BY DEF BuffersAreConnections
  <1>2. CASE UNCHANGED <<owner, buffers, harmed>>
    BY <1>1, <1>2
  <1>3. ASSUME NEW f \in Fds, OtherCloses(f)
        PROVE  buffers' = {g \in Fds : owner'[g] \in Clients}
    BY <1>0, <1>1, <1>3 DEF OtherCloses, reactor, ghosts
  <1>4. CASE OtherOpens
    <2>1. PICK f \in Fds : /\ owner[f] = Free /\ owner'[f] = Other
                           /\ \A g \in Fds : g # f => owner'[g] = owner[g]
      BY <1>0, <1>4, Opened DEF OtherOpens
    <2> QED  BY <1>0, <1>1, <1>4, <2>1 DEF OtherOpens, reactor, ghosts
  <1>5. ASSUME NEW c \in Clients, Accept(c)
        PROVE  buffers' = {g \in Fds : owner'[g] \in Clients}
    <2>1. PICK f \in Fds : /\ owner[f] = Free /\ owner'[f] = c /\ f = Lowest(Unused)
                           /\ \A g \in Fds : g # f => owner'[g] = owner[g]
      BY <1>0, <1>5, Opened DEF Accept
    <2> QED  BY <1>0, <1>1, <1>5, <2>1 DEF Accept, ghosts
  <1>6. ASSUME NEW f \in Fds, (\E d \in doomed : d.fd = f /\ CloseDoomed(d)) \/ CloseExpired(f)
        PROVE  buffers' = {g \in Fds : owner'[g] \in Clients}
    <2>1. Other \notin harmed
      BY <1>6, Ended
    <2> QED  BY <1>0, <1>1, <1>6, <2>1, Ended
  <1>7. ASSUME NEW e \in batch, HandleClient(e) \/ HandleOverflow(e)
        PROVE  buffers' = {g \in Fds : owner'[g] \in Clients}
    <2>1. Other \notin harmed
      BY <1>7, Handled
    <2> QED  BY <1>0, <1>1, <1>7, <2>1, Handled
  <1>8. CASE UNCHANGED vars
    BY <1>2, <1>8 DEF vars, kernel, reactor, ghosts
  <1>9. CASE \/ \E c \in Clients : Connect(c) \/ ClientSends(c) \/ Leave(c)
             \/ (\E f \in Fds : Quit(f)) \/ (\E q \in quits : Doom(q)) \/ TimerFires
             \/ Sigint \/ EpollWait \/ BatchDone \/ HandleListen
             \/ (\E c \in Clients : NoUnblocking(c) \/ NoEpoll(c)) \/ AcceptEnds
             \/ HandleWake \/ DoomEnds \/ HandleTimer \/ CheckEnds
    BY <1>2, <1>9 DEF Connect, ClientSends, Leave, Quit, Doom, TimerFires, Sigint, EpollWait,
       BatchDone, HandleListen, NoUnblocking, NoEpoll, Rejected, AcceptEnds, HandleWake, DoomEnds,
       HandleTimer, CheckEnds, TakeEvent, kernel, reactor, ghosts
  <1>10. \A d \in doomed : d.fd \in Fds
    BY DEF Typing, TypeOK
  <1> QED
    BY <1>0, <1>3, <1>4, <1>5, <1>6, <1>7, <1>8, <1>9, <1>10 DEF Next, Reactor

(* client_buffers is the set of connections, however stale the events of a   *)
(* batch are, up to the event that makes the reactor read another thread's   *)
(* descriptor.                                                               *)
THEOREM BuffersHold == Spec => []BuffersAreConnections
  <1>1. Init => BuffersAreConnections
    BY EventLoopAssumption DEF Init, BuffersAreConnections
  <1> QED  BY <1>1, BuffersNext, TypingInit, TypingNext, PTL DEF Spec

-----------------------------------------------------------------------------
LEMMA TruthfulNext ==
  Typing /\ BuffersAreConnections /\ Truthful /\ [Next]_vars => Truthful'
  <1> SUFFICES ASSUME Typing, BuffersAreConnections, Truthful, [Next]_vars, ~overtaken'
               PROVE  Truthful'
    BY DEF Truthful
  <1>0. (\A d \in doomed : d.fd \in Fds) /\ buffers \subseteq Fds
    BY DEF Typing, TypeOK
  <1>1. ~overtaken
    <2>1. ASSUME NEW f \in Fds,
                 (\E d \in doomed : d.fd = f /\ CloseDoomed(d)) \/ CloseExpired(f)
          PROVE  ~overtaken
      BY <2>1, Ended
    <2>2. ASSUME NEW e \in batch, HandleClient(e) \/ HandleOverflow(e) PROVE ~overtaken
      BY <2>2, Handled
    <2>3. CASE UNCHANGED overtaken
      BY <2>3
    <2> QED
      BY <1>0, <2>1, <2>2, <2>3
      DEF Next, Reactor, Connect, ClientSends, Leave, OtherOpens, OtherCloses, Quit, Doom,
          TimerFires, Sigint, EpollWait, BatchDone, HandleListen, Accept, NoUnblocking, NoEpoll,
          Rejected, AcceptEnds, HandleWake, DoomEnds, HandleTimer, CheckEnds, TakeEvent,
          kernel, reactor, ghosts, vars
  <1>2. /\ owner \in [Fds -> Clients \cup {Free, Other}] /\ harmed = {}
        /\ gone \subseteq Clients /\ unread \subseteq Clients
        /\ Free \notin Clients /\ Other \notin Clients /\ Free # Other
        /\ buffers = {f \in Fds : owner[f] \in Clients}
    BY <1>1, EventLoopAssumption DEF Typing, TypeOK, Truthful, BuffersAreConnections
  <1>3. /\ \A e \in batch : e.on = "client" =>
              /\ e.fd \in Fds /\ owner[e.fd] \in Clients
              /\ e.hup => owner[e.fd] \in gone
              /\ \A d \in batch : d.on = "client" /\ d.fd = e.fd => d = e
        /\ \A d \in doomed \cup quits : d.fd \in Fds /\ d.who \in Clients
                                       /\ owner[d.fd] = d.who
    BY <1>1 DEF Typing, TypeOK, Truthful
  (* A step that adds nothing to be handled and takes no number from a client. *)
  <1>4. ASSUME batch' \subseteq batch, doomed' \cup quits' \subseteq doomed \cup quits,
               harmed' = {}, gone \subseteq gone',
               \A f \in Fds : owner[f] \in Clients => owner'[f] = owner[f]
        PROVE  Truthful'
    BY <1>3, <1>4 DEF Truthful
  <1>5. CASE EpollWait
    <2>1. \A e \in Ready : e.on = "client" => \E f \in Fds :
              /\ e = [on |-> "client", fd |-> f, hup |-> owner[f] \in gone]
              /\ owner[f] \in unread \cup gone
      BY DEF Ready, Event
    <2>2. \A e \in Ready : e.on = "client" =>
              /\ owner[e.fd] \in Clients
              /\ e.hup => owner[e.fd] \in gone
              /\ \A d \in Ready : d.on = "client" /\ d.fd = e.fd => d = e
      <3> SUFFICES ASSUME NEW e \in Ready, e.on = "client",
                          NEW d \in Ready, d.on = "client", d.fd = e.fd
                   PROVE  owner[e.fd] \in Clients /\ (e.hup => owner[e.fd] \in gone) /\ d = e
        OBVIOUS
      <3>1. PICK f \in Fds : /\ e = [on |-> "client", fd |-> f, hup |-> owner[f] \in gone]
                             /\ owner[f] \in unread \cup gone
        BY <2>1
      <3>2. PICK g \in Fds : d = [on |-> "client", fd |-> g, hup |-> owner[g] \in gone]
        BY <2>1
      <3>3. f = g
        BY <3>1, <3>2
      <3>4. d = e
        BY <3>1, <3>2, <3>3
      <3>5. owner[e.fd] \in Clients /\ (e.hup => owner[e.fd] \in gone)
        BY <1>2, <3>1
      <3> QED  BY <3>4, <3>5
    <2> QED  BY <1>2, <1>5, <2>2 DEF EpollWait, Truthful, ghosts
  (* A step that frees the number f, and takes nobody's by surprise.         *)
  <1>6. ASSUME NEW f \in Fds, overtaken' = (overtaken \/ Expected(f)'),
               \A g \in Fds : g # f => owner'[g] = owner[g],
               batch' \subseteq batch, doomed' \cup quits' \subseteq doomed \cup quits,
               harmed' = {}, gone' = gone
        PROVE  Truthful'
    <2>1. \A e \in batch' : e.on = "client" => owner'[e.fd] = owner[e.fd]
      BY <1>3, <1>6 DEF Expected
    <2>2. \A d \in doomed' \cup quits' : owner'[d.fd] = owner[d.fd]
      BY <1>3, <1>6 DEF Expected
    <2> QED  BY <1>3, <1>6, <2>1, <2>2 DEF Truthful
  <1>7. ASSUME NEW e \in batch, HandleClient(e) \/ HandleOverflow(e) PROVE Truthful'
    <2>1. /\ harmed' = {} /\ batch' \subseteq batch /\ UNCHANGED <<doomed, quits, gone>>
          /\ e.fd \in Fds /\ \A g \in Fds : g # e.fd => owner'[g] = owner[g]
      BY <1>2, <1>3, <1>7, Handled
    <2>2. CASE overtaken' = (overtaken \/ Expected(e.fd)')
      BY <1>6, <2>1, <2>2
    <2>3. CASE owner' = owner
      BY <1>2, <1>4, <2>1, <2>3
    <2> QED  BY <1>7, <2>2, <2>3, Handled
  <1>8. ASSUME NEW f \in Fds, (\E d \in doomed : d.fd = f /\ CloseDoomed(d)) \/ CloseExpired(f)
        PROVE  Truthful'
    <2>1. harmed' = {}
      <3>1. ASSUME NEW d \in doomed, d.fd = f, CloseDoomed(d) PROVE harmed' = {}
        BY <1>2, <1>3, <3>1, Closed DEF CloseDoomed
      <3>2. ASSUME CloseExpired(f) PROVE harmed' = {}
        BY <1>2, <3>2, Closed DEF CloseExpired
      <3> QED  BY <1>8, <3>1, <3>2
    <2>2. /\ \A g \in Fds : g # f => owner'[g] = owner[g]
          /\ doomed' \subseteq doomed /\ UNCHANGED <<batch, quits, gone>>
          /\ overtaken' = (overtaken \/ Expected(f)') \/ owner' = owner
      BY <1>8, Ended
    <2> QED  BY <1>2, <1>4, <1>6, <2>1, <2>2
  <1>9. ASSUME NEW c \in Clients, Accept(c) PROVE Truthful'
    <2>1. PICK f \in Fds : owner[f] = Free /\ \A g \in Fds : g # f => owner'[g] = owner[g]
      BY <1>2, <1>9, Opened DEF Accept
    <2> QED  BY <1>2, <1>4, <1>9, <2>1 DEF Accept, ghosts
  <1>10. CASE OtherOpens
    <2>1. \A f \in Fds : owner[f] \in Clients => owner'[f] = owner[f]
      BY <1>2, <1>10, Opened DEF OtherOpens
    <2> QED  BY <1>2, <1>4, <1>10, <2>1 DEF OtherOpens, reactor, ghosts
  <1>11. ASSUME NEW f \in Fds, OtherCloses(f) PROVE Truthful'
    BY <1>2, <1>4, <1>11 DEF OtherCloses, reactor, ghosts
  <1>12. ASSUME NEW f \in Fds, Quit(f) PROVE Truthful'
    BY <1>1, <1>2, <1>3, <1>12 DEF Quit, Truthful, kernel, ghosts
  <1>13. CASE \/ \E c \in Clients : Connect(c) \/ ClientSends(c) \/ Leave(c)
              \/ (\E q \in quits : Doom(q)) \/ TimerFires
              \/ Sigint \/ BatchDone \/ HandleListen
              \/ (\E c \in Clients : NoUnblocking(c) \/ NoEpoll(c)) \/ AcceptEnds
              \/ HandleWake \/ DoomEnds \/ HandleTimer \/ CheckEnds \/ UNCHANGED vars
    BY <1>2, <1>4, <1>13 DEF Connect, ClientSends, Leave, Doom, TimerFires, Sigint, BatchDone,
       HandleListen, NoUnblocking, NoEpoll, Rejected, AcceptEnds, HandleWake, DoomEnds,
       HandleTimer, CheckEnds, TakeEvent, kernel, reactor, ghosts, vars
  <1> QED
    BY <1>0, <1>5, <1>7, <1>8, <1>9, <1>10, <1>11, <1>12, <1>13 DEF Next, Reactor

(* Numbers change hands within a batch, and other threads open and close     *)
(* theirs; still, until some connection is closed with an event or a q about *)
(* it to come, no connection is closed but those that were left, said q,     *)
(* were timed out or overflowed, and nobody else's descriptor is touched.    *)
THEOREM HarmNeedsOvertakingHolds == Spec => []HarmNeedsOvertaking
  <1>1. Init => Truthful /\ BuffersAreConnections
    BY EventLoopAssumption DEF Init, Truthful, BuffersAreConnections
  <1>2. Truthful => HarmNeedsOvertaking
    BY DEF Truthful, HarmNeedsOvertaking, NoHarm
  <1> QED  BY <1>1, <1>2, TruthfulNext, BuffersNext, TypingInit, TypingNext, PTL DEF Spec

-----------------------------------------------------------------------------
(* The ring.                                                                 *)

Byte  == 0..(Radix - 1)
Bytes == Seq(Byte)

-----------------------------------------------------------------------------
(* Arithmetic of the ring and of the length field.                           *)
(* The remainder of an index that is past the end of the ring by less than a turn. *)
LEMMA Modulo ==
  ASSUME NEW b \in Nat, b > 0, NEW x \in 0..(2 * b - 1)
  PROVE  x % b = IF x < b THEN x ELSE x - b
  <1>1. CASE x < b
    BY <1>1
  <1>2. CASE ~(x < b)
    <2>1. x \in b..(2 * b - 1) /\ b \in Nat \ {0}
      BY <1>2
    <2> QED  BY <1>2, <2>1
  <1> QED  BY <1>1, <1>2

(* The two digits of a length. *)
LEMMA Digits ==
  ASSUME NEW n \in 1..MaxMessage
  PROVE  /\ n \div Radix \in Byte /\ n % Radix \in Byte
         /\ Radix * (n \div Radix) + (n % Radix) = n
         /\ n < Radix => n \div Radix = 0
  <1>1. /\ Radix \in Nat \ {0, 1} /\ n \in Nat /\ n < Radix * Radix /\ n > 0
    BY SendMessageAssumption, RingBufferAssumption
  <1>2. n \div Radix \in Byte
    BY <1>1 DEF Byte
  <1>3. n % Radix \in Byte
    BY <1>1 DEF Byte
  <1>4. n < Radix => n \div Radix = 0
    BY <1>1
  <1>5. ASSUME NEW q \in Int, NEW r \in Int, q = n \div Radix, r = n % Radix
        PROVE  Radix * q + r = n
    BY <1>1, <1>5
  <1>6. n \div Radix \in Int /\ n % Radix \in Int
    BY <1>2, <1>3, <1>1 DEF Byte
  <1> QED  BY <1>2, <1>3, <1>4, <1>5, <1>6

(* A message is a sequence of bytes that is not empty and not too long. *)
LEMMA EachMessage ==
  ASSUME NEW m \in Messages
  PROVE  m \in Seq(Byte) /\ Len(m) \in 1..MaxMessage /\ Len(m) \in Nat /\ MaxMessage \in Nat
  BY SendMessageAssumption, RingBufferAssumption DEF Byte

(* encodeMessage: a message can be read off its frame. *)
LEMMA Encoded ==
  ASSUME NEW m \in Messages
  PROVE  /\ Encode(m) \in Seq(Byte) /\ Len(Encode(m)) = 2 + Len(m)
         /\ Radix * Encode(m)[1] + Encode(m)[2] = Len(m)
         /\ MaxMessage < Radix => Encode(m)[1] = 0
         /\ \A i \in 1..Len(m) : Encode(m)[2 + i] = m[i]
  <1> DEFINE h == <<Len(m) \div Radix, Len(m) % Radix>>
  <1>1. /\ m \in Seq(Byte) /\ Len(m) \in Nat /\ Len(m) \in 1..MaxMessage
    BY EachMessage
  <1>2. /\ Len(m) \div Radix \in Byte /\ Len(m) % Radix \in Byte
        /\ Radix * (Len(m) \div Radix) + (Len(m) % Radix) = Len(m)
        /\ MaxMessage < Radix => Len(m) \div Radix = 0
    <2>1. MaxMessage < Radix => Len(m) < Radix
      BY <1>1, SendMessageAssumption, RingBufferAssumption
    <2> QED  BY <1>1, <2>1, Digits
  <1>3. h \in Seq(Byte) /\ Len(h) = 2 /\ h[1] = Len(m) \div Radix /\ h[2] = Len(m) % Radix
    BY <1>2
  <1> HIDE DEF h
  <1>4. /\ h \o m \in Seq(Byte) /\ Len(h \o m) = 2 + Len(m)
        /\ \A i \in 1..(2 + Len(m)) : (h \o m)[i] = IF i <= 2 THEN h[i] ELSE m[i - 2]
    <2>1. /\ h \o m \in Seq(Byte) /\ Len(h \o m) = Len(h) + Len(m)
          /\ \A i \in 1..(Len(h) + Len(m)) :
                (h \o m)[i] = IF i <= Len(h) THEN h[i] ELSE m[i - Len(h)]
      BY <1>1, <1>3, ConcatProperties
    <2> QED  BY <1>3, <2>1
  <1>5. (h \o m)[1] = h[1] /\ (h \o m)[2] = h[2]
    BY <1>1, <1>4
  <1>6. ASSUME NEW i \in 1..Len(m) PROVE (h \o m)[2 + i] = m[i]
    <2>1. 2 + i \in 1..(2 + Len(m)) /\ ~(2 + i <= 2) /\ (2 + i) - 2 = i
      BY <1>1
    <2> QED  BY <1>4, <2>1
  <1>7. Encode(m) = h \o m
    BY DEF Encode, h
  <1>8. (h \o m)[1] = Len(m) \div Radix /\ (h \o m)[2] = Len(m) % Radix
    BY <1>3, <1>5
  <1> QED  BY <1>2, <1>4, <1>6, <1>7, <1>8

-----------------------------------------------------------------------------
(* Frames in a stream of bytes: those of the messages msgs[k], at pos[k], in *)
(* this order, with zeros between them, which are only skipped correctly if  *)
(* no length needs the first digit.                                          *)
Positions == [Nat -> Int]
EndOf(pos, msgs, k) == pos[k] + 2 + Len(msgs[k])

Frame(s, msgs, first, last, pos, k) ==
    /\ pos[k] >= 0 /\ EndOf(pos, msgs, k) <= Len(s)
    /\ \A i \in 1..(2 + Len(msgs[k])) : s[pos[k] + i] = Encode(msgs[k])[i]
    /\ \A j \in first..last : j < k => EndOf(pos, msgs, j) <= pos[k]
    /\ \A i \in 1..pos[k] : (k = first \/ i > EndOf(pos, msgs, k - 1)) =>
                               s[i] = 0 /\ MaxMessage < Radix
Frames(s, msgs, first, last, pos) ==
    \A k \in first..last : Frame(s, msgs, first, last, pos, k)

(* ... and nothing after the last one. *)
Covered(s, msgs, first, last, pos) ==
    Len(s) = IF first <= last THEN EndOf(pos, msgs, last) ELSE 0

(* What is sent in front of a frame can be told from its length field. *)
Resyncs == Filler \subseteq {<<>>} \/ MaxMessage < Radix

(* The same up to n; the frames up to last end before n. *)
Agree(r, s, n) == \A i \in 1..n : r[i] = s[i]
Within(pos, msgs, first, last, n) == \A k \in first..last : EndOf(pos, msgs, k) <= n

(* Where a frame ends. *)
LEMMA EndIsInt ==
  ASSUME NEW msgs, NEW k \in Nat, msgs[k] \in Messages, NEW pos \in Positions
  PROVE  /\ pos[k] \in Int /\ Len(msgs[k]) \in Nat /\ Len(msgs[k]) > 0
         /\ EndOf(pos, msgs, k) \in Int /\ pos[k] + 2 < EndOf(pos, msgs, k)
  <1>1. Len(msgs[k]) \in Nat /\ Len(msgs[k]) > 0
    BY EachMessage
  <1> QED  BY <1>1 DEF EndOf, Positions

(* Frames depend on the part of the stream they are in. *)
LEMMA FramesPrefix ==
  ASSUME NEW s, NEW r, Len(r) \in Nat, NEW n \in Nat, n <= Len(r), Agree(r, s, n),
         NEW msgs, NEW more, NEW first \in Nat \ {0}, NEW last \in Nat,
         NEW last2 \in Nat, last2 <= last,
         Agree(more, msgs, last2), \A k \in 1..last : msgs[k] \in Messages,
         NEW pos \in Positions, Frames(s, msgs, first, last, pos),
         Within(pos, msgs, first, last2, n)
  PROVE  Frames(r, more, first, last2, pos)
  <1> SUFFICES ASSUME NEW k \in first..last2 PROVE Frame(r, more, first, last2, pos, k)
    BY DEF Frames
  <1>1. k \in first..last /\ k \in Nat /\ Frame(s, msgs, first, last, pos, k)
    BY DEF Frames
  <1>2. ASSUME NEW j \in first..last2
        PROVE  /\ more[j] = msgs[j] /\ j \in first..last
               /\ EndOf(pos, more, j) = EndOf(pos, msgs, j)
    <2>1. j \in 1..last2 /\ j \in first..last
      OBVIOUS
    <2> QED  BY <2>1 DEF EndOf, Agree
  <1>3. /\ Len(msgs[k]) \in Nat /\ pos[k] \in Int /\ EndOf(pos, msgs, k) \in Int
        /\ pos[k] + 2 + Len(msgs[k]) <= n /\ more[k] = msgs[k]
    <2>1. msgs[k] \in Messages
      BY <1>1
    <2> QED  BY <2>1, <1>1, <1>2, EndIsInt DEF Within, EndOf
  <1>4. pos[k] >= 0 /\ EndOf(pos, more, k) <= Len(r)
    BY <1>1, <1>2, <1>3 DEF Frame, EndOf
  <1>5. ASSUME NEW i \in 1..(2 + Len(msgs[k])) PROVE r[pos[k] + i] = Encode(msgs[k])[i]
    <2> DEFINE p == pos[k]
               c == Len(msgs[k])
    <2>1. p \in Nat /\ c \in Nat /\ p + 2 + c <= n /\ i \in 1..(2 + c)
      BY <1>3, <1>4
    <2> HIDE DEF p, c
    <2>2. p + i \in 1..n
      BY <2>1
    <2> QED  BY <1>1, <2>2 DEF Frame, Agree, p
  <1>6. \A j \in first..last2 : j < k => EndOf(pos, more, j) <= pos[k]
    BY <1>1, <1>2 DEF Frame
  <1>7. ASSUME NEW i \in 1..pos[k], k = first \/ i > EndOf(pos, more, k - 1)
        PROVE  r[i] = 0 /\ MaxMessage < Radix
    <2>1. i \in 1..n
      BY <1>3
    <2>2. k = first \/ k - 1 \in first..last2
      BY <1>1
    <2>3. k = first \/ i > EndOf(pos, msgs, k - 1)
      BY <1>2, <1>7, <2>2
    <2> QED  BY <1>1, <2>1, <2>3 DEF Frame, Agree
  <1> QED  BY <1>3, <1>4, <1>5, <1>6, <1>7 DEF Frame

(* What is where in a concatenation. *)
LEMMA Concatenated ==
  ASSUME NEW s \in Bytes, NEW r \in Bytes
  PROVE  /\ s \o r \in Bytes /\ Len(s \o r) = Len(s) + Len(r)
         /\ Len(s) \in Nat /\ Len(r) \in Nat
         /\ Agree(s \o r, s, Len(s))
         /\ \A i \in 1..Len(r) : (s \o r)[Len(s) + i] = r[i]
  <1>1. /\ s \o r \in Bytes /\ Len(s \o r) = Len(s) + Len(r)
        /\ Len(s) \in Nat /\ Len(r) \in Nat
        /\ \A i \in 1..(Len(s) + Len(r)) :
              (s \o r)[i] = IF i <= Len(s) THEN s[i] ELSE r[i - Len(s)]
    BY ConcatProperties, LenProperties DEF Bytes
  <1> HIDE DEF Bytes
  <1>2. Agree(s \o r, s, Len(s))
    BY <1>1 DEF Agree
  <1>3. ASSUME NEW i \in 1..Len(r) PROVE (s \o r)[Len(s) + i] = r[i]
    <2>1. /\ Len(s) + i \in 1..(Len(s) + Len(r)) /\ ~(Len(s) + i <= Len(s))
          /\ (Len(s) + i) - Len(s) = i
      BY <1>1
    <2> QED  BY <1>1, <2>1
  <1> QED  BY <1>1, <1>2, <1>3

(* A frame is added at the end. *)
LEMMA FramesAppend ==
  ASSUME Resyncs, NEW s \in Bytes, NEW msgs, NEW l \in Nat \ {0},
         \A k \in 1..(l - 1) : msgs[k] \in Messages,
         NEW first \in 1..l, NEW pos \in Positions,
         Frames(s, msgs, first, l - 1, pos), Covered(s, msgs, first, l - 1, pos),
         NEW m \in Messages, NEW z \in Filler, NEW f, f = z \o Encode(m),
         NEW more, Agree(more, msgs, l - 1), more[l] = m,
         NEW pos2, pos2 = [pos EXCEPT ![l] = Len(s) + Len(z)]
  PROVE  /\ pos2 \in Positions /\ f \in Bytes /\ s \o f \in Bytes
         /\ Frames(s \o f, more, first, l, pos2)
         /\ Covered(s \o f, more, first, l, pos2)
         /\ Within(pos2, more, first, l - 1, Len(s))
  <1> DEFINE r == s \o f
  <1>1. /\ z \in Bytes /\ Len(z) \in Nat /\ \A i \in 1..Len(z) : z[i] = 0
    <2>1. z \in Seq({0}) /\ {0} \subseteq Byte
      BY SendMessageAssumption DEF Byte
    <2>2. Len(z) \in Nat /\ \A i \in 1..Len(z) : z[i] \in {0}
      BY <2>1, LenProperties, ElementOfSeq
    <2>3. z \in Seq(Byte)
      BY <2>1, SeqMonotonic
    <2> QED  BY <2>2, <2>3 DEF Bytes
  <1>2. /\ Encode(m) \in Bytes /\ Len(Encode(m)) = 2 + Len(m) /\ Len(m) \in Nat
    BY Encoded, EachMessage DEF Bytes
  <1>3. /\ f \in Bytes /\ Len(f) = Len(z) + (2 + Len(m))
        /\ \A i \in 1..Len(z) : f[i] = 0
        /\ \A i \in 1..(2 + Len(m)) : f[Len(z) + i] = Encode(m)[i]
    <2>1. /\ f \in Bytes /\ Len(f) = Len(z) + (2 + Len(m))
          /\ \A i \in 1..Len(z) : f[i] = z[i]
          /\ \A i \in 1..(2 + Len(m)) : f[Len(z) + i] = Encode(m)[i]
      <3> DEFINE e == Encode(m)
      <3>1. e \in Bytes /\ Len(e) = 2 + Len(m) /\ f = z \o e
        BY <1>2
      <3> HIDE DEF e
      <3>2. /\ z \o e \in Bytes /\ Len(z \o e) = Len(z) + Len(e) /\ Agree(z \o e, z, Len(z))
            /\ \A i \in 1..Len(e) : (z \o e)[Len(z) + i] = e[i]
        BY <1>1, <3>1, Concatenated
      <3> QED  BY <3>1, <3>2 DEF Agree, e
    <2> QED  BY <1>1, <2>1
  <1>4. /\ r \in Bytes /\ Len(r) = Len(s) + Len(f) /\ Len(s) \in Nat /\ Len(r) \in Nat
        /\ Agree(r, s, Len(s))
        /\ \A i \in 1..Len(f) : r[Len(s) + i] = f[i]
    BY <1>3, Concatenated
  <1>5. /\ pos2 \in Positions /\ pos2[l] = Len(s) + Len(z)
        /\ \A k \in Nat : k # l => pos2[k] = pos[k]
    BY <1>1, <1>4 DEF Positions
  <1> HIDE DEF r
  <1>6. ASSUME NEW k \in first..(l - 1)
        PROVE  /\ k \in 1..(l - 1) /\ k \in Nat /\ k # l /\ msgs[k] \in Messages
               /\ more[k] = msgs[k] /\ pos2[k] = pos[k]
               /\ EndOf(pos, msgs, k) <= Len(s) /\ EndOf(pos2, more, k) = EndOf(pos, msgs, k)
    <2>1. k \in 1..(l - 1) /\ k \in Nat /\ k # l
      OBVIOUS
    <2>2. pos2[k] = pos[k] /\ more[k] = msgs[k] /\ msgs[k] \in Messages
      BY <1>5, <2>1 DEF Agree
    <2> QED  BY <2>1, <2>2 DEF Frames, Frame, EndOf
  <1>7. Within(pos, msgs, first, l - 1, Len(s)) /\ Within(pos2, more, first, l - 1, Len(s))
    BY <1>6 DEF Within
  <1>8. Frames(r, more, first, l - 1, pos)
    <2>1. Len(s) <= Len(r)
      BY <1>1, <1>2, <1>3, <1>4
    <2>2. l - 1 \in Nat /\ first \in Nat \ {0}
      OBVIOUS
    <2> QED  BY <1>4, <1>7, <2>1, <2>2, FramesPrefix
  <1>9. EndOf(pos2, more, l) = Len(r) /\ pos2[l] <= Len(r) /\ pos2[l] >= 0 /\ pos2[l] \in Nat
    BY <1>1, <1>2, <1>3, <1>4, <1>5 DEF EndOf
  <1>10. Frame(r, more, first, l, pos2, l)
    <2>1. ASSUME NEW i \in 1..(2 + Len(m)) PROVE r[pos2[l] + i] = Encode(m)[i]
      <3>1. /\ Len(z) + i \in 1..Len(f)
            /\ (Len(s) + Len(z)) + i = Len(s) + (Len(z) + i)
        BY <1>1, <1>2, <1>3, <1>4
      <3>2. r[Len(s) + (Len(z) + i)] = f[Len(z) + i]
        BY <1>4, <3>1
      <3> QED  BY <1>3, <1>5, <3>1, <3>2
    <2>2. ASSUME NEW j \in first..l, j < l PROVE EndOf(pos2, more, j) <= pos2[l]
      <3>1. j \in first..(l - 1)
        BY <2>2
      <3>2. EndOf(pos, msgs, j) \in Int /\ EndOf(pos, msgs, j) <= Len(s)
        BY <1>6, <3>1, EndIsInt
      <3>3. EndOf(pos2, more, j) <= Len(s) /\ EndOf(pos2, more, j) \in Int
        BY <1>6, <3>1, <3>2
      <3> QED  BY <1>1, <1>4, <1>5, <3>3
    <2>3. ASSUME NEW i \in 1..pos2[l], l = first \/ i > EndOf(pos2, more, l - 1)
          PROVE  r[i] = 0 /\ MaxMessage < Radix
      <3>1. i > Len(s)
        <4>1. CASE l = first
          BY <1>4, <4>1 DEF Covered
        <4>2. CASE l # first
          <5>1. first <= l - 1 /\ l - 1 \in first..(l - 1)
            BY <4>2
          <5> QED  BY <2>3, <4>2, <5>1, <1>6 DEF Covered
        <4> QED  BY <4>1, <4>2
      <3>2. PICK x \in 1..Len(z) : i = Len(s) + x
        <4>1. i - Len(s) \in 1..Len(z) /\ i = Len(s) + (i - Len(s))
          BY <1>1, <1>4, <1>5, <3>1
        <4> QED  BY <4>1
      <3>3. x \in 1..Len(f) /\ z # <<>>
        BY <1>1, <1>2, <1>3
      <3>4. r[i] = f[x] /\ f[x] = 0
        BY <1>3, <1>4, <3>2, <3>3
      <3>5. MaxMessage < Radix
        BY <3>3 DEF Resyncs
      <3> QED  BY <1>3, <3>2, <3>4, <3>5
    <2>4. \A i \in 1..(2 + Len(more[l])) : r[pos2[l] + i] = Encode(more[l])[i]
      BY <2>1
    <2>5. pos2[l] >= 0 /\ EndOf(pos2, more, l) <= Len(r)
      BY <1>4, <1>9
    <2> QED  BY <2>2, <2>3, <2>4, <2>5 DEF Frame
  <1>11. Frames(r, more, first, l, pos2)
    <2> SUFFICES ASSUME NEW k \in first..l PROVE Frame(r, more, first, l, pos2, k)
      BY DEF Frames
    <2>1. CASE k = l
      BY <1>10, <2>1
    <2>2. CASE k # l
      <3>1. k \in first..(l - 1) /\ k \in Nat /\ Frame(r, more, first, l - 1, pos, k)
        BY <1>8, <2>2 DEF Frames
      <3>2. \A j \in first..l : j < k => j \in first..(l - 1)
        BY <3>1
      <3>3. k = first \/ k - 1 \in first..(l - 1)
        BY <3>1
      <3>4. pos2[k] = pos[k] /\ \A j \in first..(l - 1) : EndOf(pos2, more, j) = EndOf(pos, more, j)
        BY <1>6, <3>1 DEF EndOf
      <3> QED  BY <3>1, <3>2, <3>3, <3>4 DEF Frame
    <2> QED  BY <2>1, <2>2
  <1>12. Covered(r, more, first, l, pos2)
    BY <1>9 DEF Covered
  <1> QED  BY <1>3, <1>4, <1>5, <1>7, <1>11, <1>12 DEF r

(* The first n bytes are taken away: part of a gap, or a whole frame. *)
Dropped(r, s, n) == Len(r) = Len(s) - n /\ \A i \in 1..(Len(s) - n) : r[i] = s[n + i]

Shifted(pos2, pos, n) == pos2 = [k \in Nat |-> pos[k] - n]

(* The frames that follow move to the front. *)
LEMMA FramesDrop ==
  ASSUME NEW s, Len(s) \in Nat, NEW n \in Nat, n <= Len(s), NEW r, Dropped(r, s, n),
         NEW msgs, NEW first \in Nat \ {0}, NEW last \in Nat,
         \A k \in 1..last : msgs[k] \in Messages,
         NEW pos \in Positions, Frames(s, msgs, first, last, pos),
         NEW next \in Nat, \A k \in next..last : n <= pos[k],
         \/ next = first
         \/ next = first + 1 /\ first <= last /\ n = EndOf(pos, msgs, first),
         NEW pos2, Shifted(pos2, pos, n)
  PROVE  /\ pos2 \in Positions /\ Frames(r, msgs, next, last, pos2)
         /\ \A k \in first..last : EndOf(pos2, msgs, k) = EndOf(pos, msgs, k) - n
         /\ Covered(s, msgs, first, last, pos) => Covered(r, msgs, next, last, pos2)
  <1>1. pos2 \in Positions /\ \A k \in Nat : pos2[k] = pos[k] - n /\ pos[k] \in Int
    <2>1. \A k \in Nat : pos[k] \in Int
      BY DEF Positions
    <2>2. \A k \in Nat : pos[k] - n \in Int
      BY <2>1
    <2> QED  BY <2>1, <2>2 DEF Positions, Shifted
  <1>2. ASSUME NEW k \in first..last
        PROVE  /\ k \in Nat /\ msgs[k] \in Messages
               /\ EndOf(pos, msgs, k) \in Int /\ EndOf(pos2, msgs, k) = EndOf(pos, msgs, k) - n
    <2>1. k \in Nat /\ k \in 1..last
      OBVIOUS
    <2>2. msgs[k] \in Messages
      BY <2>1
    <2>3. Len(msgs[k]) \in Nat /\ pos[k] \in Int /\ pos2[k] = pos[k] - n
      BY <1>1, <2>1, <2>2, EndIsInt
    <2>4. pos[k] + 2 + Len(msgs[k]) \in Int
          /\ pos2[k] + 2 + Len(msgs[k]) = (pos[k] + 2 + Len(msgs[k])) - n
      <3> DEFINE p == pos[k]
                 c == Len(msgs[k])
      <3>1. p \in Int /\ c \in Nat /\ pos2[k] = p - n
        BY <2>3
      <3> HIDE DEF p, c
      <3>2. p + 2 + c \in Int /\ pos2[k] + 2 + c = (p + 2 + c) - n
        BY <3>1
      <3> QED  BY <3>2 DEF p, c
    <2> QED  BY <2>1, <2>2, <2>4 DEF EndOf
  <1>3. \A k \in next..last : k \in first..last
    OBVIOUS
  <1>4. ASSUME NEW k \in next..last PROVE Frame(r, msgs, next, last, pos2, k)
    <2>1. Frame(s, msgs, first, last, pos, k) /\ k \in first..last /\ k \in Nat /\ n <= pos[k]
      BY <1>3 DEF Frames
    <2>2. pos2[k] = pos[k] - n /\ pos[k] \in Int /\ Len(r) = Len(s) - n
      BY <1>1, <2>1 DEF Dropped
    <2>3. pos2[k] >= 0 /\ EndOf(pos2, msgs, k) <= Len(r)
      BY <1>2, <2>1, <2>2 DEF Frame
    <2>4. ASSUME NEW i \in 1..(2 + Len(msgs[k])) PROVE r[pos2[k] + i] = Encode(msgs[k])[i]
      <3> DEFINE p == pos[k]
                 c == Len(msgs[k])
      <3>1. p \in Nat /\ c \in Nat /\ p + 2 + c <= Len(s) /\ i \in 1..(2 + c) /\ n <= p
        BY <1>2, <2>1, <2>2, EndIsInt DEF Frame, EndOf
      <3> HIDE DEF p, c
      <3>2. (p - n) + i \in 1..(Len(s) - n) /\ n + ((p - n) + i) = p + i
        <4> DEFINE l == Len(s)
        <4>1. l \in Nat /\ p + 2 + c <= l
          BY <3>1
        <4> HIDE DEF l
        <4>2. (p - n) + i \in 1..(l - n) /\ n + ((p - n) + i) = p + i
          BY <3>1, <4>1
        <4> QED  BY <4>2 DEF l
      <3>3. s[p + i] = Encode(msgs[k])[i]
        BY <2>1 DEF Frame, p
      <3>4. r[(p - n) + i] = s[p + i]
        BY <3>2 DEF Dropped
      <3> QED  BY <2>2, <3>3, <3>4 DEF p
    <2>5. ASSUME NEW j \in next..last, j < k PROVE EndOf(pos2, msgs, j) <= pos2[k]
      <3>1. j \in first..last /\ EndOf(pos, msgs, j) <= pos[k]
        BY <1>3, <2>1, <2>5 DEF Frame
      <3> QED  BY <1>2, <2>2, <3>1
    <2>6. ASSUME NEW i \in 1..pos2[k], k = next \/ i > EndOf(pos2, msgs, k - 1)
          PROVE  r[i] = 0 /\ MaxMessage < Radix
      <3>1. n + i \in 1..pos[k] /\ i \in Nat
        BY <2>1, <2>2
      <3>2. k = first \/ n + i > EndOf(pos, msgs, k - 1)
        <4>1. CASE k = next
          BY <2>6, <4>1, <1>2, <3>1
        <4>2. CASE k # next
          <5>1. k - 1 \in first..last
            BY <4>2
          <5> QED  BY <2>6, <4>2, <5>1, <1>2, <3>1
        <4> QED  BY <4>1, <4>2
      <3>3. s[n + i] = 0 /\ MaxMessage < Radix
        BY <2>1, <3>1, <3>2 DEF Frame
      <3>4. pos[k] <= Len(s)
        <4>1. pos[k] + 2 < EndOf(pos, msgs, k) /\ EndOf(pos, msgs, k) \in Int
          BY <1>2, <2>1, EndIsInt
        <4>2. EndOf(pos, msgs, k) <= Len(s)
          BY <2>1 DEF Frame
        <4> QED  BY <2>2, <4>1, <4>2
      <3>5. i \in 1..(Len(s) - n)
        BY <2>2, <3>1, <3>4
      <3> QED  BY <3>3, <3>5 DEF Dropped
    <2> QED  BY <2>3, <2>4, <2>5, <2>6 DEF Frame
  <1>5. Covered(s, msgs, first, last, pos) => Covered(r, msgs, next, last, pos2)
    <2> SUFFICES ASSUME Covered(s, msgs, first, last, pos)
                 PROVE  Covered(r, msgs, next, last, pos2)
      OBVIOUS
    <2>1. Len(r) = Len(s) - n
      BY DEF Dropped
    <2>2. CASE next <= last
      <3>1. first <= last /\ last \in first..last
        BY <2>2
      <3> QED  BY <1>2, <2>1, <2>2, <3>1 DEF Covered
    <2>3. CASE ~(next <= last) /\ first <= last
      <3>1. next = first + 1 /\ last = first
        BY <2>3
      <3> QED  BY <2>1, <2>3, <3>1 DEF Covered
    <2>4. CASE ~(first <= last)
      <3>1. Len(s) = 0 /\ n = 0 /\ ~(next <= last)
        BY <2>4 DEF Covered
      <3> QED  BY <2>1, <3>1 DEF Covered
    <2> QED  BY <2>2, <2>3, <2>4
  <1> QED  BY <1>1, <1>2, <1>4, <1>5 DEF Frames

(* What the parser reads where it expects a length. *)
Field(s) == Radix * s[1] + s[2]

(* A length that cannot be is found only in front of a frame, ... *)
LEMMA BadIsGap ==
  ASSUME NEW s, NEW msgs, NEW first \in Nat \ {0}, NEW last \in Nat, first <= last,
         msgs[first] \in Messages, NEW pos \in Positions,
         Frames(s, msgs, first, last, pos), Field(s) = 0 \/ Field(s) > MaxMessage
  PROVE  pos[first] \in Nat /\ 1 <= pos[first]
  <1> DEFINE m == msgs[first]
  <1>1. Frame(s, msgs, first, last, pos, first) /\ pos[first] \in Int
    BY EndIsInt DEF Frames
  <1>2. pos[first] # 0
    <2> SUFFICES ASSUME pos[first] = 0 PROVE FALSE
      OBVIOUS
    <2>1. Len(m) \in 1..MaxMessage /\ Len(m) \in Nat /\ Radix * Encode(m)[1] + Encode(m)[2] = Len(m)
      BY Encoded, EachMessage
    <2>2. \A i \in 1..(2 + Len(m)) : s[0 + i] = Encode(m)[i]
      BY <1>1 DEF Frame
    <2>3. s[1] = Encode(m)[1] /\ s[2] = Encode(m)[2]
      <3>1. 1 \in 1..(2 + Len(m)) /\ 2 \in 1..(2 + Len(m)) /\ 0 + 1 = 1 /\ 0 + 2 = 2
        BY <2>1
      <3> QED  BY <2>2, <3>1
    <2>4. Field(s) = Len(m)
      BY <2>1, <2>3 DEF Field
    <2>5. MaxMessage \in Nat
      BY EachMessage
    <2> QED  BY <2>1, <2>4, <2>5
  <1> QED  BY <1>1, <1>2 DEF Frame

(* ... and one that can be only where a frame begins. *)
LEMMA GoodIsFrame ==
  ASSUME NEW s, NEW msgs, NEW first \in Nat \ {0}, NEW last \in Nat, first <= last,
         msgs[first] \in Messages, NEW pos \in Positions,
         Frames(s, msgs, first, last, pos), Field(s) # 0
  PROVE  /\ pos[first] = 0 /\ Field(s) = Len(msgs[first])
         /\ EndOf(pos, msgs, first) = 2 + Field(s)
         /\ \A i \in 1..Field(s) : s[2 + i] = msgs[first][i]
  <1> DEFINE m == msgs[first]
  <1>1. Frame(s, msgs, first, last, pos, first) /\ pos[first] \in Int /\ pos[first] >= 0
    BY EndIsInt DEF Frames, Frame
  <1>2. /\ Len(m) \in Nat /\ Radix * Encode(m)[1] + Encode(m)[2] = Len(m)
        /\ MaxMessage < Radix => Encode(m)[1] = 0
        /\ \A i \in 1..Len(m) : Encode(m)[2 + i] = m[i]
    BY Encoded, EachMessage
  <1>3. /\ \A i \in 1..(2 + Len(m)) : s[pos[first] + i] = Encode(m)[i]
        /\ \A i \in 1..pos[first] : s[i] = 0 /\ MaxMessage < Radix
    BY <1>1 DEF Frame
  <1> HIDE DEF m
  <1>4. 1 \in 1..(2 + Len(m)) /\ 2 \in 1..(2 + Len(m))
    BY <1>2
  <1>5. pos[first] = 0
    <2> SUFFICES ASSUME pos[first] >= 1 PROVE FALSE
      BY <1>1
    <2>1. s[1] = 0 /\ MaxMessage < Radix
      BY <1>1, <1>3
    <2>2. CASE pos[first] = 1
      <3>1. s[1 + 1] = Encode(m)[1]
        BY <1>3, <1>4, <2>2
      <3>2. s[2] = 0
        BY <1>2, <2>1, <3>1
      <3> QED  BY <2>1, <3>2, SendMessageAssumption DEF Field
    <2>3. CASE pos[first] >= 2
      <3>1. s[2] = 0
        BY <1>1, <1>3, <2>3
      <3> QED  BY <2>1, <3>1, SendMessageAssumption DEF Field
    <2> QED  BY <1>1, <2>2, <2>3
  <1>6. \A i \in 1..(2 + Len(m)) : s[i] = Encode(m)[i]
    BY <1>2, <1>3, <1>5
  <1>7. Field(s) = Len(m)
    BY <1>2, <1>4, <1>6 DEF Field
  <1>8. ASSUME NEW i \in 1..Len(m) PROVE s[2 + i] = m[i]
    <2>1. 2 + i \in 1..(2 + Len(m))
      BY <1>2
    <2> QED  BY <1>2, <1>6, <2>1
  <1>9. EndOf(pos, msgs, first) = 0 + 2 + Len(m)
    BY <1>5 DEF EndOf, m
  <1> QED  BY <1>2, <1>5, <1>7, <1>8, <1>9 DEF m

-----------------------------------------------------------------------------
(* The ring: what is in it, in the order in which it came.                   *)
Slots == 0..(BufferSize - 1)
Wrap(x) == IF x < BufferSize THEN x ELSE x - BufferSize
Held(h, t) == Wrap(t - h + BufferSize)
RingOK(b, h, t) == b \in [Slots -> Byte] /\ h \in Slots /\ t \in Slots
Content(b, h, t) == [i \in 1..Held(h, t) |-> b[Wrap(h + i - 1)]]

(* An index that wraps around. *)
LEMMA Wrapped ==
  ASSUME NEW x \in 0..(2 * BufferSize - 1)
  PROVE  x % BufferSize = Wrap(x) /\ Wrap(x) \in Slots
  <1>1. BufferSize \in Nat /\ BufferSize > 0
    BY RingBufferAssumption
  <1>2. x % BufferSize = Wrap(x)
    BY <1>1, Modulo DEF Wrap
  <1> QED  BY <1>1, <1>2 DEF Wrap, Slots

(* The bytes in the ring are a sequence. *)
LEMMA Contents ==
  ASSUME NEW b, NEW h, NEW t, RingOK(b, h, t)
  PROVE  /\ (t - h + BufferSize) % BufferSize = Held(h, t) /\ Held(h, t) \in Slots
         /\ Held(h, t) = IF h <= t THEN t - h ELSE t - h + BufferSize
         /\ Content(b, h, t) \in Bytes /\ Len(Content(b, h, t)) = Held(h, t)
         /\ \A i \in 1..Held(h, t) :
               /\ Content(b, h, t)[i] = b[Wrap(h + i - 1)]
               /\ (h + (i - 1)) % BufferSize = Wrap(h + i - 1) /\ Wrap(h + i - 1) \in Slots
  <1>1. BufferSize \in Nat /\ BufferSize > 0
    BY RingBufferAssumption
  <1>2. b \in [Slots -> Byte] /\ h \in Slots /\ t \in Slots
    BY DEF RingOK
  <1>3. /\ (t - h + BufferSize) % BufferSize = Held(h, t) /\ Held(h, t) \in Slots
    <2>1. t - h + BufferSize \in 0..(2 * BufferSize - 1)
      BY <1>2, <1>1 DEF Slots
    <2> QED  BY <2>1, Wrapped DEF Held
  <1>4. Held(h, t) = IF h <= t THEN t - h ELSE t - h + BufferSize
    BY <1>2, <1>1 DEF Held, Wrap, Slots
  <1>5. ASSUME NEW i \in 1..Held(h, t)
        PROVE  /\ Content(b, h, t)[i] = b[Wrap(h + i - 1)] /\ b[Wrap(h + i - 1)] \in Byte
               /\ (h + (i - 1)) % BufferSize = Wrap(h + i - 1) /\ Wrap(h + i - 1) \in Slots
    <2>1. h + i - 1 \in 0..(2 * BufferSize - 1) /\ h + (i - 1) = h + i - 1
      BY <1>2, <1>1, <1>3 DEF Slots
    <2>2. (h + i - 1) % BufferSize = Wrap(h + i - 1) /\ Wrap(h + i - 1) \in Slots
      BY <2>1, Wrapped
    <2> QED  BY <1>2, <2>1, <2>2 DEF Content
  <1>6. Content(b, h, t) \in Bytes /\ Len(Content(b, h, t)) = Held(h, t)
    <2>1. Held(h, t) \in Nat
      BY <1>3 DEF Slots
    <2>2. Content(b, h, t) \in [1..Held(h, t) -> Byte]
      BY <1>5 DEF Content
    <2> QED  BY <2>1, <2>2 DEF Bytes
  <1> QED  BY <1>3, <1>4, <1>5, <1>6

(* Two sequences are equal if they agree. *)
LEMMA SameBytes ==
  ASSUME NEW r \in Bytes, NEW s \in Bytes, Len(r) = Len(s), Agree(r, s, Len(s))
  PROVE  r = s
  BY SeqEqual DEF Bytes, Agree

(* recv: the bytes move from the wire into the ring. *)
InOrder(b, h, t, w) == Content(b, h, t) \o w
Filled(b2, b, t, w, n) ==
    b2 = [i \in Slots |-> LET k == (i - t + BufferSize) % BufferSize
                          IN  IF k < n THEN w[k + 1] ELSE b[i]]

Arrives(b, h, t, w, n, b2, t2, w2) ==
    /\ RingOK(b, h, t) /\ w \in Bytes /\ n \in Nat /\ n <= Len(w) /\ n <= BufferSize
    /\ Filled(b2, b, t, w, n) /\ t2 = Wrap(t + n) /\ w2 = SubSeq(w, n + 1, Len(w))

(* Where the bytes go. *)
LEMMA FilledAt ==
  ASSUME NEW b, NEW h, NEW t, NEW w, NEW n, NEW b2, NEW t2, NEW w2,
         Arrives(b, h, t, w, n, b2, t2, w2), NEW i \in Slots
  PROVE  /\ (i - t + BufferSize) % BufferSize = Held(t, i) /\ Held(t, i) \in Nat
         /\ Held(t, i) = IF t <= i THEN i - t ELSE i - t + BufferSize
         /\ b2[i] = IF Held(t, i) < n THEN w[Held(t, i) + 1] ELSE b[i]
  <1>1. /\ (i - t + BufferSize) % BufferSize = Held(t, i) /\ Held(t, i) \in Slots
        /\ Held(t, i) = IF t <= i THEN i - t ELSE i - t + BufferSize
    <2>1. RingOK(b, t, i)
      BY DEF Arrives, RingOK
    <2> QED  BY <2>1, Contents
  <1>2. Held(t, i) \in Nat
    BY <1>1 DEF Slots
  <1> QED  BY <1>1, <1>2 DEF Arrives, Filled

(* The ring is a ring again. *)
LEMMA Received ==
  ASSUME NEW b, NEW h, NEW t, NEW w, NEW n, NEW b2, NEW t2, NEW w2,
         Arrives(b, h, t, w, n, b2, t2, w2)
  PROVE  /\ b2 \in [Slots -> Byte] /\ (t + n) % BufferSize = t2 /\ t2 \in Slots
         /\ w2 \in Bytes /\ Len(w2) = Len(w) - n /\ \A i \in 1..(Len(w) - n) : w2[i] = w[n + i]
  <1>1. /\ RingOK(b, h, t) /\ w \in Bytes /\ n \in Nat /\ n <= Len(w) /\ n <= BufferSize
         /\ t2 = Wrap(t + n) /\ w2 = SubSeq(w, n + 1, Len(w))
    BY DEF Arrives
  <1>2. /\ BufferSize \in Nat /\ BufferSize > 0 /\ Len(w) \in Nat /\ w \in Seq(Byte)
        /\ n \in Nat /\ n <= Len(w) /\ n <= BufferSize
    BY <1>1, RingBufferAssumption, LenProperties DEF Bytes
  <1>3. b \in [Slots -> Byte] /\ h \in Slots /\ t \in Slots /\ t2 = Wrap(t + n)
    BY <1>1 DEF RingOK
  <1>4. \A i \in 1..Len(w) : w[i] \in Byte
    BY <1>2, ElementOfSeq
  <1>5. ASSUME NEW i \in Slots
        PROVE  /\ Held(t, i) \in Nat /\ Held(t, i) = IF t <= i THEN i - t ELSE i - t + BufferSize
               /\ b2[i] = IF Held(t, i) < n THEN w[Held(t, i) + 1] ELSE b[i]
    BY FilledAt
  <1>6. b2 \in [Slots -> Byte]
    <2> SUFFICES ASSUME NEW i \in Slots PROVE b2[i] \in Byte
      BY DEF Arrives, Filled
    <2>1. CASE Held(t, i) < n
      <3>1. Held(t, i) + 1 \in 1..Len(w)
        BY <1>2, <1>5, <2>1
      <3> QED  BY <1>4, <1>5, <2>1, <3>1
    <2> QED  BY <1>3, <1>5, <2>1
  <1>7. (t + n) % BufferSize = t2 /\ t2 \in Slots
    <2>1. t + n \in 0..(2 * BufferSize - 1)
      BY <1>3, <1>2 DEF Slots
    <2> QED  BY <1>3, <2>1, Wrapped
  <1>8. w2 \in Bytes /\ Len(w2) = Len(w) - n /\ \A i \in 1..(Len(w) - n) : w2[i] = w[n + i]
    <2>1. /\ w2 \in Seq(Byte) /\ Len(w2) = Len(w) - n
          /\ \A i \in 1..(Len(w) - n) : w2[i] = w[(n + 1) + i - 1]
      BY <1>2, <1>4, <1>1, SubSeqProperties
    <2>2. \A i \in 1..(Len(w) - n) : (n + 1) + i - 1 = n + i
      BY <1>2
    <2> QED  BY <2>1, <2>2 DEF Bytes
  <1> QED  BY <1>6, <1>7, <1>8

(* No byte is lost, and their order is kept. *)
LEMMA ReceivedOrder ==
  ASSUME NEW b, NEW h, NEW t, NEW w, NEW n, NEW b2, NEW t2, NEW w2,
         Arrives(b, h, t, w, n, b2, t2, w2), Held(h, t) + n < BufferSize
  PROVE  InOrder(b2, h, t2, w2) = InOrder(b, h, t, w)
  <1>1. /\ RingOK(b, h, t) /\ w \in Bytes /\ n \in Nat /\ n <= Len(w) /\ n <= BufferSize
         /\ t2 = Wrap(t + n) /\ w2 = SubSeq(w, n + 1, Len(w))
    BY DEF Arrives
  <1>2. /\ BufferSize \in Nat /\ BufferSize > 0 /\ Len(w) \in Nat /\ w \in Seq(Byte)
        /\ n \in Nat /\ n <= Len(w) /\ n <= BufferSize
    BY <1>1, RingBufferAssumption, LenProperties DEF Bytes
  <1>3. b \in [Slots -> Byte] /\ h \in Slots /\ t \in Slots /\ t2 = Wrap(t + n)
    BY <1>1 DEF RingOK
  <1>4. ASSUME NEW i \in Slots
        PROVE  /\ Held(t, i) \in Nat /\ Held(t, i) = IF t <= i THEN i - t ELSE i - t + BufferSize
               /\ b2[i] = IF Held(t, i) < n THEN w[Held(t, i) + 1] ELSE b[i]
    BY FilledAt
  <1>5. b2 \in [Slots -> Byte]
    BY Received
  <1>6. (t + n) % BufferSize = t2 /\ t2 \in Slots
    BY Received
  <1>7. w2 \in Bytes /\ Len(w2) = Len(w) - n /\ \A i \in 1..(Len(w) - n) : w2[i] = w[n + i]
    BY Received
  <1>8. RingOK(b2, h, t2)
    BY <1>3, <1>5, <1>6 DEF RingOK
  <1> DEFINE c  == Content(b, h, t)
             c2 == Content(b2, h, t2)
             l  == Held(h, t)
  <1>9. /\ c \in Bytes /\ Len(c) = l /\ l \in Slots /\ l \in Nat
        /\ l = IF h <= t THEN t - h ELSE t - h + BufferSize
        /\ \A i \in 1..l : c[i] = b[Wrap(h + i - 1)] /\ Wrap(h + i - 1) \in Slots
    <2>1. l \in Slots
      BY <1>1, Contents
    <2>2. l \in Nat
      BY <2>1 DEF Slots
    <2> QED  BY <1>1, <2>1, <2>2, Contents
  <1>10. Held(h, t2) = l + n
    <2>1. Held(h, t2) = IF h <= t2 THEN t2 - h ELSE t2 - h + BufferSize
      BY <1>8, Contents
    <2>2. /\ h \in 0..(BufferSize - 1) /\ t \in 0..(BufferSize - 1) /\ l + n < BufferSize
          /\ t2 \in 0..(BufferSize - 1)
      BY <1>3, <1>6 DEF Slots
    <2>3. t2 = IF t + n < BufferSize THEN t + n ELSE t + n - BufferSize
      <3>1. t2 = Wrap(t + n) /\ t + n \in Nat
        BY <1>3, <1>2, <2>2
      <3> QED  BY <1>2, <2>2, <3>1 DEF Wrap
    <2>4. l \in Nat /\ l = IF h <= t THEN t - h ELSE t - h + BufferSize
      BY <1>9
    <2> DEFINE x == Held(h, t2)
    <2>5. x = IF h <= t2 THEN t2 - h ELSE t2 - h + BufferSize
      BY <2>1
    <2> HIDE DEF l, x
    <2>6. x = l + n
      BY <1>2, <2>2, <2>3, <2>4, <2>5
    <2> QED  BY <2>6 DEF x
  <1>11. /\ c2 \in Bytes /\ Len(c2) = l + n
        /\ \A i \in 1..(l + n) : c2[i] = b2[Wrap(h + i - 1)] /\ Wrap(h + i - 1) \in Slots
    <2>1. /\ c2 \in Bytes /\ Len(c2) = Held(h, t2)
          /\ \A i \in 1..Held(h, t2) : c2[i] = b2[Wrap(h + i - 1)] /\ Wrap(h + i - 1) \in Slots
      BY <1>8, Contents
    <2> QED  BY <1>10, <2>1
  <1>12. ASSUME NEW i \in 1..(l + n)
         PROVE  c2[i] = IF i <= l THEN c[i] ELSE w[i - l]
    <2> DEFINE j == Wrap(h + i - 1)
    <2>1. j \in Slots /\ c2[i] = b2[j]
      BY <1>11
    <2>2. Held(t, j) = IF i <= l THEN i - 1 - l + BufferSize ELSE i - 1 - l
      <3>1. Held(t, j) = IF t <= j THEN j - t ELSE j - t + BufferSize
        BY <1>4, <2>1
      <3>2. j = IF h + i - 1 < BufferSize THEN h + i - 1 ELSE h + i - 1 - BufferSize
        BY <1>3, <1>2 DEF Wrap, Slots
      <3>3. h \in 0..(BufferSize - 1) /\ t \in 0..(BufferSize - 1) /\ l + n < BufferSize
        BY <1>3 DEF Slots
      <3>4. l \in Nat /\ l = IF h <= t THEN t - h ELSE t - h + BufferSize
        BY <1>9
      <3> HIDE DEF j, l
      <3> QED  BY <1>2, <3>1, <3>2, <3>3, <3>4
    <2>3. CASE i <= l
      BY <1>2, <1>4, <1>9, <2>1, <2>2, <2>3
    <2>4. CASE ~(i <= l)
      <3>1. Held(t, j) < n /\ Held(t, j) + 1 = i - l
        <4> DEFINE x == Held(t, j)
        <4>1. x = i - 1 - l /\ l \in Nat
          BY <1>9, <2>2, <2>4
        <4> HIDE DEF x, l
        <4>2. x < n /\ x + 1 = i - l
          BY <1>2, <4>1
        <4> QED  BY <4>2 DEF x
      <3> QED  BY <1>4, <2>1, <2>4, <3>1
    <2> QED  BY <2>3, <2>4
  <1>13. l \in Nat /\ n \in Nat
    BY <1>2, <1>9
  <1> HIDE DEF c, c2, l
  <1>14. c2 \o w2 = c \o w
    <2>1. /\ c2 \o w2 \in Bytes /\ Len(c2 \o w2) = (l + n) + (Len(w) - n)
          /\ Agree(c2 \o w2, c2, l + n)
          /\ \A i \in 1..(Len(w) - n) : (c2 \o w2)[(l + n) + i] = w2[i]
      <3>1. c2 \in Bytes /\ w2 \in Bytes /\ Len(c2) = l + n /\ Len(w2) = Len(w) - n
        BY <1>7, <1>11
      <3>2. /\ c2 \o w2 \in Bytes /\ Len(c2 \o w2) = Len(c2) + Len(w2)
            /\ Agree(c2 \o w2, c2, Len(c2))
            /\ \A i \in 1..Len(w2) : (c2 \o w2)[Len(c2) + i] = w2[i]
        BY <3>1, Concatenated, Zenon
      <3> QED  BY <3>1, <3>2
    <2>2. /\ c \o w \in Bytes /\ Len(c \o w) = l + Len(w)
          /\ Agree(c \o w, c, l)
          /\ \A i \in 1..Len(w) : (c \o w)[l + i] = w[i]
      <3>1. c \in Bytes /\ Len(c) = l
        BY <1>9
      <3>2. /\ c \o w \in Bytes /\ Len(c \o w) = Len(c) + Len(w)
            /\ Agree(c \o w, c, Len(c))
            /\ \A i \in 1..Len(w) : (c \o w)[Len(c) + i] = w[i]
        BY <1>1, <3>1, Concatenated, Zenon
      <3> QED  BY <3>1, <3>2
    <2>3. ASSUME NEW i \in 1..Len(c \o w) PROVE (c2 \o w2)[i] = (c \o w)[i]
      <3>1. CASE i <= l
        <4>1. i \in 1..l /\ i \in 1..(l + n)
          BY <1>2, <1>9, <1>13, <3>1
        <4> QED  BY <1>12, <2>1, <2>2, <3>1, <4>1 DEF Agree
      <3>2. CASE ~(i <= l) /\ i <= l + n
        <4>1. i \in 1..(l + n) /\ i - l \in 1..Len(w) /\ l + (i - l) = i
          BY <1>2, <1>13, <2>2, <3>2
        <4> QED  BY <1>12, <2>1, <2>2, <3>2, <4>1 DEF Agree
      <3>3. CASE ~(i <= l + n)
        <4> DEFINE x == i - (l + n)
        <4>1. x \in 1..(Len(w) - n) /\ i = (l + n) + x /\ n + x \in 1..Len(w) /\ i = l + (n + x)
          BY <1>2, <1>13, <2>2, <3>3
        <4> HIDE DEF x
        <4> QED  BY <1>7, <2>1, <2>2, <4>1
      <3> QED  BY <3>1, <3>2, <3>3
    <2>4. (l + n) + (Len(w) - n) = l + Len(w)
      BY <1>2, <1>9
    <2> QED  BY <2>1, <2>2, <2>3, <2>4, SameBytes DEF Agree
  <1> QED  BY <1>14 DEF c, c2, InOrder

(* What is taken from the front does not touch the rest. *)
LEMMA DroppedInFront ==
  ASSUME NEW s \in Bytes, NEW r \in Bytes, NEW n \in Nat, n <= Len(s), Dropped(r, s, n),
         NEW w \in Bytes
  PROVE  Dropped(r \o w, s \o w, n)
  <1>1. /\ Len(s) \in Nat /\ Len(r) \in Nat /\ Len(w) \in Nat /\ Len(r) = Len(s) - n
        /\ Len(s \o w) = Len(s) + Len(w) /\ Len(r \o w) = Len(r) + Len(w)
        /\ Agree(s \o w, s, Len(s)) /\ Agree(r \o w, r, Len(r))
        /\ \A i \in 1..Len(w) : (s \o w)[Len(s) + i] = w[i]
        /\ \A i \in 1..Len(w) : (r \o w)[Len(r) + i] = w[i]
    BY Concatenated DEF Dropped
  <1>2. ASSUME NEW i \in 1..(Len(s \o w) - n) PROVE (r \o w)[i] = (s \o w)[n + i]
    <2>1. CASE i <= Len(r)
      <3>1. i \in 1..Len(r) /\ n + i \in 1..Len(s) /\ i \in 1..(Len(s) - n)
        BY <1>1, <2>1
      <3> QED  BY <1>1, <3>1 DEF Agree, Dropped
    <2>2. CASE ~(i <= Len(r))
      <3> DEFINE x == i - Len(r)
      <3>1. x \in 1..Len(w) /\ i = Len(r) + x /\ n + i = Len(s) + x
        BY <1>1, <2>2
      <3> HIDE DEF x
      <3> QED  BY <1>1, <3>1
    <2> QED  BY <2>1, <2>2
  <1>3. Len(r \o w) = Len(s \o w) - n
    BY <1>1
  <1> QED  BY <1>2, <1>3 DEF Dropped

(* The parser moves head past n bytes. *)
LEMMA Advanced ==
  ASSUME NEW b, NEW h, NEW t, RingOK(b, h, t),
         NEW n \in Nat, n <= Held(h, t), NEW h2, h2 = Wrap(h + n)
  PROVE  (h + n) % BufferSize = h2 /\ h2 \in Slots /\ Dropped(Content(b, h2, t), Content(b, h, t), n)
  <1>1. BufferSize \in Nat /\ BufferSize > 0
    BY RingBufferAssumption
  <1>2. b \in [Slots -> Byte] /\ h \in Slots /\ t \in Slots
    BY DEF RingOK
  <1> DEFINE l == Held(h, t)
  <1>3. /\ Len(Content(b, h, t)) = l /\ l \in Slots
        /\ l = IF h <= t THEN t - h ELSE t - h + BufferSize
        /\ \A i \in 1..l : Content(b, h, t)[i] = b[Wrap(h + i - 1)]
    BY Contents
  <1>4. (h + n) % BufferSize = h2 /\ h2 \in Slots
    <2>1. h + n \in 0..(2 * BufferSize - 1)
      BY <1>2, <1>1, <1>3 DEF Slots
    <2> QED  BY <2>1, Wrapped
  <1>5. /\ Len(Content(b, h2, t)) = Held(h2, t)
        /\ Held(h2, t) = IF h2 <= t THEN t - h2 ELSE t - h2 + BufferSize
        /\ \A i \in 1..Held(h2, t) : Content(b, h2, t)[i] = b[Wrap(h2 + i - 1)]
    <2>1. RingOK(b, h2, t)
      BY <1>2, <1>4 DEF RingOK
    <2> QED  BY <2>1, Contents
  <1>6. Held(h2, t) = l - n
    <2>1. /\ h \in 0..(BufferSize - 1) /\ t \in 0..(BufferSize - 1) /\ n <= l
          /\ h2 \in 0..(BufferSize - 1)
      BY <1>2, <1>4 DEF Slots
    <2>2. h2 = IF h + n < BufferSize THEN h + n ELSE h + n - BufferSize
      <3>1. h2 = Wrap(h + n) /\ h + n \in Nat
        BY <2>1
      <3> QED  BY <1>1, <2>1, <3>1 DEF Wrap
    <2>3. l \in Nat /\ l = IF h <= t THEN t - h ELSE t - h + BufferSize
      BY <1>3 DEF Slots
    <2>4. Held(h2, t) = IF h2 <= t THEN t - h2 ELSE t - h2 + BufferSize
      BY <1>5
    <2> HIDE DEF l
    <2> QED  BY <1>1, <2>2, <2>1, <2>3, <2>4
  <1>7. ASSUME NEW i \in 1..(l - n) PROVE Content(b, h2, t)[i] = Content(b, h, t)[n + i]
    <2>1. n + i \in 1..l /\ Wrap(h2 + i - 1) = Wrap(h + (n + i) - 1)
      BY <1>2, <1>1, <1>3, <1>4 DEF Wrap, Slots
    <2> QED  BY <1>3, <1>5, <1>6, <2>1
  <1> QED  BY <1>3, <1>4, <1>5, <1>6, <1>7 DEF Dropped

-----------------------------------------------------------------------------
(* The stream a connection carries: u is out and not yet parsed, rest is     *)
(* what a sender still has of its frame, the next message to come out of it  *)
(* is the turn-th of msgs, and the frames from the one torn on mean nothing. *)
Intact(n, tn) == IF tn = 0 THEN n ELSE tn - 1

StreamOK(u, rest, msgs, turn, tn) ==
    /\ u \in Bytes /\ rest \in Bytes /\ turn \in Nat \ {0}
    /\ Len(msgs) \in Nat /\ (\A k \in 1..Len(msgs) : msgs[k] \in Messages)
    /\ tn \in 0..Len(msgs)

Framed(u, rest, msgs, turn, tn, pos) ==
    LET last == Intact(Len(msgs), tn)
    IN  /\ pos \in Positions
        /\ Frames(u \o rest, msgs, turn, last, pos)
        /\ tn = 0 => Covered(u \o rest, msgs, turn, last, pos) /\ turn <= Len(msgs) + 1
        /\ \A k \in turn..last : k < Len(msgs) => EndOf(pos, msgs, k) <= Len(u)

Shaped(u, rest, msgs, turn, tn) == \E pos : Framed(u, rest, msgs, turn, tn, pos)

(* Concatenation is associative. *)
LEMMA Associated ==
  ASSUME NEW s \in Bytes, NEW r \in Bytes, NEW w \in Bytes
  PROVE  (s \o r) \o w = s \o (r \o w)
  BY ConcatAssociative DEF Bytes

(* The length of a concatenation, and its front. *)
LEMMA Joined ==
  ASSUME NEW s \in Bytes, NEW r \in Bytes
  PROVE  /\ s \o r \in Bytes /\ s \o <<>> = s /\ <<>> \in Bytes
         /\ Len(s) \in Nat /\ Len(r) \in Nat /\ Len(s \o r) = Len(s) + Len(r)
         /\ Agree(s \o r, s, Len(s))
  BY ConcatProperties, ConcatEmptySeq, EmptySeq, LenProperties DEF Bytes, Agree

(* A sender begins a frame: c is out, d is left of it. *)
LEMMA FrameBegun ==
  ASSUME Resyncs, NEW u, NEW msgs, NEW turn, StreamOK(u, <<>>, msgs, turn, 0),
         Shaped(u, <<>>, msgs, turn, 0), NEW m \in Messages, NEW z \in Filler,
         NEW c \in Bytes, NEW d \in Bytes, c \o d = z \o Encode(m),
         NEW more, Len(more) = Len(msgs) + 1, Agree(more, msgs, Len(msgs)),
         more[Len(msgs) + 1] = m
  PROVE  Shaped(u \o c, d, more, turn, 0)
  <1>1. PICK pos : Framed(u, <<>>, msgs, turn, 0, pos)
    BY DEF Shaped
  <1> DEFINE l == Len(msgs) + 1
             f == z \o Encode(m)
  <1>2. /\ u \in Bytes /\ Len(msgs) \in Nat /\ l \in Nat \ {0} /\ l - 1 = Len(msgs)
        /\ \A k \in 1..Len(msgs) : msgs[k] \in Messages
        /\ turn \in Nat \ {0}
    BY DEF StreamOK
  <1>3. /\ pos \in Positions /\ turn <= Len(msgs) + 1
        /\ Frames(u, msgs, turn, Len(msgs), pos) /\ Covered(u, msgs, turn, Len(msgs), pos)
    <2>1. u \o <<>> = u
      BY <1>2, Joined
    <2>2. Intact(Len(msgs), 0) = Len(msgs)
      BY DEF Intact
    <2> QED  BY <1>1, <2>1, <2>2 DEF Framed
  <1> DEFINE pos2 == [pos EXCEPT ![l] = Len(u) + Len(z)]
  <1>4. turn \in 1..l
    BY <1>2, <1>3
  <1> HIDE DEF l, f, pos2
  <1>5. /\ pos2 \in Positions /\ u \o f \in Bytes
        /\ Frames(u \o f, more, turn, l, pos2) /\ Covered(u \o f, more, turn, l, pos2)
        /\ Within(pos2, more, turn, l - 1, Len(u))
    <2>1. /\ \A k \in 1..(l - 1) : msgs[k] \in Messages
          /\ Frames(u, msgs, turn, l - 1, pos) /\ Covered(u, msgs, turn, l - 1, pos)
          /\ Agree(more, msgs, l - 1) /\ more[l] = m
      BY <1>2, <1>3 DEF l
    <2>2. f = z \o Encode(m) /\ pos2 = [pos EXCEPT ![l] = Len(u) + Len(z)]
      BY DEF f, pos2
    <2> QED  BY <1>2, <1>3, <1>4, <2>1, <2>2, FramesAppend
  <1>6. /\ (u \o c) \o d = u \o f /\ Len(u \o c) = Len(u) + Len(c)
        /\ Len(u) \in Nat /\ Len(c) \in Nat
    <2>1. c \o d = f
      BY DEF f
    <2>2. (u \o c) \o d = u \o (c \o d)
      BY <1>2, Associated
    <2>3. Len(u \o c) = Len(u) + Len(c)
      BY <1>2, Joined
    <2>4. Len(u) \in Nat /\ Len(c) \in Nat
      BY <1>2, Joined
    <2> QED  BY <2>1, <2>3, <2>4, <2>2
  <1>7. Len(more) = l /\ Intact(Len(more), 0) = l
    BY DEF Intact, l
  <1>8. ASSUME NEW k \in turn..l, k < l PROVE EndOf(pos2, more, k) <= Len(u \o c)
    <2>1. k \in turn..(l - 1) /\ k \in Nat /\ more[k] \in Messages
      <3>1. k \in turn..(l - 1) /\ k \in Nat /\ k \in 1..Len(msgs)
        BY <1>2, <1>8
      <3> QED  BY <1>2, <3>1 DEF Agree
    <2>2. EndOf(pos2, more, k) <= Len(u) /\ EndOf(pos2, more, k) \in Int
      BY <1>5, <2>1, EndIsInt DEF Within
    <2> QED  BY <1>6, <2>2
  <1>9. Framed(u \o c, d, more, turn, 0, pos2)
    <2>1. turn <= l + 1
      BY <1>2, <1>4
    <2> QED  BY <1>5, <1>6, <1>7, <1>8, <2>1 DEF Framed
  <1> QED  BY <1>9 DEF Shaped

(* It goes on with it. *)
LEMMA FrameContinued ==
  ASSUME NEW u, NEW msgs, NEW turn, NEW tn, NEW c \in Bytes, NEW d \in Bytes,
         StreamOK(u, c \o d, msgs, turn, tn), Shaped(u, c \o d, msgs, turn, tn)
  PROVE  Shaped(u \o c, d, msgs, turn, tn)
  <1>1. PICK pos : Framed(u, c \o d, msgs, turn, tn, pos)
    BY DEF Shaped
  <1>2. /\ (u \o c) \o d = u \o (c \o d) /\ Len(u \o c) = Len(u) + Len(c)
        /\ Len(u) \in Nat /\ Len(c) \in Nat
    <2>1. u \in Bytes
      BY DEF StreamOK
    <2>2. (u \o c) \o d = u \o (c \o d)
      BY <2>1, Associated
    <2>3. Len(u \o c) = Len(u) + Len(c)
      BY <2>1, Joined
    <2>4. Len(u) \in Nat /\ Len(c) \in Nat
      BY <2>1, Joined
    <2> QED  BY <2>3, <2>4, <2>2
  <1> DEFINE last == Intact(Len(msgs), tn)
  <1>3. ASSUME NEW k \in turn..last, k < Len(msgs)
        PROVE  EndOf(pos, msgs, k) <= Len(u \o c)
    <2>1. EndOf(pos, msgs, k) <= Len(u)
      BY <1>1, <1>3 DEF Framed
    <2>2. EndOf(pos, msgs, k) \in Int
      <3>1. k \in 1..Len(msgs) /\ k \in Nat
        BY <1>3 DEF StreamOK
      <3> QED  BY <1>1, <3>1, EndIsInt DEF StreamOK, Framed
    <2> QED  BY <1>2, <2>1, <2>2
  <1>4. Framed(u \o c, d, msgs, turn, tn, pos)
    BY <1>1, <1>2, <1>3 DEF Framed
  <1> QED  BY <1>4 DEF Shaped

(* A frame is torn, or was: the ones before it are not touched. *)
LEMMA FrameCut ==
  ASSUME NEW u, NEW rest, NEW msgs, NEW turn, NEW tn, NEW tn2,
         StreamOK(u, rest, msgs, turn, tn), Shaped(u, rest, msgs, turn, tn),
         tn2 \in 1..Len(msgs), tn2 = tn \/ (tn = 0 /\ tn2 = Len(msgs)),
         NEW c \in Bytes,
         NEW more, Len(more) \in Nat, Len(msgs) <= Len(more), Agree(more, msgs, Len(msgs))
  PROVE  Shaped(u \o c, <<>>, more, turn, tn2)
  <1>1. PICK pos : Framed(u, rest, msgs, turn, tn, pos)
    BY DEF Shaped
  <1> DEFINE last  == Intact(Len(msgs), tn)
             last2 == tn2 - 1
             s == u \o rest
             r == u \o c
  <1>2. /\ u \in Bytes /\ rest \in Bytes /\ Len(msgs) \in Nat /\ turn \in Nat \ {0}
        /\ \A k \in 1..Len(msgs) : msgs[k] \in Messages
        /\ tn \in 0..Len(msgs)
    BY DEF StreamOK
  <1>3. /\ last \in Nat /\ last2 \in Nat /\ last2 <= last /\ last <= Len(msgs)
        /\ last2 < Len(msgs)
    BY <1>2 DEF Intact
  <1>4. /\ r \in Bytes /\ r \o <<>> = r /\ Len(r) = Len(u) + Len(c) /\ Len(r) \in Nat
        /\ Len(u) \in Nat /\ Len(u) <= Len(r)
        /\ Agree(r, u, Len(u)) /\ Agree(s, u, Len(u))
    <2>1. r \in Bytes /\ Agree(r, u, Len(u)) /\ Len(r) = Len(u) + Len(c)
      BY <1>2, Joined
    <2>2. Agree(s, u, Len(u))
      BY <1>2, Joined
    <2>3. Len(u) \in Nat /\ Len(c) \in Nat
      BY <1>2, Joined
    <2> HIDE DEF r, s
    <2>4. r \o <<>> = r
      BY <2>1, Joined
    <2> QED  BY <2>1, <2>2, <2>3, <2>4
  <1>5. /\ pos \in Positions /\ Frames(s, msgs, turn, last, pos)
        /\ \A k \in turn..last : k < Len(msgs) => EndOf(pos, msgs, k) <= Len(u)
    BY <1>1 DEF Framed
  <1> HIDE DEF last, last2, s, r
  <1>6. Within(pos, msgs, turn, last2, Len(u))
    <2> SUFFICES ASSUME NEW k \in turn..last2 PROVE EndOf(pos, msgs, k) <= Len(u)
      BY DEF Within
    <2>1. k \in turn..last /\ k < Len(msgs)
      BY <1>2, <1>3
    <2> QED  BY <1>5, <2>1
  <1>7. Agree(r, s, Len(u)) /\ Agree(more, msgs, last2)
    BY <1>2, <1>3, <1>4 DEF Agree
  <1>8. \A k \in 1..last : msgs[k] \in Messages
    BY <1>2, <1>3
  <1>9. Frames(r, more, turn, last2, pos)
    BY <1>2, <1>3, <1>4, <1>5, <1>6, <1>7, <1>8, FramesPrefix
  <1>10. ASSUME NEW k \in turn..last2 PROVE EndOf(pos, more, k) <= Len(r)
    BY <1>9, <1>10 DEF Frames, Frame
  <1>11. Framed(r, <<>>, more, turn, tn2, pos)
    <2>1. Intact(Len(more), tn2) = last2 /\ tn2 # 0
      BY <1>2 DEF Intact, last2
    <2> QED  BY <1>4, <1>5, <1>9, <1>10, <2>1 DEF Framed
  <1> QED  BY <1>11 DEF Shaped, r

(* The parser takes n bytes: of a gap, or a whole frame. *)
LEMMA FramePassed ==
  ASSUME NEW u, NEW rest, NEW msgs, NEW turn, NEW tn, NEW pos,
         StreamOK(u, rest, msgs, turn, tn), Framed(u, rest, msgs, turn, tn, pos),
         NEW n \in Nat, n <= Len(u), NEW u2 \in Bytes, Dropped(u2, u, n),
         NEW next \in Nat,
         \A k \in next..Intact(Len(msgs), tn) : n <= pos[k],
         \/ next = turn
         \/ next = turn + 1 /\ turn <= Intact(Len(msgs), tn) /\ n = EndOf(pos, msgs, turn)
  PROVE  Shaped(u2, rest, msgs, next, tn)
  <1> DEFINE last == Intact(Len(msgs), tn)
             pos2 == [k \in Nat |-> pos[k] - n]
             s == u \o rest
             r == u2 \o rest
  <1>1. /\ u \in Bytes /\ rest \in Bytes /\ Len(msgs) \in Nat /\ turn \in Nat \ {0}
        /\ \A k \in 1..Len(msgs) : msgs[k] \in Messages
        /\ tn \in 0..Len(msgs)
    BY DEF StreamOK
  <1>2. last \in Nat /\ last <= Len(msgs) /\ (tn = 0 => last = Len(msgs))
    BY <1>1 DEF Intact
  <1>3. /\ pos \in Positions /\ Frames(s, msgs, turn, last, pos)
        /\ tn = 0 => Covered(s, msgs, turn, last, pos) /\ turn <= Len(msgs) + 1
        /\ \A k \in turn..last : k < Len(msgs) => EndOf(pos, msgs, k) <= Len(u)
    BY DEF Framed
  <1>4. /\ Dropped(r, s, n) /\ Len(s) \in Nat /\ n <= Len(s)
        /\ Len(u) \in Nat /\ Len(u2) = Len(u) - n
    <2>1. Dropped(r, s, n) /\ Len(u2) = Len(u) - n
      BY <1>1, DroppedInFront DEF Dropped
    <2>2. Len(s) = Len(u) + Len(rest) /\ Len(u) \in Nat /\ Len(rest) \in Nat
      BY <1>1, Joined
    <2> QED  BY <2>1, <2>2
  <1>5. /\ \A k \in next..last : n <= pos[k]
        /\ \/ next = turn
           \/ next = turn + 1 /\ turn <= last /\ n = EndOf(pos, msgs, turn)
    OBVIOUS
  <1> HIDE DEF last, s, r
  <1>6. \A k \in 1..last : msgs[k] \in Messages
    BY <1>1, <1>2
  <1>7. Shifted(pos2, pos, n)
    BY DEF Shifted
  <1> HIDE DEF pos2
  <1>8. /\ pos2 \in Positions /\ Frames(r, msgs, next, last, pos2)
        /\ \A k \in turn..last : EndOf(pos2, msgs, k) = EndOf(pos, msgs, k) - n
        /\ Covered(s, msgs, turn, last, pos) => Covered(r, msgs, next, last, pos2)
    <2>1. pos \in Positions /\ Frames(s, msgs, turn, last, pos)
      BY <1>3
    <2> QED  BY <1>1, <1>2, <1>4, <1>5, <1>6, <1>7, <2>1, FramesDrop
  <1>9. ASSUME NEW k \in next..last, k < Len(msgs) PROVE EndOf(pos2, msgs, k) <= Len(u2)
    <2>1. k \in turn..last /\ k \in Nat /\ k \in 1..last
      BY <1>1, <1>5
    <2>2. EndOf(pos, msgs, k) \in Int /\ EndOf(pos, msgs, k) <= Len(u)
      BY <1>3, <1>6, <1>9, <2>1, EndIsInt
    <2> QED  BY <1>4, <1>8, <2>1, <2>2
  <1>10. tn = 0 => next <= Len(msgs) + 1
    BY <1>1, <1>2, <1>3, <1>5
  <1>11. Framed(u2, rest, msgs, next, tn, pos2)
    BY <1>3, <1>8, <1>9, <1>10 DEF Framed, last, r
  <1> QED  BY <1>11 DEF Shaped

(* What the parser sees first: the frame of the message whose turn it is, or *)
(* a gap before it; nothing is known of it after a torn frame.               *)
LEMMA FirstBytes ==
  ASSUME NEW u, NEW rest, NEW msgs, NEW turn, NEW tn, NEW pos,
         StreamOK(u, rest, msgs, turn, tn), Framed(u, rest, msgs, turn, tn, pos),
         2 <= Len(u)
  PROVE  LET last == Intact(Len(msgs), tn)
         IN  /\ Field(u \o rest) = Field(u) /\ Agree(u \o rest, u, Len(u)) /\ Len(u) \in Nat
             /\ last \in Nat /\ last <= Len(msgs) /\ (turn > last => tn # 0)
             /\ pos \in Positions /\ Frames(u \o rest, msgs, turn, last, pos)
             /\ turn <= last => msgs[turn] \in Messages
             /\ \A k \in turn..last : k # turn => EndOf(pos, msgs, turn) <= pos[k]
  <1> DEFINE last == Intact(Len(msgs), tn)
  <1>1. /\ u \in Bytes /\ rest \in Bytes /\ Len(msgs) \in Nat /\ turn \in Nat \ {0}
        /\ \A k \in 1..Len(msgs) : msgs[k] \in Messages
        /\ tn \in 0..Len(msgs)
    BY DEF StreamOK
  <1>2. last \in Nat /\ last <= Len(msgs)
    BY <1>1 DEF Intact
  <1>3. /\ Len(u) \in Nat /\ Len(rest) \in Nat /\ Len(u \o rest) = Len(u) + Len(rest)
        /\ Agree(u \o rest, u, Len(u))
    BY <1>1, Joined
  <1>4. Field(u \o rest) = Field(u)
    <2>1. 1 \in 1..Len(u) /\ 2 \in 1..Len(u)
      BY <1>3
    <2> QED  BY <1>3, <2>1 DEF Agree, Field
  <1>5. pos \in Positions /\ Frames(u \o rest, msgs, turn, last, pos)
    BY DEF Framed
  <1> HIDE DEF last
  <1>6. turn > last => tn # 0
    <2> SUFFICES ASSUME turn > last, tn = 0 PROVE FALSE
      OBVIOUS
    <2>1. Len(u \o rest) = 0
      <3>1. Covered(u \o rest, msgs, turn, last, pos) /\ ~(turn <= last)
        BY <1>1, <1>2 DEF Framed, last
      <3> QED  BY <3>1 DEF Covered
    <2> QED  BY <1>3, <2>1
  <1>7. turn <= last => msgs[turn] \in Messages
    BY <1>1, <1>2
  <1>8. ASSUME NEW k \in turn..last, k # turn PROVE EndOf(pos, msgs, turn) <= pos[k]
    <2>1. turn \in turn..last /\ turn < k
      BY <1>1, <1>2, <1>8
    <2> QED  BY <1>5, <2>1 DEF Frames, Frame
  <1> QED  BY <1>2, <1>3, <1>4, <1>5, <1>6, <1>7, <1>8 DEF last

(* An impossible length: one byte of the gap goes. *)
LEMMA ByteSkipped ==
  ASSUME NEW u, NEW rest, NEW msgs, NEW turn, NEW tn,
         StreamOK(u, rest, msgs, turn, tn), Shaped(u, rest, msgs, turn, tn),
         2 <= Len(u), Field(u) = 0 \/ Field(u) > MaxMessage,
         NEW u2 \in Bytes, Dropped(u2, u, 1)
  PROVE  Shaped(u2, rest, msgs, turn, tn)
  <1>1. PICK pos : Framed(u, rest, msgs, turn, tn, pos)
    BY DEF Shaped
  <1> DEFINE last == Intact(Len(msgs), tn)
  <1>2. /\ Field(u \o rest) = Field(u) /\ Len(u) \in Nat
        /\ last \in Nat
        /\ pos \in Positions /\ Frames(u \o rest, msgs, turn, last, pos)
        /\ turn <= last => msgs[turn] \in Messages
        /\ \A k \in turn..last : k # turn => EndOf(pos, msgs, turn) <= pos[k]
    BY <1>1, FirstBytes
  <1>3. turn \in Nat \ {0}
    BY DEF StreamOK
  <1> HIDE DEF last
  <1>4. ASSUME NEW k \in turn..last PROVE 1 <= pos[k]
    <2>1. turn <= last /\ msgs[turn] \in Messages /\ k \in Nat
      BY <1>2, <1>3
    <2>2. pos[turn] \in Nat /\ 1 <= pos[turn]
      BY <1>2, <1>3, <2>1, BadIsGap
    <2>3. pos[k] \in Int
      BY <1>2, <2>1 DEF Positions
    <2>4. CASE k # turn
      <3>1. pos[turn] + 2 < EndOf(pos, msgs, turn) /\ EndOf(pos, msgs, turn) \in Int
        BY <1>2, <1>3, <2>1, EndIsInt
      <3>2. EndOf(pos, msgs, turn) <= pos[k]
        BY <1>2, <2>4
      <3> QED  BY <2>2, <2>3, <3>1, <3>2
    <2> QED  BY <2>2, <2>4
  <1>5. 1 \in Nat /\ 1 <= Len(u) /\ turn \in Nat
    BY <1>2, <1>3
  <1> QED  BY <1>1, <1>4, <1>5, FramePassed DEF last

(* A possible length: it is that of the message whose turn it is, unless a   *)
(* frame was torn before. *)
LEMMA FrameExtracted ==
  ASSUME NEW u, NEW rest, NEW msgs, NEW turn, NEW tn,
         StreamOK(u, rest, msgs, turn, tn), Shaped(u, rest, msgs, turn, tn),
         2 <= Len(u), Field(u) \in Nat \ {0}, 2 + Field(u) <= Len(u),
         NEW u2 \in Bytes, Dropped(u2, u, 2 + Field(u))
  PROVE  LET last == Intact(Len(msgs), tn)
         IN  /\ Shaped(u2, rest, msgs, turn + 1, tn)
             /\ turn > last => tn # 0
             /\ turn <= last => /\ turn <= Len(msgs) /\ Field(u) = Len(msgs[turn])
                                /\ \A i \in 1..Field(u) : u[2 + i] = msgs[turn][i]
  <1>1. PICK pos : Framed(u, rest, msgs, turn, tn, pos)
    BY DEF Shaped
  <1> DEFINE last == Intact(Len(msgs), tn)
  <1>2. /\ Field(u \o rest) = Field(u) /\ Agree(u \o rest, u, Len(u)) /\ Len(u) \in Nat
        /\ last \in Nat /\ last <= Len(msgs) /\ (turn > last => tn # 0)
        /\ pos \in Positions /\ Frames(u \o rest, msgs, turn, last, pos)
        /\ turn <= last => msgs[turn] \in Messages
        /\ \A k \in turn..last : k # turn => EndOf(pos, msgs, turn) <= pos[k]
    BY <1>1, FirstBytes
  <1>3. turn \in Nat \ {0} /\ Len(msgs) \in Nat
    BY DEF StreamOK
  <1>4. CASE turn <= last
    <2> HIDE DEF last
    <2> DEFINE n == 2 + Field(u)
    <2>1. /\ Field(u) = Len(msgs[turn]) /\ EndOf(pos, msgs, turn) = 2 + Field(u)
          /\ \A i \in 1..Field(u) : (u \o rest)[2 + i] = msgs[turn][i]
      <3> DEFINE s == u \o rest
      <3>1. /\ Field(s) = Field(u) /\ Field(s) # 0 /\ Frames(s, msgs, turn, last, pos)
            /\ msgs[turn] \in Messages /\ pos \in Positions
        BY <1>2, <1>4
      <3> HIDE DEF s
      <3>2. /\ Field(s) = Len(msgs[turn]) /\ EndOf(pos, msgs, turn) = 2 + Field(s)
            /\ \A i \in 1..Field(s) : s[2 + i] = msgs[turn][i]
        BY <1>2, <1>3, <1>4, <3>1, GoodIsFrame
      <3> QED  BY <3>1, <3>2 DEF s
    <2>2. ASSUME NEW i \in 1..Field(u) PROVE u[2 + i] = msgs[turn][i]
      <3>1. 2 + i \in 1..Len(u)
        BY <1>2
      <3> QED  BY <1>2, <2>1, <3>1 DEF Agree
    <2>3. n \in Nat /\ n <= Len(u) /\ Dropped(u2, u, n) /\ n = EndOf(pos, msgs, turn)
      BY <2>1
    <2>4. ASSUME NEW k \in (turn + 1)..last PROVE n <= pos[k]
      <3>1. k \in turn..last /\ k # turn
        BY <1>3
      <3> QED  BY <1>2, <2>3, <3>1
    <2>5. turn + 1 \in Nat
      BY <1>3
    <2> HIDE DEF n
    <2>6. Shaped(u2, rest, msgs, turn + 1, tn)
      BY <1>1, <1>4, <2>3, <2>4, <2>5, FramePassed DEF last
    <2>7. turn <= Len(msgs)
      BY <1>2, <1>3, <1>4
    <2>8. ~(turn > last)
      BY <1>2, <1>3, <1>4
    <2> QED  BY <2>1, <2>2, <2>6, <2>7, <2>8 DEF last
  <1>5. CASE ~(turn <= last)
    <2>1. tn # 0 /\ turn > last
      BY <1>2, <1>3, <1>5
    <2> HIDE DEF last
    <2>2. \A k \in (turn + 1)..last : FALSE
      BY <1>2, <1>3, <2>1
    <2>3. Framed(u2, rest, msgs, turn + 1, tn, pos)
      BY <1>2, <2>1, <2>2 DEF Framed, Frames, last
    <2> QED  BY <1>5, <2>1, <2>3 DEF Shaped, last
  <1> QED  BY <1>4, <1>5

-----------------------------------------------------------------------------
(* What the senders have in hand: a frame of which nothing is out yet is     *)
(* whole, with what the client put before it.                                *)
Texts == Messages \cup {<<>>}
Whole(f) == \E z \in Filler : f.rest = z \o Encode(f.msg)
FrameOK(f) ==
    /\ f \in [rest : Bytes, msg : Texts, retries : Nat, place : Nat]
    /\ f # NoFrame => f.msg \in Messages /\ f.rest # <<>> /\ (f.place = 0 => Whole(f))

SendersOK ==
    /\ wire \in Bytes /\ sent \in Seq(Messages)
    /\ frame = [t \in Threads |-> frame[t]]
    /\ \A t \in Threads : FrameOK(frame[t]) /\ frame[t].place <= Len(sent)

TypeInv ==
    /\ SendersOK
    /\ RingOK(buffer, head, tail) /\ delivered \in Seq(Bytes) /\ closed \in BOOLEAN

(* A thread that sends nothing. *)
LEMMA NoFrameOK == FrameOK(NoFrame) /\ NoFrame.place = 0 /\ NoFrame.rest = <<>>
  <1>1. <<>> \in Bytes /\ <<>> \in Texts
    BY EmptySeq DEF Bytes, Texts
  <1> QED  BY <1>1 DEF FrameOK, NoFrame

(* What a call of sendMessage begins with. *)
LEMMA WholeFrame ==
  ASSUME NEW m \in Messages, NEW z \in Filler
  PROVE  z \o Encode(m) \in Bytes /\ z \o Encode(m) # <<>>
  <1>1. z \in Bytes /\ Encode(m) \in Bytes /\ Len(Encode(m)) > 0
    <2>1. z \in Seq({0}) /\ {0} \subseteq Byte
      BY SendMessageAssumption DEF Byte
    <2>2. z \in Seq(Byte)
      BY <2>1, SeqMonotonic
    <2> QED  BY <2>2, Encoded, EachMessage DEF Bytes
  <1>2. /\ z \o Encode(m) \in Bytes /\ Len(z \o Encode(m)) = Len(z) + Len(Encode(m))
        /\ Len(z) \in Nat /\ Len(Encode(m)) \in Nat
    BY <1>1, Concatenated
  <1>3. Len(z \o Encode(m)) # 0
    BY <1>1, <1>2
  <1>4. Len(<<>>) = 0
    BY EmptySeq
  <1> QED  BY <1>2, <1>3, <1>4

(* send takes c of the frame and leaves d. *)
Left(f, d, place) == IF d = <<>> THEN NoFrame
                     ELSE [f EXCEPT !.rest = d, !.retries = 0, !.place = place]
PlaceOf(t) == IF Begun(t) THEN frame[t].place ELSE Len(sent) + 1

(* Progress in these terms. *)
LEMMA Sent ==
  ASSUME SendersOK, NEW t \in Threads, Progress(t)
  PROVE  \E c \in Bytes, d \in Bytes :
            /\ frame[t].rest = c \o d /\ wire' = wire \o c
            /\ frame' = [frame EXCEPT ![t] = Left(frame[t], d, PlaceOf(t))]
            /\ sent' = IF Begun(t) THEN sent ELSE Append(sent, frame[t].msg)
            /\ Tear(Others(t)) /\ frame[t] # NoFrame
  <1> DEFINE f == frame[t]
             n == SmallerOf(RoomLeft, Len(f.rest))
             c == SubSeq(f.rest, 1, n)
             d == SubSeq(f.rest, n + 1, Len(f.rest))
  <1>1. /\ frame[t] # NoFrame /\ RoomLeft > 0
        /\ wire' = wire \o c
        /\ sent' = IF Begun(t) THEN sent ELSE Append(sent, f.msg)
        /\ frame' = [frame EXCEPT ![t] =
               IF n = Len(f.rest) THEN NoFrame
               ELSE [f EXCEPT !.rest = SubSeq(@, n + 1, Len(@)), !.retries = 0,
                              !.place = PlaceOf(t)]]
        /\ Tear(Others(t))
    BY DEF Progress, PlaceOf
  <1>2. /\ f.rest \in Bytes /\ f.rest # <<>> /\ wire \in Bytes
        /\ f \in [rest : Bytes, msg : Texts, retries : Nat, place : Nat]
    BY <1>1 DEF SendersOK, FrameOK
  <1>3. /\ Len(f.rest) \in Nat /\ Len(f.rest) > 0 /\ f.rest \in Seq(Byte)
    BY <1>2, EmptySeq DEF Bytes
  <1>4. n \in 1..Len(f.rest)
    <2>1. Len(wire) \in Nat /\ SendBuffer \in Nat
      BY <1>2, LenProperties, SendMessageAssumption DEF Bytes
    <2>2. RoomLeft \in Nat
      BY <1>1, <2>1 DEF RoomLeft
    <2> QED  BY <1>1, <1>3, <2>2 DEF SmallerOf
  <1> HIDE DEF n
  <1>5. c \in Seq(Byte) /\ d \in Seq(Byte) /\ Len(d) = Len(f.rest) - n
    BY <1>3, <1>4, SubSeqProperties, ElementOfSeq
  <1>6. c \o d = f.rest
    <2>1. SubSeq(f.rest, 1, n) \o SubSeq(f.rest, n + 1, Len(f.rest)) = SubSeq(f.rest, 1, Len(f.rest))
      BY <1>3, <1>4, ConcatAdjacentSubSeq
    <2> QED  BY <1>3, <2>1, SubSeqFull
  <1>7. n = Len(f.rest) <=> d = <<>>
    <2>1. (d = <<>> => Len(d) = 0) /\ (d # <<>> => Len(d) \in Nat \ {0})
      BY <1>5, EmptySeq
    <2> DEFINE l == Len(f.rest)
    <2>2. Len(d) = l - n /\ l \in Nat /\ n \in Nat
      BY <1>3, <1>4, <1>5
    <2> HIDE DEF l, d
    <2>3. n = l <=> Len(d) = 0
      BY <2>2
    <2> QED  BY <2>1, <2>3 DEF l
  <1>8. [f EXCEPT !.rest = SubSeq(@, n + 1, Len(@)), !.retries = 0, !.place = PlaceOf(t)]
          = [f EXCEPT !.rest = d, !.retries = 0, !.place = PlaceOf(t)]
    BY <1>2
  <1> HIDE DEF c, d
  <1>9. frame' = [frame EXCEPT ![t] = Left(f, d, PlaceOf(t))]
    BY <1>1, <1>7, <1>8 DEF Left
  <1> QED  BY <1>1, <1>5, <1>6, <1>9 DEF Bytes

(* The fields of a frame after send. *)
LEMMA Rewritten ==
  ASSUME NEW f \in [rest : Bytes, msg : Texts, retries : Nat, place : Nat],
         NEW d \in Bytes, NEW p \in Nat
  PROVE  LET g == [f EXCEPT !.rest = d, !.retries = 0, !.place = p]
         IN  /\ g \in [rest : Bytes, msg : Texts, retries : Nat, place : Nat]
             /\ g.msg = f.msg /\ g.rest = d /\ g.place = p
  OBVIOUS

(* A sender's step keeps the types. *)
LEMMA SendersStep ==
  ASSUME SendersOK, NEW t \in Threads,
         \/ \E m \in Messages, z \in Filler : Start(t, m, z)
         \/ Progress(t) \/ Retry(t) \/ GiveUp(t)
  PROVE  SendersOK'
  <1>1. /\ wire \in Bytes /\ sent \in Seq(Messages) /\ Len(sent) \in Nat
        /\ frame = [u \in Threads |-> frame[u]]
        /\ \A u \in Threads : FrameOK(frame[u]) /\ frame[u].place <= Len(sent)
    BY LenProperties DEF SendersOK
  <1>2. ASSUME NEW f, FrameOK(f), f.place <= Len(sent'), frame' = [frame EXCEPT ![t] = f],
               wire' \in Bytes, sent' \in Seq(Messages), Len(sent) <= Len(sent')
        PROVE  SendersOK'
    <2>1. \A u \in Threads : frame'[u] = IF u = t THEN f ELSE frame[u]
      BY <1>1, <1>2
    <2>2. frame' = [u \in Threads |-> frame'[u]]
      BY <1>1, <1>2
    <2>3. ASSUME NEW u \in Threads PROVE FrameOK(frame'[u]) /\ frame'[u].place <= Len(sent')
      <3>1. frame[u].place \in Nat /\ Len(sent') \in Nat
        BY <1>1, <1>2, LenProperties DEF FrameOK
      <3>2. CASE u = t
        BY <1>2, <2>1, <3>2
      <3>3. CASE u # t
        BY <1>1, <1>2, <2>1, <3>1, <3>3
      <3> QED  BY <3>2, <3>3
    <2> QED  BY <1>2, <2>2, <2>3 DEF SendersOK, FrameOK, Whole
  <1>3. CASE \E m \in Messages, z \in Filler : Start(t, m, z)
    <2>1. PICK m \in Messages, z \in Filler : Start(t, m, z)
      BY <1>3
    <2> DEFINE f == [NoFrame EXCEPT !.rest = z \o Encode(m), !.msg = m]
    <2>2. FrameOK(f) /\ f.place = 0
      <3> DEFINE e == z \o Encode(m)
      <3>1. f = [NoFrame EXCEPT !.rest = e, !.msg = m] /\ e = z \o Encode(m)
        OBVIOUS
      <3> HIDE DEF e, f
      <3>2. f = [rest |-> e, msg |-> m, retries |-> 0, place |-> 0]
        BY <3>1 DEF NoFrame
      <3>3. z \o Encode(m) \in Bytes /\ z \o Encode(m) # <<>> /\ m \in Texts
        BY WholeFrame DEF Texts
      <3>4. Whole(f)
        BY <3>2, <3>1 DEF Whole
      <3> QED  BY <3>2, <3>3, <3>4, <3>1 DEF FrameOK
    <2>3. frame' = [frame EXCEPT ![t] = f] /\ sent' = sent /\ wire' = wire
      BY <2>1 DEF Start
    <2> HIDE DEF f
    <2> QED  BY <1>1, <1>2, <2>2, <2>3
  <1>4. CASE Progress(t)
    <2>1. PICK c \in Bytes, d \in Bytes :
            /\ frame[t].rest = c \o d /\ wire' = wire \o c
            /\ frame' = [frame EXCEPT ![t] = Left(frame[t], d, PlaceOf(t))]
            /\ sent' = IF Begun(t) THEN sent ELSE Append(sent, frame[t].msg)
            /\ Tear(Others(t)) /\ frame[t] # NoFrame
      BY <1>4, Sent
    <2>2. wire' \in Bytes
      BY <1>1, <2>1, Joined
    <2>3. /\ frame[t].msg \in Messages
          /\ frame[t] \in [rest : Bytes, msg : Texts, retries : Nat, place : Nat]
          /\ frame[t].place <= Len(sent) /\ frame[t].place \in Nat
      BY <1>1, <2>1 DEF FrameOK
    <2>4. /\ sent' \in Seq(Messages) /\ Len(sent) <= Len(sent')
          /\ PlaceOf(t) \in 1..Len(sent')
      BY <1>1, <2>1, <2>3, AppendProperties DEF PlaceOf, Begun
    <2>5. FrameOK(Left(frame[t], d, PlaceOf(t))) /\ Left(frame[t], d, PlaceOf(t)).place <= Len(sent')
      <3>1. CASE d = <<>>
        BY <1>1, <2>4, <3>1, NoFrameOK DEF Left
      <3>2. CASE d # <<>>
        <4> DEFINE f == [frame[t] EXCEPT !.rest = d, !.retries = 0, !.place = PlaceOf(t)]
        <4>1. /\ f \in [rest : Bytes, msg : Texts, retries : Nat, place : Nat]
              /\ f.msg = frame[t].msg /\ f.rest = d /\ f.place = PlaceOf(t)
          <5> DEFINE g == frame[t]
                     p == PlaceOf(t)
          <5>1. g \in [rest : Bytes, msg : Texts, retries : Nat, place : Nat] /\ p \in Nat
            BY <1>1, <2>3, <2>4 DEF PlaceOf
          <5>2. f = [g EXCEPT !.rest = d, !.retries = 0, !.place = p]
            OBVIOUS
          <5> HIDE DEF g, p
          <5> QED  BY <5>1, <5>2, Rewritten DEF g, p
        <4> HIDE DEF f
        <4>2. FrameOK(f) /\ f.place <= Len(sent')
          BY <2>3, <2>4, <3>2, <4>1 DEF FrameOK
        <4> QED  BY <3>2, <4>2 DEF Left, f
      <3> QED  BY <3>1, <3>2
    <2> QED  BY <1>2, <2>1, <2>2, <2>4, <2>5
  <1>5. CASE Retry(t)
    <2> DEFINE f == [frame[t] EXCEPT !.retries = @ + 1]
    <2>1. /\ frame' = [frame EXCEPT ![t] = f] /\ sent' = sent /\ wire' = wire
          /\ frame[t] # NoFrame
      BY <1>5 DEF Retry
    <2>2. /\ f \in [rest : Bytes, msg : Texts, retries : Nat, place : Nat]
          /\ f.msg = frame[t].msg /\ f.rest = frame[t].rest /\ f.place = frame[t].place
      BY <1>1 DEF FrameOK
    <2> HIDE DEF f
    <2>3. FrameOK(f) /\ f.place <= Len(sent')
      BY <1>1, <2>1, <2>2 DEF FrameOK, Whole
    <2> QED  BY <1>1, <1>2, <2>1, <2>3
  <1>6. CASE GiveUp(t)
    BY <1>1, <1>2, <1>6, NoFrameOK DEF GiveUp
  <1> QED  BY <1>3, <1>4, <1>5, <1>6

-----------------------------------------------------------------------------
(* What is out and not yet parsed: the ring, then the wire. *)
Unparsed == Content(buffer, head, tail) \o wire

(* The ring and the wire, in order. *)
LEMMA RingState ==
  ASSUME TypeInv
  PROVE  /\ Size = Held(head, tail) /\ Size \in Nat /\ Size < BufferSize
         /\ wire \in Bytes /\ Unparsed \in Bytes
         /\ Len(Unparsed) \in Nat /\ Size <= Len(Unparsed)
         /\ \A i \in 1..Size : /\ Unparsed[i] = buffer[Slot(i - 1)] /\ Slot(i - 1) \in Slots
                               /\ buffer[Slot(i - 1)] \in Byte
  <1>1. RingOK(buffer, head, tail) /\ wire \in Bytes /\ BufferSize \in Nat
    BY RingBufferAssumption DEF TypeInv, SendersOK
  <1>2. /\ (tail - head + BufferSize) % BufferSize = Held(head, tail) /\ Held(head, tail) \in Slots
        /\ Content(buffer, head, tail) \in Bytes
        /\ Len(Content(buffer, head, tail)) = Held(head, tail)
        /\ \A i \in 1..Held(head, tail) :
              /\ Content(buffer, head, tail)[i] = buffer[Wrap(head + i - 1)]
              /\ (head + (i - 1)) % BufferSize = Wrap(head + i - 1)
              /\ Wrap(head + i - 1) \in Slots
    BY <1>1, Contents
  <1> DEFINE c == Content(buffer, head, tail)
             l == Held(head, tail)
  <1>3. Size = l /\ l \in Nat /\ l < BufferSize
    <2>1. Size = l
      BY <1>2 DEF Size
    <2>2. l \in 0..(BufferSize - 1)
      BY <1>2 DEF Slots
    <2> HIDE DEF l
    <2> QED  BY <1>1, <2>1, <2>2
  <1>4. c \in Bytes /\ Len(c) = l
    BY <1>2
  <1> HIDE DEF c, l
  <1>5. /\ c \o wire \in Bytes /\ Len(c \o wire) = l + Len(wire) /\ Len(wire) \in Nat
        /\ Agree(c \o wire, c, l)
    <2>1. /\ c \o wire \in Bytes /\ Len(c \o wire) = Len(c) + Len(wire) /\ Len(wire) \in Nat
          /\ Agree(c \o wire, c, Len(c))
      BY <1>1, <1>4, Concatenated
    <2> QED  BY <1>4, <2>1
  <1>6. ASSUME NEW i \in 1..l
        PROVE  /\ (c \o wire)[i] = buffer[Slot(i - 1)] /\ Slot(i - 1) \in Slots
               /\ buffer[Slot(i - 1)] \in Byte
    <2>1. c[i] = buffer[Wrap(head + i - 1)] /\ Slot(i - 1) = Wrap(head + i - 1)
          /\ Wrap(head + i - 1) \in Slots
      BY <1>2 DEF c, l, Slot
    <2>2. (c \o wire)[i] = c[i]
      BY <1>5 DEF Agree
    <2>3. \A j \in Slots : buffer[j] \in Byte
      BY <1>1 DEF RingOK
    <2> QED  BY <2>1, <2>2, <2>3
  <1>7. Unparsed = c \o wire
    BY DEF Unparsed, c
  <1>8. Size <= Len(Unparsed) /\ Len(Unparsed) \in Nat
    BY <1>3, <1>5, <1>7
  <1>9. Unparsed \in Bytes
    BY <1>5, <1>7
  <1>10. \A i \in 1..Size : /\ Unparsed[i] = buffer[Slot(i - 1)] /\ Slot(i - 1) \in Slots
                           /\ buffer[Slot(i - 1)] \in Byte
    BY <1>3, <1>6, <1>7
  <1> QED  BY <1>1, <1>3, <1>8, <1>9, <1>10 DEF l

(* The parser reads the length, and then the payload, from the ring.         *)
Payload == [i \in 1..MsgLen |-> buffer[Slot(HeaderSize + i - 1)]]

(* They are those of the stream. *)
LEMMA ParserReads ==
  ASSUME TypeInv, HasHeader
  PROVE  /\ MsgLen = Field(Unparsed) /\ MsgLen \in Nat /\ 2 <= Size
         /\ HasMessage => /\ 2 + MsgLen <= Size
                          /\ Payload \in Bytes /\ Len(Payload) = MsgLen
                          /\ \A i \in 1..MsgLen : Payload[i] = Unparsed[2 + i]
  <1>1. /\ Size \in Nat /\ Size < BufferSize /\ HeaderSize = 2 /\ 2 <= Size
        /\ \A i \in 1..Size : /\ Unparsed[i] = buffer[Slot(i - 1)] /\ Slot(i - 1) \in Slots
                              /\ buffer[Slot(i - 1)] \in Byte
    BY RingState, RingBufferAssumption DEF HasHeader
  <1>2. Slot(0) = head
    <2>1. head \in Slots /\ BufferSize \in Nat
      BY RingBufferAssumption DEF TypeInv, RingOK
    <2>2. head + 0 = head /\ head \in 0..(2 * BufferSize - 1) /\ head < BufferSize
      BY <2>1 DEF Slots
    <2>3. head % BufferSize = head
      BY <2>2, Wrapped DEF Wrap
    <2> QED  BY <2>2, <2>3 DEF Slot
  <1>3. Unparsed[1] = buffer[head] /\ Unparsed[2] = buffer[Slot(1)]
        /\ buffer[head] \in Byte /\ buffer[Slot(1)] \in Byte
    <2>1. 1 \in 1..Size /\ 2 \in 1..Size /\ 1 - 1 = 0 /\ 2 - 1 = 1
      BY <1>1
    <2>2. Unparsed[1] = buffer[Slot(0)] /\ buffer[Slot(0)] \in Byte
      BY <1>1, <2>1
    <2>3. Unparsed[2] = buffer[Slot(1)] /\ buffer[Slot(1)] \in Byte
      BY <1>1, <2>1
    <2> QED  BY <1>2, <2>2, <2>3
  <1>4. MsgLen = Field(Unparsed) /\ MsgLen \in Nat
    <2>1. Radix \in Nat /\ \A x, y \in Byte : Radix * x + y \in Nat
      BY SendMessageAssumption DEF Byte
    <2> QED  BY <1>3, <2>1 DEF MsgLen, Field
  <1>5. ASSUME HasMessage
        PROVE  /\ 2 + MsgLen <= Size
               /\ Payload \in Bytes /\ Len(Payload) = MsgLen
               /\ \A i \in 1..MsgLen : Payload[i] = Unparsed[2 + i]
    <2> DEFINE l == MsgLen
    <2>1. 2 + l <= Size /\ l \in Nat
      BY <1>1, <1>4, <1>5 DEF HasMessage
    <2>2. Payload = [i \in 1..l |-> buffer[Slot(2 + i - 1)]]
      BY <1>1 DEF Payload
    <2> HIDE DEF l
    <2>3. ASSUME NEW i \in 1..l PROVE Payload[i] = Unparsed[2 + i] /\ Payload[i] \in Byte
      <3>1. 2 + i \in 1..Size
        BY <1>1, <2>1
      <3>2. Unparsed[2 + i] = buffer[Slot(2 + i - 1)] /\ buffer[Slot(2 + i - 1)] \in Byte
        BY <1>1, <3>1
      <3> QED  BY <2>2, <3>2
    <2>4. Payload \in [1..l -> Byte]
      BY <2>2, <2>3
    <2>5. Payload \in Bytes /\ Len(Payload) = l
      BY <2>1, <2>4 DEF Bytes
    <2> QED  BY <2>1, <2>3, <2>5 DEF l
  <1> QED  BY <1>1, <1>4, <1>5

(* Moving head drops bytes from the stream. *)
LEMMA ParserMoves ==
  ASSUME TypeInv, NEW n \in Nat, n <= Size
  PROVE  /\ RingOK(buffer, Slot(n), tail)
         /\ Content(buffer, Slot(n), tail) \o wire \in Bytes
         /\ Dropped(Content(buffer, Slot(n), tail) \o wire, Unparsed, n)
  <1>1. RingOK(buffer, head, tail) /\ wire \in Bytes
    BY DEF TypeInv, SendersOK
  <1>2. n <= Held(head, tail)
    BY RingState
  <1> DEFINE h2 == Wrap(head + n)
  <1>3. Slot(n) = h2 /\ h2 \in Slots
        /\ Dropped(Content(buffer, h2, tail), Content(buffer, head, tail), n)
    BY <1>1, <1>2, Advanced DEF Slot
  <1> HIDE DEF h2
  <1>4. RingOK(buffer, h2, tail)
    BY <1>1, <1>3 DEF RingOK
  <1> DEFINE c  == Content(buffer, head, tail)
             c2 == Content(buffer, h2, tail)
  <1>5. c \in Bytes /\ c2 \in Bytes /\ Len(c) = Held(head, tail)
    BY <1>1, <1>4, Contents
  <1>6. n <= Len(c) /\ Dropped(c2, c, n)
    BY <1>2, <1>3, <1>5
  <1> HIDE DEF c, c2
  <1>7. c2 \o wire \in Bytes /\ Dropped(c2 \o wire, c \o wire, n)
    BY <1>1, <1>5, <1>6, Joined, DroppedInFront
  <1> QED  BY <1>3, <1>4, <1>7 DEF Unparsed, c, c2

(* Every step keeps the types. *)
LEMMA TypeStep ==
  ASSUME TypeInv, [RingNext]_ringVars
  PROVE  TypeInv'
  <1>1. /\ SendersOK /\ RingOK(buffer, head, tail) /\ delivered \in Seq(Bytes)
        /\ closed \in BOOLEAN
    BY DEF TypeInv
  <1>2. ASSUME UNCHANGED sender PROVE SendersOK'
    BY <1>1, <1>2 DEF SendersOK, FrameOK, Whole, sender
  <1>3. CASE Senders
    <2>1. PICK t \in Threads : \/ \E m \in Messages, z \in Filler : Start(t, m, z)
                               \/ Progress(t) \/ Retry(t) \/ GiveUp(t)
      BY <1>3 DEF Senders, SendStep
    <2>2. SendersOK'
      BY <1>1, <2>1, SendersStep
    <2> QED  BY <1>1, <1>3, <2>2 DEF Senders, ring, TypeInv
  <1>4. ASSUME NEW n \in 1..ChunkSize, Recv(n) PROVE TypeInv'
    <2>1. /\ n \in Nat /\ n <= BufferSize /\ n <= Len(wire) /\ wire \in Bytes
      BY <1>1, <1>4, RingBufferAssumption DEF Recv, SendersOK
    <2>2. Filled(buffer', buffer, tail, wire, n) /\ tail' = (tail + n) % BufferSize
      BY <1>1, <1>4 DEF Recv, Filled, RingOK
    <2>3. /\ buffer' \in [Slots -> Byte] /\ tail' \in Slots /\ wire' \in Bytes
      <3>1. wire' = SubSeq(wire, n + 1, Len(wire))
        BY <1>4 DEF Recv
      <3>2. tail' = Wrap(tail + n)
        <4>1. tail + n \in 0..(2 * BufferSize - 1)
          BY <1>1, <2>1, RingBufferAssumption DEF RingOK, Slots
        <4> QED  BY <2>2, <4>1, Wrapped
      <3>3. Arrives(buffer, head, tail, wire, n, buffer', tail', wire')
        BY <1>1, <2>1, <2>2, <3>1, <3>2 DEF Arrives
      <3> QED  BY <3>3, Received
    <2>4. SendersOK'
      BY <1>1, <1>4, <2>3 DEF Recv, others, SendersOK, FrameOK, Whole
    <2>5. RingOK(buffer', head', tail')
      BY <1>1, <1>4, <2>3 DEF Recv, RingOK
    <2> QED  BY <1>1, <1>4, <2>4, <2>5 DEF Recv, TypeInv
  <1>5. ASSUME NEW n \in 1..ChunkSize, Overflow(n) PROVE TypeInv'
    BY <1>1, <1>2, <1>5 DEF Overflow, ring, TypeInv
  <1>6. CASE SkipByte
    <2>1. RingOK(buffer, Slot(1), tail)
      <3>1. 1 <= Size
        <4>1. 2 <= Size /\ Size \in Nat
          BY <1>6, ParserReads, RingState DEF SkipByte
        <4> QED  BY <4>1
      <3> QED  BY <3>1, ParserMoves
    <2> QED  BY <1>1, <1>2, <1>6, <2>1 DEF SkipByte, TypeInv
  <1>7. CASE Extract
    <2>1. /\ MsgLen \in Nat /\ HeaderSize = 2
          /\ 2 + MsgLen <= Size /\ Payload \in Bytes
      BY <1>7, ParserReads, RingBufferAssumption DEF Extract
    <2>2. RingOK(buffer, Slot(HeaderSize + MsgLen), tail)
      <3>1. HeaderSize + MsgLen \in Nat /\ HeaderSize + MsgLen <= Size
        BY <2>1
      <3> QED  BY <3>1, ParserMoves
    <2>3. delivered' \in Seq(Bytes)
      <3>1. delivered' = Append(delivered, Payload)
        BY <1>7 DEF Extract, Payload
      <3> QED  BY <1>1, <2>1, <3>1, AppendProperties
    <2> QED  BY <1>1, <1>2, <1>7, <2>2, <2>3 DEF Extract, TypeInv
  <1>8. CASE UNCHANGED ringVars
    BY <1>1, <1>2, <1>8 DEF ringVars, ring, TypeInv
  <1> QED  BY <1>3, <1>4, <1>5, <1>6, <1>7, <1>8 DEF RingNext, Parse

(* The initial states have them. *)
LEMMA TypeInit == RingInit => TypeInv
  <1> SUFFICES ASSUME RingInit PROVE TypeInv
    OBVIOUS
  <1>1. BufferSize \in Nat /\ BufferSize > 0 /\ 0 \in Byte /\ 0 \in Slots
    BY RingBufferAssumption, SendMessageAssumption DEF Byte, Slots
  <1>2. /\ sent = <<>> /\ wire = <<>> /\ frame = [t \in Threads |-> NoFrame]
        /\ buffer = [i \in Slots |-> 0] /\ head = 0 /\ tail = 0
        /\ delivered = <<>> /\ closed = FALSE
    BY DEF RingInit, SendInit, Slots
  <1>3. SendersOK
    <2>1. <<>> \in Bytes /\ <<>> \in Seq(Messages) /\ Len(<<>>) = 0
      BY EmptySeq DEF Bytes
    <2>2. \A t \in Threads : FrameOK(frame[t]) /\ frame[t].place = 0
      BY <1>2, NoFrameOK
    <2> QED  BY <1>2, <2>1, <2>2 DEF SendersOK
  <1>4. RingOK(buffer, head, tail)
    BY <1>1, <1>2 DEF RingOK
  <1>5. <<>> \in Seq(Bytes)
    BY EmptySeq
  <1> QED  BY <1>2, <1>3, <1>4, <1>5 DEF TypeInv

(* Type correctness: whatever the senders do and however full the ring gets, *)
(* head and tail stay inside it and every byte and message is one.           *)
THEOREM RingTypeCorrect == RingSpec => []RingTypeOK
  <1>1. TypeInv => RingTypeOK
    <2> SUFFICES ASSUME TypeInv PROVE RingTypeOK
      OBVIOUS
    <2>1. wire \in Bytes /\ sent \in Seq(Messages) /\ RingOK(buffer, head, tail) /\ closed \in BOOLEAN
      BY DEF TypeInv, SendersOK
    <2> QED  BY <2>1 DEF RingTypeOK, RingOK, Slots, Byte, Bytes
  <1>2. TypeInv /\ [RingNext]_ringVars => TypeInv'
    BY TypeStep
  <1> QED  BY <1>1, <1>2, TypeInit, PTL DEF RingSpec

-----------------------------------------------------------------------------
(* At most one thread is in the middle of a frame, the last one, until a     *)
(* frame is torn; and the stream is what it should be.                       *)
Turn == Len(delivered) + 1

Writer ==
    /\ torn \in 0..Len(sent)
    /\ torn = 0 => \A t \in Threads : Begun(t) =>
                      frame[t].place = Len(sent) /\ \A u \in Threads : Begun(u) => u = t

Pending(rest) ==
    \/ torn = 0 /\ \E t \in Threads : Begun(t) /\ rest = frame[t].rest
    \/ (torn # 0 \/ \A t \in Threads : ~Begun(t)) /\ rest = <<>>

Framing == \E rest : Pending(rest) /\ Shaped(Unparsed, rest, sent, Turn, torn)

StreamInv == TypeInv /\ Writer /\ Framing

(* What the lemmas about the stream need of its types. *)
LEMMA StreamTyped ==
  ASSUME TypeInv, Writer, NEW rest, Pending(rest)
  PROVE  /\ StreamOK(Unparsed, rest, sent, Turn, torn)
         /\ Len(delivered) \in Nat /\ Turn \in Nat /\ Len(sent) \in Nat /\ sent \in Seq(Messages)
         /\ (torn = 0 /\ \E t \in Threads : Begun(t)) => rest # <<>>
  <1>1. /\ sent \in Seq(Messages) /\ delivered \in Seq(Bytes) /\ torn \in 0..Len(sent)
        /\ \A t \in Threads : FrameOK(frame[t])
    BY DEF TypeInv, SendersOK, Writer
  <1>2. /\ Len(sent) \in Nat /\ Len(delivered) \in Nat
        /\ \A k \in 1..Len(sent) : sent[k] \in Messages
    BY <1>1, LenProperties, ElementOfSeq
  <1>3. Turn \in Nat \ {0}
    BY <1>2 DEF Turn
  <1>4. ASSUME NEW t \in Threads, Begun(t) PROVE frame[t].rest \in Bytes /\ frame[t].rest # <<>>
    <2>1. frame[t] # NoFrame
      BY <1>4 DEF Begun, NoFrame
    <2> QED  BY <1>1, <2>1 DEF FrameOK
  <1>5. <<>> \in Bytes
    BY EmptySeq DEF Bytes
  <1>6. rest \in Bytes /\ ((torn = 0 /\ \E t \in Threads : Begun(t)) => rest # <<>>)
    BY <1>4, <1>5 DEF Pending
  <1>7. Unparsed \in Bytes
    BY RingState
  <1> QED  BY <1>1, <1>2, <1>3, <1>6, <1>7 DEF StreamOK

(* Nothing happens to the stream. *)
LEMMA StreamSame ==
  ASSUME StreamInv, Unparsed' = Unparsed, sent' = sent, torn' = torn, delivered' = delivered,
         \A t \in Threads : /\ frame'[t].place = frame[t].place
                            /\ Begun(t) => frame'[t].rest = frame[t].rest
  PROVE  Writer' /\ Framing'
  <1>1. \A t \in Threads : Begun(t)' <=> Begun(t)
    BY DEF Begun
  <1>2. Writer'
    BY <1>1 DEF StreamInv, Writer
  <1>3. PICK rest : Pending(rest) /\ Shaped(Unparsed, rest, sent, Turn, torn)
    BY DEF StreamInv, Framing
  <1>4. Pending(rest)'
    BY <1>1, <1>3 DEF Pending
  <1>5. Turn' = Turn
    BY DEF Turn
  <1> QED  BY <1>2, <1>3, <1>4, <1>5 DEF Framing

(* Tear remembers the first of the frames, if there is one. *)
LEMMA Torn ==
  ASSUME NEW places, Tear(places)
  PROVE  /\ torn # 0 \/ places = {} => torn' = torn
         /\ \A x \in Nat : torn = 0 /\ places = {x} => torn' = x
  <1>1. torn # 0 \/ places = {} => torn' = torn
    BY DEF Tear
  <1>2. ASSUME NEW x \in Nat, torn = 0, places = {x} PROVE torn' = x
    <2>1. torn' = CHOOSE p \in {x} : \A q \in {x} : p <= q
      BY <1>2 DEF Tear
    <2>2. \E p \in {x} : \A q \in {x} : p <= q
      <3>1. x <= x
        OBVIOUS
      <3> QED  BY <3>1
    <2>3. (CHOOSE p \in {x} : \A q \in {x} : p <= q) \in {x}
      BY <2>2, Zenon
    <2> QED  BY <2>1, <2>3
  <1> QED  BY <1>1, <1>2

(* A frame that is not all out has not been delivered. *)
LEMMA NotDelivered ==
  ASSUME NEW u, NEW rest, NEW msgs, NEW turn, StreamOK(u, rest, msgs, turn, 0),
         Shaped(u, rest, msgs, turn, 0), rest # <<>>
  PROVE  turn <= Len(msgs)
  <1>1. PICK pos : Framed(u, rest, msgs, turn, 0, pos)
    BY DEF Shaped
  <1>2. u \in Bytes /\ rest \in Bytes /\ Len(msgs) \in Nat /\ turn \in Nat
    BY DEF StreamOK
  <1>3. Len(rest) \in Nat \ {0} /\ Len(u) \in Nat /\ Len(u \o rest) = Len(u) + Len(rest)
    BY <1>2, EmptySeq, Joined DEF Bytes
  <1>4. Covered(u \o rest, msgs, turn, Len(msgs), pos)
    BY <1>1 DEF Framed, Intact
  <1> SUFFICES ASSUME ~(turn <= Len(msgs)) PROVE FALSE
    OBVIOUS
  <1>5. Len(u \o rest) = 0
    BY <1>4 DEF Covered
  <1> QED  BY <1>3, <1>5

(* The sender gives up in the middle of a frame, which is the last one. *)
LEMMA StreamGiveUp ==
  ASSUME StreamInv, NEW t \in Threads, GiveUp(t), Begun(t), torn = 0, Unparsed' = Unparsed,
         delivered' = delivered
  PROVE  Writer' /\ Framing' /\ torn' \in Turn..Len(sent)
  <1>1. PICK rest : Pending(rest) /\ Shaped(Unparsed, rest, sent, Turn, torn)
    BY DEF StreamInv, Framing
  <1>2. /\ StreamOK(Unparsed, rest, sent, Turn, torn) /\ rest # <<>>
        /\ Turn \in Nat /\ Len(sent) \in Nat
    BY <1>1, StreamTyped DEF StreamInv
  <1>3. frame[t].place = Len(sent) /\ Len(sent) > 0
    BY DEF StreamInv, Writer, Begun
  <1>4. torn' = Len(sent) /\ sent' = sent
    BY <1>2, <1>3, Torn DEF GiveUp
  <1>5. Turn <= Len(sent)
    BY <1>1, <1>2, NotDelivered
  <1>6. Shaped(Unparsed, <<>>, sent, Turn, Len(sent))
    <2>1. <<>> \in Bytes /\ Unparsed \in Bytes /\ Unparsed \o <<>> = Unparsed
      BY RingState, EmptySeq, ConcatEmptySeq DEF StreamInv, Bytes
    <2>2. Len(sent) \in 1..Len(sent) /\ Agree(sent, sent, Len(sent)) /\ Len(sent) <= Len(sent)
      BY <1>2, <1>3 DEF Agree
    <2>3. Shaped(Unparsed \o <<>>, <<>>, sent, Turn, Len(sent))
      BY <1>1, <1>2, <2>1, <2>2, FrameCut
    <2> QED  BY <2>1, <2>3
  <1>7. torn' # 0 /\ Turn' = Turn
    BY <1>2, <1>3, <1>4 DEF Turn
  <1>8. Writer'
    BY <1>2, <1>4, <1>7 DEF Writer
  <1>9. Framing'
    BY <1>4, <1>6, <1>7 DEF Framing, Pending
  <1> QED  BY <1>2, <1>4, <1>5, <1>8, <1>9

(* Who else is in the middle of a frame. *)
LEMMA OthersWriting ==
  ASSUME Writer, torn = 0, NEW t \in Threads
  PROVE  /\ Begun(t) => Others(t) = {}
         /\ (\A u \in Threads : ~Begun(u)) => Others(t) = {}
         /\ ~Begun(t) /\ (\E u \in Threads : Begun(u)) => Others(t) = {Len(sent)} /\ Len(sent) # 0
  <1>1. \A u \in Threads : Begun(u) => frame[u].place = Len(sent) /\ \A v \in Threads : Begun(v) => v = u
    BY DEF Writer
  <1>2. \A u \in Threads : Begun(u) => frame[u].place # 0
    BY DEF Begun
  <1> QED  BY <1>1, <1>2 DEF Others

(* A piece of a frame goes out: one is begun, continued, or torn by another. *)
LEMMA StreamProgress ==
  ASSUME Resyncs, StreamInv, TypeInv', NEW t \in Threads, Progress(t), UNCHANGED <<ring, delivered>>
  PROVE  /\ Writer' /\ Framing'
         /\ \/ sent' = sent /\ torn' = torn
            \/ /\ \E m \in Messages : sent' = Append(sent, m)
               /\ torn' = torn \/ (torn = 0 /\ torn' \in Turn..Len(sent))
  <1>1. PICK rest : Pending(rest) /\ Shaped(Unparsed, rest, sent, Turn, torn)
    BY DEF StreamInv, Framing
  <1>2. TypeInv /\ SendersOK /\ Writer
    BY DEF StreamInv, TypeInv
  <1>3. PICK c \in Bytes, d \in Bytes :
            /\ frame[t].rest = c \o d /\ wire' = wire \o c
            /\ frame' = [frame EXCEPT ![t] = Left(frame[t], d, PlaceOf(t))]
            /\ sent' = IF Begun(t) THEN sent ELSE Append(sent, frame[t].msg)
            /\ Tear(Others(t)) /\ frame[t] # NoFrame
    BY <1>2, Sent
  <1>4. /\ StreamOK(Unparsed, rest, sent, Turn, torn)
        /\ (torn = 0 /\ \E u \in Threads : Begun(u)) => rest # <<>>
        /\ Turn \in Nat /\ Len(sent) \in Nat /\ sent \in Seq(Messages) /\ torn \in 0..Len(sent)
    BY <1>1, <1>2, StreamTyped DEF Writer
  <1>5. Turn' = Turn /\ Unparsed' = Unparsed \o c
    <2>1. Content(buffer, head, tail) \in Bytes /\ wire \in Bytes
      BY <1>2, Contents DEF TypeInv, SendersOK
    <2>2. (Content(buffer, head, tail) \o wire) \o c = Content(buffer, head, tail) \o (wire \o c)
      BY <2>1, Associated
    <2>3. Unparsed' = Content(buffer, head, tail) \o (wire \o c)
      BY <1>3 DEF Unparsed, ring
    <2> QED  BY <2>2, <2>3 DEF Unparsed, Turn
  <1>6. FrameOK(frame[t]) /\ frame[t].msg \in Messages
        /\ (~Begun(t) => \E z \in Filler : frame[t].rest = z \o Encode(frame[t].msg))
    <2>1. FrameOK(frame[t]) /\ frame[t] # NoFrame
      BY <1>2, <1>3 DEF SendersOK
    <2>2. frame[t].place \in Nat
      BY <2>1 DEF FrameOK
    <2>3. ~Begun(t) => frame[t].place = 0
      BY <2>2 DEF Begun
    <2> QED  BY <2>1, <2>3 DEF FrameOK, Whole
  <1>7. \A u \in Threads : frame'[u] = IF u = t THEN Left(frame[t], d, PlaceOf(t)) ELSE frame[u]
    BY <1>2, <1>3 DEF SendersOK
  <1>8. LET f == Left(frame[t], d, PlaceOf(t))
        IN  /\ d = <<>> => f.place = 0
            /\ d # <<>> => f.place = PlaceOf(t) /\ f.rest = d
    <2>1. d = <<>> => Left(frame[t], d, PlaceOf(t)).place = 0
      BY NoFrameOK DEF Left
    <2>2. ASSUME d # <<>>
          PROVE  Left(frame[t], d, PlaceOf(t)).place = PlaceOf(t) /\ Left(frame[t], d, PlaceOf(t)).rest = d
      BY <1>6, <2>2 DEF Left, FrameOK
    <2> QED  BY <2>1, <2>2
  <1>9. ASSUME NEW m, m = frame[t].msg, ~Begun(t)
        PROVE  /\ m \in Messages /\ sent' = Append(sent, m) /\ Len(sent') = Len(sent) + 1
               /\ Agree(sent', sent, Len(sent)) /\ sent'[Len(sent) + 1] = m
    <2>1. m \in Messages /\ sent' = Append(sent, m)
      BY <1>3, <1>6, <1>9
    <2> QED  BY <1>4, <2>1, AppendProperties DEF Agree
  <1>10. CASE Begun(t) /\ torn = 0
    <2>1. Others(t) = {} /\ torn' = torn /\ sent' = sent
      BY <1>2, <1>3, <1>10, OthersWriting, Torn
    <2>2. rest = c \o d
      BY <1>1, <1>2, <1>3, <1>10 DEF Pending, Writer
    <2>3. Shaped(Unparsed \o c, d, sent, Turn, torn)
      BY <1>1, <1>4, <2>2, FrameContinued
    <2>4. \A u \in Threads : u # t => ~Begun(u) /\ ~Begun(u)'
      BY <1>2, <1>7, <1>10 DEF Writer, Begun
    <2>5. PlaceOf(t) = frame[t].place /\ frame[t].place = Len(sent)
      BY <1>2, <1>10 DEF PlaceOf, Writer
    <2>6. /\ Begun(t)' => frame'[t].place = Len(sent) /\ d # <<>> /\ frame'[t].rest = d
          /\ d # <<>> => Begun(t)'
      BY <1>7, <1>8, <1>10, <2>5 DEF Begun
    <2>7. Writer'
      BY <1>2, <2>1, <2>4, <2>6 DEF Writer
    <2>8. Pending(d)'
      BY <1>10, <2>1, <2>4, <2>6 DEF Pending
    <2> QED  BY <1>5, <2>1, <2>3, <2>7, <2>8 DEF Framing
  <1>11. CASE torn # 0
    <2>1. torn' = torn
      BY <1>3, <1>11, Torn
    <2>2. /\ Len(sent') \in Nat /\ Len(sent) <= Len(sent') /\ Agree(sent', sent, Len(sent))
      BY <1>3, <1>4, <1>9 DEF Agree
    <2>3. Shaped(Unparsed \o c, <<>>, sent', Turn, torn)
      <3>1. torn \in 1..Len(sent)
        BY <1>4, <1>11
      <3> QED  BY <1>1, <1>4, <2>2, <3>1, FrameCut
    <2>4. Writer'
      BY <1>4, <1>11, <2>1, <2>2 DEF Writer
    <2>5. Pending(<<>>)'
      BY <1>11, <2>1 DEF Pending
    <2>6. sent' = sent \/ \E m \in Messages : sent' = Append(sent, m)
      BY <1>3, <1>6
    <2> QED  BY <1>5, <2>1, <2>3, <2>4, <2>5, <2>6 DEF Framing
  <1>12. CASE ~Begun(t) /\ torn = 0 /\ \A u \in Threads : ~Begun(u)
    <2>1. Others(t) = {} /\ torn' = torn
      BY <1>2, <1>3, <1>12, OthersWriting, Torn
    <2> DEFINE m == frame[t].msg
    <2>2. PICK z \in Filler : frame[t].rest = z \o Encode(m)
      BY <1>6, <1>12
    <2>3. /\ m \in Messages /\ sent' = Append(sent, m) /\ Len(sent') = Len(sent) + 1
          /\ Agree(sent', sent, Len(sent)) /\ sent'[Len(sent) + 1] = m
      BY <1>9, <1>12
    <2>4. rest = <<>>
      BY <1>1, <1>12 DEF Pending
    <2> HIDE DEF m
    <2>5. Shaped(Unparsed \o c, d, sent', Turn, torn')
      <3>1. /\ StreamOK(Unparsed, <<>>, sent, Turn, 0) /\ Shaped(Unparsed, <<>>, sent, Turn, 0)
            /\ c \o d = z \o Encode(m) /\ torn' = 0
        BY <1>1, <1>3, <1>4, <1>12, <2>1, <2>2, <2>4
      <3>2. Shaped(Unparsed \o c, d, sent', Turn, 0)
        BY <2>3, <3>1, FrameBegun
      <3> QED  BY <3>1, <3>2
    <2>6. \A u \in Threads : u # t => ~Begun(u)'
      BY <1>7, <1>12 DEF Begun
    <2>7. PlaceOf(t) = Len(sent') /\ Len(sent') > 0
      BY <1>4, <1>12, <2>3 DEF PlaceOf
    <2>8. /\ Begun(t)' => frame'[t].place = Len(sent') /\ d # <<>> /\ frame'[t].rest = d
          /\ d # <<>> => Begun(t)'
      BY <1>7, <1>8, <2>7 DEF Begun
    <2>9. Writer'
      BY <1>4, <1>12, <2>1, <2>3, <2>6, <2>8 DEF Writer
    <2>10. Pending(d)'
      BY <1>12, <2>1, <2>6, <2>8 DEF Pending
    <2> QED  BY <1>5, <2>1, <2>3, <2>5, <2>9, <2>10 DEF Framing
  <1>13. CASE ~Begun(t) /\ torn = 0 /\ \E u \in Threads : Begun(u)
    <2>1. Others(t) = {Len(sent)} /\ Len(sent) # 0 /\ torn' = Len(sent)
      BY <1>2, <1>3, <1>4, <1>13, OthersWriting, Torn
    <2>2. Turn <= Len(sent)
      BY <1>1, <1>4, <1>13, NotDelivered
    <2>3. /\ frame[t].msg \in Messages /\ sent' = Append(sent, frame[t].msg)
          /\ Len(sent') = Len(sent) + 1 /\ Agree(sent', sent, Len(sent))
      BY <1>9, <1>13
    <2>4. Shaped(Unparsed \o c, <<>>, sent', Turn, torn')
      <3>1. /\ Len(sent) \in 1..Len(sent) /\ Len(sent') \in Nat /\ Len(sent) <= Len(sent')
        BY <1>4, <2>1, <2>3
      <3>2. Shaped(Unparsed \o c, <<>>, sent', Turn, Len(sent))
        BY <1>1, <1>4, <1>13, <2>3, <3>1, FrameCut
      <3> QED  BY <2>1, <3>2
    <2>5. Writer'
      BY <1>4, <2>1, <2>3 DEF Writer
    <2>6. Pending(<<>>)'
      BY <2>1 DEF Pending
    <2>7. torn' \in Turn..Len(sent)
      BY <1>4, <2>1, <2>2
    <2> QED  BY <1>5, <1>13, <2>3, <2>4, <2>5, <2>6, <2>7 DEF Framing
  <1> QED  BY <1>10, <1>11, <1>12, <1>13

(* Bytes move from the wire to the ring: the stream is the same. *)
LEMMA StreamRecv ==
  ASSUME StreamInv, ~MayFill, NEW n \in 1..ChunkSize, Recv(n)
  PROVE  Writer' /\ Framing'
  <1>1. /\ RingOK(buffer, head, tail) /\ wire \in Bytes /\ n \in Nat /\ n <= Len(wire)
        /\ n <= BufferSize /\ Filled(buffer', buffer, tail, wire, n)
        /\ wire' = SubSeq(wire, n + 1, Len(wire)) /\ tail' = (tail + n) % BufferSize
        /\ Size = Held(head, tail) /\ Size + n < BufferSize
    <2>1. RingOK(buffer, head, tail) /\ wire \in Bytes /\ Size = Held(head, tail)
      BY RingState DEF StreamInv, TypeInv
    <2>2. /\ n \in Nat /\ n <= BufferSize
      BY RingBufferAssumption
    <2>3. Filled(buffer', buffer, tail, wire, n)
      BY <2>1 DEF Recv, Filled, RingOK
    <2> QED  BY <2>1, <2>2, <2>3 DEF Recv
  <1>2. tail' = Wrap(tail + n)
    <2>1. tail + n \in 0..(2 * BufferSize - 1)
      BY <1>1, RingBufferAssumption DEF RingOK, Slots
    <2> QED  BY <1>1, <2>1, Wrapped
  <1>3. Arrives(buffer, head, tail, wire, n, buffer', tail', wire')
    BY <1>1, <1>2 DEF Arrives
  <1>4. InOrder(buffer', head, tail', wire') = InOrder(buffer, head, tail, wire)
    <2>1. Held(head, tail) + n < BufferSize
      BY <1>1
    <2> QED  BY <1>3, <2>1, ReceivedOrder
  <1>5. Unparsed' = Unparsed
    BY <1>4 DEF Unparsed, Recv, InOrder
  <1> QED  BY <1>5, StreamSame DEF Recv, others

(* A byte is skipped. *)
LEMMA StreamSkip ==
  ASSUME StreamInv, SkipByte
  PROVE  Writer' /\ Framing'
  <1>1. PICK rest : Pending(rest) /\ Shaped(Unparsed, rest, sent, Turn, torn)
    BY DEF StreamInv, Framing
  <1>2. TypeInv /\ Writer /\ StreamOK(Unparsed, rest, sent, Turn, torn)
    BY <1>1, StreamTyped DEF StreamInv
  <1>3. /\ Unparsed' = Content(buffer, Slot(1), tail) \o wire
        /\ sent' = sent /\ torn' = torn /\ frame' = frame /\ Turn' = Turn
    BY DEF SkipByte, sender, Unparsed, Turn
  <1>4. /\ MsgLen = Field(Unparsed) /\ 2 <= Len(Unparsed) /\ 1 <= Size
        /\ Field(Unparsed) = 0 \/ Field(Unparsed) > MaxMessage
    <2>1. MsgLen = Field(Unparsed) /\ 2 <= Size
      BY <1>2, ParserReads DEF SkipByte
    <2>2. Size <= Len(Unparsed) /\ Size \in Nat /\ Len(Unparsed) \in Nat
      BY <1>2, RingState
    <2> QED  BY <2>1, <2>2 DEF SkipByte, BadLength
  <1>5. Unparsed' \in Bytes /\ Dropped(Unparsed', Unparsed, 1)
    BY <1>2, <1>3, <1>4, ParserMoves
  <1>6. Shaped(Unparsed', rest, sent, Turn, torn)
    BY <1>1, <1>2, <1>4, <1>5, ByteSkipped
  <1>7. Pending(rest)' /\ Writer'
    BY <1>1, <1>2, <1>3 DEF Pending, Writer, Begun
  <1> QED  BY <1>3, <1>6, <1>7 DEF Framing

(* A message is delivered: the next one sent, if no frame was torn before. *)
LEMMA StreamExtract ==
  ASSUME StreamInv, Extract
  PROVE  /\ Writer' /\ Framing'
         /\ \/ /\ Turn <= Len(sent) /\ (torn = 0 \/ Turn < torn)
               /\ delivered' = Append(delivered, sent[Turn])
            \/ /\ torn # 0 /\ Turn >= torn
               /\ \E x \in Bytes : delivered' = Append(delivered, x)
  <1>1. PICK rest : Pending(rest) /\ Shaped(Unparsed, rest, sent, Turn, torn)
    BY DEF StreamInv, Framing
  <1>2. /\ TypeInv /\ Writer /\ StreamOK(Unparsed, rest, sent, Turn, torn)
        /\ Turn \in Nat /\ Len(sent) \in Nat /\ sent \in Seq(Messages)
        /\ torn \in 0..Len(sent) /\ delivered \in Seq(Bytes)
    BY <1>1, StreamTyped DEF StreamInv, Writer, TypeInv
  <1> DEFINE n == 2 + MsgLen
  <1>3. /\ MsgLen = Field(Unparsed) /\ MsgLen \in Nat \ {0} /\ n <= Size /\ n \in Nat
        /\ Payload \in Bytes /\ Len(Payload) = MsgLen
        /\ \A i \in 1..MsgLen : Payload[i] = Unparsed[2 + i]
        /\ n <= Len(Unparsed) /\ 2 <= Len(Unparsed)
    <2>1. /\ MsgLen = Field(Unparsed) /\ MsgLen \in Nat /\ 2 <= Size /\ n <= Size
          /\ Payload \in Bytes /\ Len(Payload) = MsgLen
          /\ \A i \in 1..MsgLen : Payload[i] = Unparsed[2 + i]
      BY <1>2, ParserReads DEF Extract
    <2>2. Size <= Len(Unparsed) /\ Size \in Nat /\ Len(Unparsed) \in Nat
      BY <1>2, RingState
    <2>3. MsgLen # 0
      BY DEF Extract, BadLength
    <2> QED  BY <2>1, <2>2, <2>3
  <1>4. /\ Unparsed' = Content(buffer, Slot(n), tail) \o wire
        /\ sent' = sent /\ torn' = torn /\ frame' = frame
        /\ delivered' = Append(delivered, Payload)
    BY RingBufferAssumption DEF Extract, sender, Unparsed, Payload
  <1>5. Turn' = Turn + 1
    BY <1>2, <1>3, <1>4, AppendProperties DEF Turn
  <1>6. Unparsed' \in Bytes /\ Dropped(Unparsed', Unparsed, n)
    BY <1>2, <1>3, <1>4, ParserMoves
  <1> DEFINE last == Intact(Len(sent), torn)
  <1>7. /\ Shaped(Unparsed', rest, sent, Turn + 1, torn)
        /\ Turn > last => torn # 0
        /\ Turn <= last => /\ Turn <= Len(sent) /\ Field(Unparsed) = Len(sent[Turn])
                           /\ \A i \in 1..Field(Unparsed) : Unparsed[2 + i] = sent[Turn][i]
    <2>1. /\ Field(Unparsed) \in Nat \ {0} /\ 2 + Field(Unparsed) <= Len(Unparsed)
          /\ Dropped(Unparsed', Unparsed, 2 + Field(Unparsed))
      BY <1>3, <1>6
    <2> QED  BY <1>1, <1>2, <1>3, <1>6, <2>1, FrameExtracted
  <1>8. Pending(rest)' /\ Writer'
    BY <1>1, <1>2, <1>4 DEF Pending, Writer, Begun
  <1>9. Framing'
    BY <1>4, <1>5, <1>7, <1>8 DEF Framing
  <1>10. CASE Turn <= last
    <2>1. sent[Turn] \in Messages
      <3>1. Turn \in 1..Len(sent)
        BY <1>2, <1>7, <1>10 DEF StreamOK
      <3> QED  BY <1>2, <3>1, ElementOfSeq
    <2>2. sent[Turn] \in Bytes
      BY <2>1, EachMessage DEF Bytes
    <2>3. Payload = sent[Turn]
      <3>1. Len(Payload) = Len(sent[Turn]) /\ Agree(Payload, sent[Turn], Len(sent[Turn]))
        BY <1>3, <1>7, <1>10 DEF Agree
      <3> QED  BY <1>3, <2>2, <3>1, SameBytes
    <2>4. torn = 0 \/ Turn < torn
      BY <1>2, <1>10 DEF Intact
    <2> QED  BY <1>4, <1>7, <1>8, <1>9, <1>10, <2>3, <2>4
  <1>11. CASE ~(Turn <= last)
    <2>1. Turn > last
      BY <1>2, <1>11 DEF Intact
    <2>2. torn # 0 /\ Turn >= torn
      BY <1>2, <1>7, <2>1 DEF Intact
    <2> QED  BY <1>3, <1>4, <1>8, <1>9, <2>2
  <1> QED  BY <1>10, <1>11

(* Append keeps what is there. *)
LEMMA FrontOfAppend ==
  ASSUME NEW S, NEW s \in Seq(S), NEW x \in S
  PROVE  Len(Append(s, x)) = Len(s) + 1 /\ SubSeq(Append(s, x), 1, Len(s)) = s
  <1> DEFINE r == Append(s, x)
             f == SubSeq(r, 1, Len(s))
  <1>1. Len(s) \in Nat /\ Len(r) = Len(s) + 1 /\ \A i \in 1..Len(s) : r[i] = s[i] /\ s[i] \in S
    BY LenProperties, ElementOfSeq, AppendProperties
  <1> HIDE DEF r
  <1>2. /\ f \in Seq(S) /\ Len(f) = Len(s)
        /\ \A i \in 1..Len(s) : f[i] = r[1 + i - 1]
    BY <1>1, SubSeqProperties
  <1>3. \A i \in 1..Len(f) : f[i] = s[i]
    BY <1>1, <1>2
  <1> HIDE DEF f
  <1>4. f = s
    BY <1>2, <1>3, SeqEqual
  <1> QED  BY <1>1, <1>4 DEF f, r

(* The initial states. *)
LEMMA StreamInit == RingInit => StreamInv /\ Stream!Init
  <1> SUFFICES ASSUME RingInit PROVE StreamInv /\ Stream!Init
    OBVIOUS
  <1>1. TypeInv
    BY TypeInit
  <1>2. /\ sent = <<>> /\ torn = 0 /\ delivered = <<>> /\ closed = FALSE /\ wire = <<>>
        /\ \A t \in Threads : ~Begun(t)
        /\ Len(sent) = 0 /\ Len(delivered) = 0
    BY EmptySeq DEF RingInit, SendInit, Begun, NoFrame
  <1>3. Unparsed = <<>>
    <2>1. head = tail /\ head \in Slots /\ RingOK(buffer, head, tail)
      BY <1>1 DEF RingInit, TypeInv, RingOK
    <2>2. Held(head, tail) = tail - head /\ tail - head = 0
      <3>1. Held(head, tail) = IF head <= tail THEN tail - head ELSE tail - head + BufferSize
        BY <2>1, Contents
      <3>2. head <= tail /\ tail - head = 0
        BY <2>1 DEF Slots
      <3> QED  BY <3>1, <3>2
    <2>3. Content(buffer, head, tail) \in Bytes /\ Len(Content(buffer, head, tail)) = 0
      BY <2>1, <2>2, Contents
    <2>4. Content(buffer, head, tail) = <<>>
      BY <2>3, EmptySeq DEF Bytes
    <2>5. <<>> \in Bytes
      BY EmptySeq DEF Bytes
    <2> QED  BY <1>2, <2>4, <2>5, Joined DEF Unparsed
  <1>4. Writer
    BY <1>2 DEF Writer
  <1>5. Pending(<<>>)
    BY <1>2 DEF Pending
  <1>6. Turn = 1
    BY <1>2 DEF Turn
  <1>7. Shaped(<<>>, <<>>, sent, 1, 0)
    <2> DEFINE pos == [k \in Nat |-> 0]
    <2>1. pos \in Positions /\ Len(<<>> \o <<>>) = 0
      <3>1. <<>> \in Bytes /\ Len(<<>>) = 0
        BY EmptySeq DEF Bytes
      <3>2. <<>> \o <<>> = <<>>
        BY <3>1, Joined
      <3> QED  BY <3>1, <3>2 DEF Positions
    <2>2. \A k \in 1..0 : FALSE
      OBVIOUS
    <2> HIDE DEF pos
    <2>3. Framed(<<>>, <<>>, sent, 1, 0, pos)
      BY <1>2, <2>1, <2>2 DEF Framed, Frames, Covered, Intact
    <2> QED  BY <2>3 DEF Shaped
  <1>8. Framing
    BY <1>2, <1>3, <1>5, <1>6, <1>7 DEF Framing
  <1> QED  BY <1>1, <1>2, <1>4, <1>8 DEF StreamInv, Stream!Init

(* Every step keeps the invariant and is a step of the stream, or none. *)
LEMMA StreamStep ==
  ASSUME ~MayFill, Resyncs, StreamInv, [RingNext]_ringVars
  PROVE  StreamInv' /\ [Stream!Next]_(Stream!vars)
  <1>1. TypeInv /\ TypeInv'
    BY TypeStep DEF StreamInv
  <1>2. CASE Senders
    <2>1. PICK t \in Threads : \/ \E m \in Messages, z \in Filler : Start(t, m, z)
                               \/ Progress(t) \/ Retry(t) \/ GiveUp(t)
      BY <1>2 DEF Senders, SendStep
    <2>2. UNCHANGED <<ring, delivered, closed>>
      BY <1>2 DEF Senders
    <2>3. wire' = wire => Unparsed' = Unparsed
      BY <2>2 DEF Unparsed, ring
    <2>4. frame = [u \in Threads |-> frame[u]] /\ FrameOK(frame[t])
      BY <1>1 DEF TypeInv, SendersOK
    <2>5. CASE \E m \in Messages, z \in Filler : Start(t, m, z)
      <3>1. PICK m \in Messages, z \in Filler : Start(t, m, z)
        BY <2>5
      <3>2. /\ frame[t].place = 0 /\ UNCHANGED <<sent, wire, torn>>
        BY <3>1, NoFrameOK DEF Start
      <3>3. /\ frame'[t].place = 0 /\ \A u \in Threads : u # t => frame'[u] = frame[u]
        <4> DEFINE e == z \o Encode(m)
        <4>1. frame' = [frame EXCEPT ![t] = [NoFrame EXCEPT !.rest = e, !.msg = m]]
          BY <3>1 DEF Start
        <4> HIDE DEF e
        <4> QED  BY <2>4, <4>1 DEF NoFrame
      <3>4. \A u \in Threads : /\ frame'[u].place = frame[u].place
                               /\ Begun(u) => frame'[u].rest = frame[u].rest
        BY <3>2, <3>3 DEF Begun
      <3>5. Writer' /\ Framing'
        BY <2>2, <2>3, <3>2, <3>4, StreamSame
      <3> QED  BY <1>1, <2>2, <3>2, <3>5 DEF StreamInv, Stream!vars
    <2>6. CASE Progress(t)
      <3>1. /\ Writer' /\ Framing'
            /\ \/ sent' = sent /\ torn' = torn
               \/ /\ \E m \in Messages : sent' = Append(sent, m)
                  /\ torn' = torn \/ (torn = 0 /\ torn' \in Turn..Len(sent))
        BY <1>1, <2>2, <2>6, StreamProgress
      <3>2. CASE sent' = sent /\ torn' = torn
        BY <1>1, <2>2, <3>1, <3>2 DEF StreamInv, Stream!vars
      <3>3. CASE (\E m \in Messages : sent' = Append(sent, m)) /\ torn' = torn
        BY <1>1, <2>2, <3>1, <3>3 DEF StreamInv, Stream!Next, Stream!Send
      <3>4. CASE /\ \E m \in Messages : sent' = Append(sent, m)
                 /\ torn = 0 /\ torn' \in Turn..Len(sent)
        BY <1>1, <2>2, <3>1, <3>4 DEF StreamInv, Stream!Next, Stream!Tear, Turn
      <3> QED  BY <3>1, <3>2, <3>3, <3>4
    <2>7. CASE Retry(t)
      <3>1. /\ UNCHANGED <<sent, wire, torn>>
            /\ frame' = [frame EXCEPT ![t].retries = @ + 1]
        BY <2>7 DEF Retry
      <3>2. \A u \in Threads : /\ frame'[u].place = frame[u].place
                               /\ frame'[u].rest = frame[u].rest
        BY <2>4, <3>1 DEF FrameOK
      <3>3. Writer' /\ Framing'
        BY <2>2, <2>3, <3>1, <3>2, StreamSame
      <3> QED  BY <1>1, <2>2, <3>1, <3>3 DEF StreamInv, Stream!vars
    <2>8. CASE GiveUp(t) /\ Begun(t) /\ torn = 0
      <3>1. Writer' /\ Framing' /\ torn' \in Turn..Len(sent) /\ sent' = sent
        BY <2>2, <2>3, <2>8, StreamGiveUp DEF GiveUp
      <3> QED  BY <1>1, <2>2, <2>8, <3>1 DEF StreamInv, Stream!Next, Stream!Tear, Turn
    <2>9. CASE GiveUp(t) /\ (~Begun(t) \/ torn # 0)
      <3>1. /\ sent' = sent /\ wire' = wire /\ torn' = torn
            /\ frame' = [frame EXCEPT ![t] = NoFrame]
        BY <2>9, Torn DEF GiveUp
      <3>2. CASE ~Begun(t)
        <4>1. frame[t].place = 0
          BY <2>4, <3>2 DEF FrameOK, Begun
        <4>2. \A u \in Threads : /\ frame'[u].place = frame[u].place
                                 /\ Begun(u) => frame'[u].rest = frame[u].rest
          BY <2>4, <3>1, <3>2, <4>1, NoFrameOK
        <4>3. Writer' /\ Framing'
          BY <2>2, <2>3, <3>1, <4>2, StreamSame
        <4> QED  BY <1>1, <2>2, <3>1, <4>3 DEF StreamInv, Stream!vars
      <3>3. CASE torn # 0
        <4>1. PICK rest : Pending(rest) /\ Shaped(Unparsed, rest, sent, Turn, torn)
          BY DEF StreamInv, Framing
        <4>2. Pending(rest)' /\ Writer' /\ Turn' = Turn
          BY <2>2, <3>1, <3>3, <4>1 DEF Pending, StreamInv, Writer, Turn
        <4>3. Framing'
          BY <2>3, <3>1, <4>1, <4>2 DEF Framing
        <4> QED  BY <1>1, <2>2, <3>1, <4>2, <4>3 DEF StreamInv, Stream!vars
      <3> QED  BY <2>9, <3>2, <3>3
    <2> QED  BY <2>1, <2>5, <2>6, <2>7, <2>8, <2>9
  <1>3. ASSUME NEW n \in 1..ChunkSize, Recv(n)
        PROVE  StreamInv' /\ [Stream!Next]_(Stream!vars)
    BY <1>1, <1>3, StreamRecv DEF StreamInv, Recv, others, Stream!vars
  <1>4. ASSUME NEW n \in 1..ChunkSize, Overflow(n)
        PROVE  StreamInv' /\ [Stream!Next]_(Stream!vars)
    <2>1. /\ sent' = sent /\ torn' = torn /\ frame' = frame /\ delivered' = delivered
          /\ ~closed /\ closed' = TRUE /\ Unparsed' = Unparsed
      BY <1>4 DEF Overflow, sender, ring, Unparsed
    <2>2. Writer' /\ Framing'
      BY <2>1, StreamSame
    <2> QED  BY <1>1, <2>1, <2>2 DEF StreamInv, Stream!Next, Stream!Close
  <1>5. CASE SkipByte
    BY <1>1, <1>5, StreamSkip DEF StreamInv, SkipByte, sender, Stream!vars
  <1>6. CASE Extract
    <2>1. /\ Writer' /\ Framing'
          /\ \/ /\ Turn <= Len(sent) /\ (torn = 0 \/ Turn < torn)
                /\ delivered' = Append(delivered, sent[Turn])
             \/ /\ torn # 0 /\ Turn >= torn
                /\ \E x \in Bytes : delivered' = Append(delivered, x)
      BY <1>6, StreamExtract
    <2>2. ~closed /\ UNCHANGED <<sent, torn, closed>>
      BY <1>6 DEF Extract, sender
    <2>3. CASE /\ Turn <= Len(sent) /\ (torn = 0 \/ Turn < torn)
               /\ delivered' = Append(delivered, sent[Turn])
      BY <1>1, <2>1, <2>2, <2>3 DEF StreamInv, Stream!Next, Stream!Deliver, Stream!Turn, Turn
    <2>4. CASE /\ torn # 0 /\ Turn >= torn
               /\ \E x \in Bytes : delivered' = Append(delivered, x)
      <3>1. PICK x \in Bytes : delivered' = Append(delivered, x)
        BY <2>4
      <3>2. delivered \in Seq(Bytes)
        BY <1>1 DEF TypeInv
      <3>3. /\ Len(delivered') = Turn
            /\ SubSeq(delivered', 1, Len(delivered)) = delivered
        BY <3>1, <3>2, FrontOfAppend DEF Turn
      <3> QED  BY <1>1, <2>1, <2>2, <2>4, <3>3
                  DEF StreamInv, Stream!Next, Stream!DeliverAnything, Stream!Turn, Turn
    <2> QED  BY <2>1, <2>3, <2>4
  <1>7. CASE UNCHANGED ringVars
    <2>1. /\ sent' = sent /\ torn' = torn /\ frame' = frame /\ delivered' = delivered
          /\ closed' = closed /\ Unparsed' = Unparsed
      BY <1>7 DEF ringVars, sender, ring, Unparsed
    <2>2. Writer' /\ Framing'
      BY <2>1, StreamSame
    <2> QED  BY <1>1, <2>1, <2>2 DEF StreamInv, Stream!vars
  <1> QED  BY <1>2, <1>3, <1>4, <1>5, <1>6, <1>7 DEF RingNext, Parse

(* handle_clint_data and extractMessageCircular implement the stream of      *)
(* frames (the steps of StreamSpec): as long as the ring is never filled to  *)
(* the last byte, and unless a client sends zeros in front of frames whose   *)
(* length needs two digits, every message delivered is the next one sent,    *)
(* whatever the chunks, the wrap-arounds and the retries.                    *)
THEOREM StreamImplemented ==
  ASSUME ~MayFill, Resyncs
  PROVE  RingSpec => Stream!Init /\ [][Stream!Next]_(Stream!vars)
  <1>1. StreamInv /\ [RingNext]_ringVars => StreamInv' /\ [Stream!Next]_(Stream!vars)
    BY StreamStep
  <1> QED  BY <1>1, StreamInit, PTL DEF RingSpec
================================================================================
