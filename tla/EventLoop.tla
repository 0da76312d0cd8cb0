------------------------------- MODULE EventLoop -------------------------------
(***************************************************************************)
(* The main thread: epoll_wait hands it a batch of events, which it works  *)
(* off one by one.  An event names a descriptor number; what the number    *)
(* stands for may have changed since the batch was collected.  The kernel  *)
(* gives a new connection, or a socket or file that another thread opens,  *)
(* the lowest free number.                                                 *)
(*                                                                         *)
(* The listening socket is edge-triggered, the clients' sockets, eventfd   *)
(* and timerfd are level-triggered.  The order of the events of a batch is *)
(* the kernel's business, so a batch is a set.                             *)
(*                                                                         *)
(* The reactor closes a connection in three events: the client's own, the  *)
(* eventfd's for a "bye" response, which a worker has queued for the       *)
(* number in the task of a q, and the timerfd's for an expired timer.      *)
(* Which timers expire is left open here (module Heartbeat has them).      *)
(***************************************************************************)
EXTENDS Integers, FiniteSets

CONSTANTS Clients, Fds,
          MaxEnds,    \* bound: times a client says q or the timer fires
          MaxOther,   \* bound: descriptors other threads hold at a time
          Free, Other

ASSUME EventLoopAssumption ==
    /\ Fds \subseteq Nat /\ MaxEnds \in Nat /\ MaxOther \in Nat
    /\ Free \notin Clients /\ Other \notin Clients /\ Free # Other

VARIABLES
    owner,      \* the kernel's descriptor table: a client, another user, or Free
    waiting,    \* connections in the listen queue
    edge,       \* a connection has arrived since the last event of ser_fd
    tick,       \* tfd is readable
    unread,     \* clients with data in their socket
    gone,       \* clients that have closed their end
    buffers,    \* DOMAIN client_buffers
    quits,      \* tasks of a q no worker has answered: [fd, who], where who,
                \* the client that said it, is a ghost
    doomed,     \* responses with close_after: the same
    wake,       \* event_fd is readable
    batch,      \* events collected and not yet handled
    loop,       \* what the main thread is doing
    stop,       \* stop_server
    ends,       \* how often a client has said q or the timer has fired
    harmed,     \* ghost: whose descriptors were closed or read without a reason
    overtaken,  \* ghost: a number was closed with an event or a q of it to come
    refused     \* ghost: epoll_ctl has refused a new connection

kernel == <<owner, waiting, edge, unread, gone, tick>>
ghosts == <<harmed, overtaken, refused>>
reactor == <<buffers, quits, doomed, wake, batch, loop, stop, ends, ghosts>>
vars == <<kernel, reactor>>

Init ==
    /\ owner = [f \in Fds |-> Free]
    /\ waiting = {} /\ edge = FALSE /\ unread = {} /\ gone = {} /\ tick = FALSE
    /\ buffers = {} /\ quits = {} /\ doomed = {} /\ wake = FALSE
    /\ batch = {} /\ loop = "wait" /\ stop = FALSE
    /\ ends = 0 /\ harmed = {} /\ overtaken = FALSE /\ refused = FALSE

Connected == {c \in Clients : \E f \in Fds : owner[f] = c}
Unused    == {f \in Fds : owner[f] = Free}
Lowest(S) == CHOOSE f \in S : \A g \in S : f <= g

-----------------------------------------------------------------------------
(* The world outside: clients connect, send, and leave for good. *)

Connect(c) ==
    /\ c \notin Connected \cup waiting \cup gone
    /\ waiting' = waiting \cup {c} /\ edge' = TRUE
    /\ UNCHANGED <<owner, unread, gone, tick, reactor>>

ClientSends(c) ==
    /\ c \in Connected \ gone
    /\ unread' = unread \cup {c}
    /\ UNCHANGED <<owner, waiting, edge, gone, tick, reactor>>

Leave(c) ==
    /\ c \in Connected \ gone
    /\ gone' = gone \cup {c}
    /\ UNCHANGED <<owner, waiting, edge, unread, tick, reactor>>

(* A client says q, which reaches the workers as a task with her number ... *)
Quit(f) ==
    /\ owner[f] \in Clients \ gone /\ ends < MaxEnds
    /\ quits' = quits \cup {[fd |-> f, who |-> owner[f]]}
    /\ ends' = ends + 1
    /\ UNCHANGED <<kernel, buffers, doomed, wake, batch, loop, stop, ghosts>>

(* ... and a worker queues "bye" for that number, whatever has become of it. *)
Doom(q) ==
    /\ q \in quits
    /\ quits' = quits \ {q}
    /\ doomed' = doomed \cup {q} /\ wake' = TRUE
    /\ UNCHANGED <<kernel, buffers, batch, loop, stop, ends, ghosts>>

(* Ten seconds have passed. *)
TimerFires ==
    /\ ends < MaxEnds
    /\ tick' = TRUE /\ ends' = ends + 1
    /\ UNCHANGED <<owner, waiting, edge, unread, gone, buffers, quits, doomed, wake, batch, loop,
                   stop, ghosts>>

(* Another thread opens a connection to MySQL or Redis, or closes one. *)
OtherOpens ==
    /\ Unused # {} /\ Cardinality({f \in Fds : owner[f] = Other}) < MaxOther
    /\ owner' = [owner EXCEPT ![Lowest(Unused)] = Other]
    /\ UNCHANGED <<waiting, edge, unread, gone, tick, reactor>>

OtherCloses(f) ==
    /\ owner[f] = Other
    /\ owner' = [owner EXCEPT ![f] = Free]
    /\ UNCHANGED <<waiting, edge, unread, gone, tick, reactor>>

(* SIGINT: the handler sets stop_server and writes to event_fd.  The kernel  *)
(* runs it on the main thread; if that was blocked in epoll_wait, the call   *)
(* fails with EINTR and the loop, seeing the flag, ends.                     *)
Sigint ==
    /\ ~stop
    /\ stop' = TRUE /\ wake' = TRUE
    /\ loop' = IF loop = "wait" THEN "end" ELSE loop
    /\ UNCHANGED <<kernel, buffers, quits, doomed, batch, ends, ghosts>>

-----------------------------------------------------------------------------
(* epoll_wait *)

Event(on, f, hup) == [on |-> on, fd |-> f, hup |-> hup]

Ready ==
    {Event("client", f, owner[f] \in gone) : f \in {g \in Fds : owner[g] \in unread \cup gone}}
    \cup (IF edge THEN {Event("listen", -1, FALSE)} ELSE {})
    \cup (IF wake THEN {Event("wake", -1, FALSE)} ELSE {})
    \cup (IF tick THEN {Event("timer", -1, FALSE)} ELSE {})

(* Not modelled: a batch is cut at MAX_EVENTS. *)
EpollWait ==
    /\ loop = "wait" /\ Ready # {}
    /\ batch' = Ready
    /\ edge' = FALSE
    /\ loop' = "batch"
    /\ UNCHANGED <<owner, waiting, unread, gone, tick, buffers, quits, doomed, wake, stop, ends, ghosts>>

BatchDone ==
    /\ loop = "batch" /\ batch = {}
    /\ loop' = "wait"
    /\ UNCHANGED <<kernel, buffers, quits, doomed, wake, batch, stop, ends, ghosts>>

TakeEvent(on, l) ==   \* the next event is one of kind "on"; go on at l
    /\ loop = "batch"
    /\ \E e \in batch : e.on = on /\ batch' = batch \ {e}
    /\ loop' = l

-----------------------------------------------------------------------------
(* handle_new_connect: accept until the queue is empty ... *)

HandleListen ==
    /\ TakeEvent("listen", "accept")
    /\ UNCHANGED <<kernel, buffers, quits, doomed, wake, stop, ends, ghosts>>

AcceptFirst(c) ==   \* mutant: one accept per event, no loop
    /\ loop = "accept" /\ c \in waiting /\ Unused # {}
    /\ waiting' = waiting \ {c}
    /\ owner' = [owner EXCEPT ![Lowest(Unused)] = c]
    /\ buffers' = buffers \cup {Lowest(Unused)}
    /\ loop' = "batch"
    /\ UNCHANGED <<edge, unread, gone, tick, quits, doomed, wake, batch, stop, ends, ghosts>>

Accept(c) ==
    /\ loop = "accept" /\ c \in waiting /\ Unused # {}
    /\ waiting' = waiting \ {c}
    /\ owner' = [owner EXCEPT ![Lowest(Unused)] = c]
    /\ buffers' = buffers \cup {Lowest(Unused)}
    /\ UNCHANGED <<edge, unread, gone, tick, quits, doomed, wake, batch, loop, stop, ends, ghosts>>

(* A connection is accepted and closed at once; its client gives up. *)
Rejected(c) ==
    /\ loop = "accept" /\ c \in waiting /\ Unused # {}
    /\ waiting' = waiting \ {c} /\ gone' = gone \cup {c}
    /\ UNCHANGED <<owner, edge, unread, tick, buffers, quits, doomed, wake, batch, stop,
                   ends, harmed, overtaken>>

(* set_unblocking fails, and the loop goes on; ... *)
NoUnblocking(c) == Rejected(c) /\ UNCHANGED <<loop, refused>>

(* ... or epoll_ctl does, and the loop ends; ... *)
NoEpoll(c) == Rejected(c) /\ loop' = "batch" /\ refused' = TRUE

(* ... or accept fails: any error ends the loop. *)
AcceptEnds ==
    /\ loop = "accept" /\ (waiting = {} \/ Unused = {})
    /\ loop' = "batch"
    /\ UNCHANGED <<kernel, buffers, quits, doomed, wake, batch, stop, ends, ghosts>>

-----------------------------------------------------------------------------
(* Somebody is still to act on the number f. *)
Expected(f) == \/ \E e \in batch : e.on = "client" /\ e.fd = f
               \/ \E d \in doomed \cup quits : d.fd = f

(* close_clint(f), where client_buffers has the entries bufs: the missing    *)
(* buffer means "closed before".  Closing is right if the owner is among     *)
(* those with a cause (or if there is none, then it does nothing).           *)
CloseClint(f, bufs, causes) ==
    IF f \in bufs
    THEN /\ buffers' = bufs \ {f}
         /\ owner' = [owner EXCEPT ![f] = Free]
         /\ harmed' = IF owner[f] \in causes \cup {Free} THEN harmed
                       ELSE harmed \cup {owner[f]}
         /\ overtaken' = (overtaken \/ Expected(f)')
    ELSE UNCHANGED <<owner, harmed, overtaken>> /\ buffers' = bufs

(* handle_response: drain the queue. *)
HandleWake ==
    /\ TakeEvent("wake", "doom")
    /\ wake' = FALSE
    /\ UNCHANGED <<kernel, buffers, quits, doomed, stop, ends, ghosts>>

CloseDoomed(d) ==
    /\ loop = "doom" /\ d \in doomed
    /\ doomed' = doomed \ {d}
    /\ UNCHANGED <<waiting, edge, unread, gone, tick, quits, wake, batch, loop, stop, ends, refused>>
    /\ CloseClint(d.fd, buffers, {d.who} \cup gone)

DoomEnds ==
    /\ loop = "doom" /\ doomed = {}
    /\ loop' = "batch"
    /\ UNCHANGED <<kernel, buffers, quits, doomed, wake, batch, stop, ends, ghosts>>

(* check_timeout: close_clint for each descriptor with an expired timer.     *)
HandleTimer ==
    /\ TakeEvent("timer", "check")
    /\ tick' = FALSE
    /\ UNCHANGED <<owner, waiting, edge, unread, gone, buffers, quits, doomed, wake, stop, ends, ghosts>>

CloseExpired(f) ==
    /\ loop = "check" /\ f \in buffers
    /\ UNCHANGED <<waiting, edge, unread, gone, tick, quits, doomed, wake, batch, loop, stop,
                   ends, refused>>
    /\ CloseClint(f, buffers, Clients)

CheckEnds ==
    /\ loop = "check"
    /\ loop' = "batch"
    /\ UNCHANGED <<kernel, buffers, quits, doomed, wake, batch, stop, ends, ghosts>>

-----------------------------------------------------------------------------
(* handle_clint_data, for an event with EPOLLIN: a missing buffer is made,   *)
(* then recv until EAGAIN, unless something in the event or in what recv     *)
(* returns closes the connection.                                            *)
ClientEvent(e, closes, causes) ==
    LET o == owner[e.fd]
        bufs == buffers \cup {e.fd}
    IN
    /\ loop = "batch" /\ e \in batch /\ e.on = "client"
    /\ batch' = batch \ {e}
    /\ unread' = unread \ {o}
    /\ UNCHANGED <<waiting, edge, gone, tick, quits, doomed, wake, loop, stop, ends, refused>>
    /\ IF closes
       THEN CloseClint(e.fd, bufs, causes)
       ELSE /\ buffers' = bufs
            /\ harmed' = IF o = Other THEN harmed \cup {Other} ELSE harmed
            /\ UNCHANGED <<owner, overtaken>>

EndOfFile(e) == owner[e.fd] \in gone
BadFd(e)     == owner[e.fd] = Free

(* Mutants: EAGAIN taken for an error; EBADF, and end of file, ignored. *)
HandleClientEagain(e)  == ClientEvent(e, TRUE, gone)
HandleClientNoBadFd(e) == ClientEvent(e, EndOfFile(e) \/ e.hup, gone)
HandleClientNoEof(e)   == ClientEvent(e, BadFd(e), gone)

(* recv returns 0, or fails with EBADF on a number nobody uses; or the event *)
(* says EPOLLRDHUP as well.                                                  *)
HandleClient(e) == ClientEvent(e, EndOfFile(e) \/ BadFd(e) \/ e.hup, gone)

(* What was read does not fit in the ring: the client's own doing. *)
HandleOverflow(e) ==
    /\ e.on = "client" /\ owner[e.fd] \in unread
    /\ ClientEvent(e, TRUE, unread)

-----------------------------------------------------------------------------
Reactor == \/ EpollWait \/ BatchDone \/ HandleListen \/ (\E c \in Clients : Accept(c))
           \/ (\E c \in Clients : NoUnblocking(c) \/ NoEpoll(c)) \/ AcceptEnds
           \/ HandleWake \/ (\E d \in doomed : CloseDoomed(d)) \/ DoomEnds
           \/ HandleTimer \/ (\E f \in buffers : CloseExpired(f)) \/ CheckEnds
           \/ \E e \in batch : HandleClient(e) \/ HandleOverflow(e)

Next == \/ \E c \in Clients : Connect(c) \/ ClientSends(c) \/ Leave(c)
        \/ \E f \in Fds : Quit(f) \/ OtherCloses(f)
        \/ \E q \in quits : Doom(q)
        \/ TimerFires \/ OtherOpens \/ Sigint \/ Reactor

(* The main thread runs. *)
Spec == Init /\ [][Next]_vars
FairSpec == Spec /\ WF_vars(Reactor)

-----------------------------------------------------------------------------
TypeOK ==
    /\ owner \in [Fds -> Clients \cup {Free, Other}]
    /\ \A f, g \in Fds : f # g /\ owner[f] \in Clients => owner[f] # owner[g]
    /\ waiting \subseteq Clients /\ unread \subseteq Clients /\ gone \subseteq Clients
    /\ buffers \subseteq Fds
    /\ doomed \cup quits \subseteq [fd : Fds, who : Clients]
    /\ loop \in {"wait", "batch", "accept", "doom", "check", "end"}
    /\ {edge, wake, tick, stop, overtaken, refused} \subseteq BOOLEAN

(* client_buffers says which descriptors are connections: each of them, and  *)
(* no other, whatever stale events a batch contains, until such an event     *)
(* makes the reactor read the descriptor of another thread.                  *)
BuffersAreConnections ==
    Other \notin harmed => buffers = {f \in Fds : owner[f] \in Clients}

(* A connection is closed only because its client left, said q, was timed    *)
(* out or overflowed its ring, and no descriptor of another thread is read   *)
(* or closed, whatever numbers change hands within a batch, ...              *)
NoHarm == harmed = {}

(* ... unless a connection was closed while an event of the batch about its  *)
(* number, or a q from it, was still to be handled: a client that leaves in  *)
(* the same batch in which a time-out or its "bye" closes it, for example.   *)
HarmNeedsOvertaking == ~overtaken => NoHarm

(* Who connects is accepted, provided that a descriptor is free whenever a   *)
(* connection waits and epoll_ctl refuses none, ...                          *)
Spare == waiting # {} => Unused # {}
EventuallyAccepted ==
    []Spare /\ []~refused /\ <>[](loop # "end") => \A c \in Clients : c \in waiting ~> c \notin waiting

(* ... and who leaves has her connection closed, unless ^C ends the loop.    *)
EventuallyClosed ==
    (<>[](loop # "end")) => \A c \in Clients : c \in gone ~> c \notin Connected
===============================================================================
