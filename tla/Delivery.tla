------------------------------- MODULE Delivery -------------------------------
(***************************************************************************)
(* From a sender's server to the recipient's client, across the cluster.   *)
(* Several servers share one MySQL and one Redis.  single_chat, multi_chat,*)
(* broadcast_chat and group_chat do the same for each recipient: look the  *)
(* recipient up in clint_nametofd, insert a chat_log row that says whether *)
(* she was found, then either queue a response for her connection or       *)
(* publish on her channel.  Subscribed servers get the publication as a    *)
(* SUB_MSG task.  sign_in registers the recipient, asks for her channel    *)
(* and hands over the rows not marked is_delivered.                        *)
(*                                                                         *)
(* A message is one (sender's command, recipient) pair.  The notices of    *)
(* invite_group travel the same way but have no row: the number in the     *)
(* third field of what they publish is the conversation's.  group_chat     *)
(* publishes although its INSERT failed, with a number that MySQL leaves   *)
(* undefined.  WrongRow[m] is the message whose row has that number by     *)
(* chance (m itself if there is none).                                     *)
(*                                                                         *)
(* Habits restricts the users:                                             *)
(*   "patient"      a user does not hang up while her sign_in is handled   *)
(*   "quiet_leave"  no message to a user is on its way from the time she   *)
(*                  hangs up until close_clint has forgotten her name      *)
(*   "quiet_login"  no message to a user is on its way from the time she   *)
(*                  asks to sign in until Redis knows of the subscription, *)
(*                  and her last session's UNSUBSCRIBE and UPDATEs are done*)
(* Whatever her habits, a user has one session at a time: she asks to sign *)
(* in again when the handler of her last sign_in is through and no         *)
(* close_clint is about to forget her name (see Sessions for what happens  *)
(* when she has two).  Redis loses MaxDrops connections.                   *)
(***************************************************************************)
EXTENDS Integers, Sequences, FiniteSets

CONSTANTS Servers, Fds, Users, Msgs,
          To,         \* the recipient of each message
          WrongRow,   \* the row named in what is published for m without one
          BadInserts, \* the messages whose INSERT may fail
          MaxUnread,  \* unread messages that fit in BUF_SIZE
          Habits,
          MaxLogins,  \* bound: sessions ever opened
          MaxDrops,   \* bound: times a server loses its Redis connection
          NoFd, Nobody

ASSUME DeliveryAssumption ==
    /\ To \in [Msgs -> Users] /\ WrongRow \in [Msgs -> Msgs]
    /\ BadInserts \subseteq Msgs /\ MaxUnread \in Nat
    /\ Habits \subseteq {"patient", "quiet_leave", "quiet_login"}
    /\ MaxLogins \in Nat /\ MaxDrops \in Nat
    /\ NoFd \notin Fds /\ Nobody \notin Users

VARIABLES
    client,    \* the user at the other end of each server's descriptors
    login,     \* how far each user's sign_in handler is, and where
    logins,    \* sessions opened so far
    reactor,   \* what each server's reactor is doing
    nameFd,    \* clint_nametofd of each server, and ...
    fdName,    \* ... clint_fdtoname
    subs,      \* redis_subscribed_channels of each server
    cmds,      \* _cmd_queue of each server's Redis object
    channels,  \* the channels Redis has each server subscribed to
    drops,     \* Redis connections lost so far
    send,      \* how far the handler of each message is: [at, how, srv, fd],
               \* where how is "chat", "group" or "invite"
    row,       \* chat_log: is_delivered of each message, or "none"
    tasks,     \* SUB_MSG tasks of each server: [msg, at, fd]
    resps,     \* resp_queue of each server: [fd, msgs]
    marks,     \* queued "set is_delivered = 1": the rows named
    got        \* how often each user's client has received each message

sessions == <<client, login, logins, reactor>>
redis    == <<subs, cmds, channels, drops>>
names    == <<nameFd, fdName>>
deliveryVars == <<sessions, names, redis, send, row, tasks, resps, marks, got>>

Idle     == [at |-> "idle", fd |-> NoFd]
NoLogin  == [at |-> "no", srv |-> Nobody, fd |-> NoFd]

DeliveryInit ==
    /\ client = [s \in Servers |-> [f \in Fds |-> Nobody]]
    /\ login = [u \in Users |-> NoLogin] /\ logins = 0
    /\ reactor = [s \in Servers |-> Idle]
    /\ nameFd = [s \in Servers |-> [u \in Users |-> NoFd]]
    /\ fdName = [s \in Servers |-> [f \in Fds |-> Nobody]]
    /\ subs = [s \in Servers |-> {}] /\ channels = [s \in Servers |-> {}]
    /\ cmds = [s \in Servers |-> <<>>] /\ drops = 0
    /\ send = [m \in Msgs |-> [at |-> "unsent", how |-> "chat", srv |-> Nobody, fd |-> NoFd]]
    /\ row = [m \in Msgs |-> "none"]
    /\ tasks = [s \in Servers |-> {}] /\ resps = [s \in Servers |-> <<>>]
    /\ marks = {}
    /\ got = [m \in Msgs |-> [u \in Users |-> 0]]

EnResp(s, f, ms) == resps' = [resps EXCEPT ![s] = Append(@, [fd |-> f, msgs |-> ms])]

Sending(u) == {m \in Msgs : To[m] = u /\ send[m].at \in {"insert", "forward"}}

(* Server s still has something of an earlier session of u, or for it; that  *)
(* her last sign_in is through SignIn asks of every user.                    *)
Lingers(u, s) == \/ u \in channels[s] \/ \E m \in marks : To[m] = u
                 \/ \E t \in tasks[s] : To[t.msg] = u
                 \/ \E i \in 1..Len(cmds[s]) : cmds[s][i].user = u

(* Whose name close_clint finds on the descriptor that it has closed. *)
Leaving(s) == fdName[s][reactor[s].fd]

(* u has hung up, and close_clint has not come to her name. *)
HangingUp(u) == \E s \in Servers : reactor[s].at = "maps" /\ Leaving(s) = u

(* A sign_in of u is being handled, or Redis has not seen her SUBSCRIBE. *)
SigningIn(u) ==
    /\ login[u].at # "no"
    /\ login[u].at # "done" \/ \E i \in 1..Len(cmds[login[u].srv]) :
                                   cmds[login[u].srv][i] = [op |-> "sub", user |-> u]

-----------------------------------------------------------------------------
(* sign_in, for a client that has just connected to s on descriptor f.  The *)
(* checks before the maps are in Sessions.                                   *)
SignIn(u, s, f) ==
    /\ login[u] = NoLogin /\ reactor[s] = Idle /\ client[s][f] = Nobody
    /\ ~ HangingUp(u) /\ logins < MaxLogins
    /\ "quiet_login" \in Habits => Sending(u) = {} /\ \A t \in Servers : ~ Lingers(u, t)
    /\ client' = [client EXCEPT ![s][f] = u]
    /\ login' = [login EXCEPT ![u] = [at |-> "maps", srv |-> s, fd |-> f]]
    /\ logins' = logins + 1
    /\ UNCHANGED <<reactor, names, redis, send, row, tasks, resps, marks, got>>

LoginAt(u, l) == login' = [login EXCEPT ![u].at = l]

(* The handler is through: u is signed in, if she has not left meanwhile. *)
LoginEnds(u) ==
    login' = [login EXCEPT ![u] = IF client[@.srv][@.fd] = u THEN [@ EXCEPT !.at = "done"]
                                  ELSE NoLogin]

(* Under client_map_mutex, whoever has the descriptor by now. *)
SignInMaps(u) ==
    LET s == login[u].srv
        f == login[u].fd IN
    /\ login[u].at = "maps"
    /\ nameFd' = [nameFd EXCEPT ![s][u] = f]
    /\ fdName' = [fdName EXCEPT ![s][f] = u]
    /\ LoginAt(u, "sub")
    /\ UNCHANGED <<client, logins, reactor, redis, send, row, tasks, resps, marks, got>>

(* Under redis_mutex.  Redis::subscribe only queues the command. *)
SignInSubscribe(u) ==
    LET s == login[u].srv IN
    /\ login[u].at = "sub"
    /\ subs' = [subs EXCEPT ![s] = @ \cup {u}]
    /\ cmds' = IF u \in subs[s] THEN cmds
               ELSE [cmds EXCEPT ![s] = Append(@, [op |-> "sub", user |-> u])]
    /\ LoginAt(u, "select")
    /\ UNCHANGED <<client, logins, reactor, names, channels, drops, send, row, tasks,
                   resps, marks, got>>

Unread(u) == {m \in Msgs : To[m] = u /\ row[m] = "stored"}

(* Mutant: the rows are marked before they are read. *)
SignInMarkFirst(u) ==
    /\ login[u].at = "select"
    /\ row' = [m \in Msgs |-> IF m \in Unread(u) THEN "delivered" ELSE row[m]]
    /\ LoginEnds(u)
    /\ UNCHANGED <<client, logins, reactor, names, redis, send, tasks, resps, marks, got>>

(* What snprintf leaves of the unread messages. *)
Fitting(ms) == {c \in SUBSET ms : /\ Cardinality(c) <= MaxUnread
                                  /\ c = ms \/ Cardinality(c) = MaxUnread}

(* The rows not marked, in one response. *)
SignInUnread(u) ==
    /\ login[u].at = "select"
    /\ IF Unread(u) = {} THEN LoginEnds(u) /\ UNCHANGED resps
       ELSE /\ LoginAt(u, "mark")
            /\ \E c \in Fitting(Unread(u)) : EnResp(login[u].srv, login[u].fd, c)
    /\ UNCHANGED <<client, logins, reactor, names, redis, send, row, tasks, marks, got>>

(* A second statement marks whatever is unmarked by now. *)
SignInMark(u) ==
    /\ login[u].at = "mark"
    /\ row' = [m \in Msgs |-> IF m \in Unread(u) THEN "delivered" ELSE row[m]]
    /\ LoginEnds(u)
    /\ UNCHANGED <<client, logins, reactor, names, redis, send, tasks, resps, marks, got>>

-----------------------------------------------------------------------------
(* The reactor of server s. *)

(* A message to u, whose connection is f on server s. *)
OnItsWay(u, s, f) ==
    \/ Sending(u) # {}
    \/ \E t \in tasks[s] : To[t.msg] = u
    \/ \E i \in 1..Len(resps[s]) : resps[s][i].fd = f

(* The client hangs up: close_clint frees the descriptor ...  A sign_in that *)
(* is being handled goes on.                                                 *)
Disconnect(s, f) ==
    LET u == client[s][f] IN
    /\ reactor[s] = Idle /\ u # Nobody
    /\ "patient" \in Habits => login[u].at = "done"
    /\ "quiet_leave" \in Habits => ~ OnItsWay(u, s, f)
    /\ client' = [client EXCEPT ![s][f] = Nobody]
    /\ login' = IF login[u].at = "done" THEN [login EXCEPT ![u] = NoLogin] ELSE login
    /\ reactor' = [reactor EXCEPT ![s] = [at |-> "maps", fd |-> f]]
    /\ UNCHANGED <<logins, names, redis, send, row, tasks, resps, marks, got>>

(* ... forgets the name found on it, if there is one ... *)
Forgotten(s) ==
    reactor' = [reactor EXCEPT ![s] =
                  IF Leaving(s) = Nobody THEN Idle ELSE [at |-> "unsub", fd |-> Leaving(s)]]

CloseMapsNot(s) ==   \* mutant: the name stays in clint_nametofd
    /\ reactor[s].at = "maps"
    /\ fdName' = [fdName EXCEPT ![s][reactor[s].fd] = Nobody]
    /\ Forgotten(s)
    /\ UNCHANGED <<client, login, logins, nameFd, redis, send, row, tasks, resps, marks, got>>

CloseMaps(s) ==
    /\ reactor[s].at = "maps"
    /\ nameFd' = [nameFd EXCEPT ![s] =
                     [u \in Users |-> IF u = Leaving(s) THEN NoFd ELSE @[u]]]
    /\ fdName' = [fdName EXCEPT ![s][reactor[s].fd] = Nobody]
    /\ Forgotten(s)
    /\ UNCHANGED <<client, login, logins, redis, send, row, tasks, resps, marks, got>>

CloseUnsubHalf(s) ==   \* mutant: redis_subscribed_channels keeps the user
    /\ reactor[s].at = "unsub"
    /\ cmds' = [cmds EXCEPT ![s] = Append(@, [op |-> "unsub", user |-> reactor[s].fd])]
    /\ reactor' = [reactor EXCEPT ![s] = Idle]
    /\ UNCHANGED <<client, login, logins, names, subs, channels, drops, send, row,
                   tasks, resps, marks, got>>

(* ... and, under redis_mutex, asks to leave the user's channel. *)
CloseUnsub(s) ==
    LET u == reactor[s].fd IN
    /\ reactor[s].at = "unsub"
    /\ subs' = [subs EXCEPT ![s] = @ \ {u}]
    /\ cmds' = IF u \notin subs[s] THEN cmds
               ELSE [cmds EXCEPT ![s] = Append(@, [op |-> "unsub", user |-> u])]
    /\ reactor' = [reactor EXCEPT ![s] = Idle]
    /\ UNCHANGED <<client, login, logins, names, channels, drops, send, row, tasks,
                   resps, marks, got>>

(* handle_response: to whoever is at that descriptor now, if anybody is. *)
HandleResponse(s) ==
    /\ reactor[s] = Idle /\ resps[s] # <<>>
    /\ LET r == Head(resps[s]) IN
         got' = [m \in Msgs |-> [u \in Users |->
                   got[m][u] + IF m \in r.msgs /\ client[s][r.fd] = u THEN 1 ELSE 0]]
    /\ resps' = [resps EXCEPT ![s] = Tail(@)]
    /\ UNCHANGED <<sessions, names, redis, send, row, tasks, marks>>

-----------------------------------------------------------------------------
(* Redis: the observer thread of server s. *)

(* process_pending_commands: the queued SUBSCRIBEs and UNSUBSCRIBEs, in order. *)
RedisCommand(s) ==
    /\ cmds[s] # <<>>
    /\ channels' = [channels EXCEPT ![s] =
                      IF Head(cmds[s]).op = "sub" THEN @ \cup {Head(cmds[s]).user}
                      ELSE @ \ {Head(cmds[s]).user}]
    /\ cmds' = [cmds EXCEPT ![s] = Tail(@)]
    /\ UNCHANGED <<sessions, names, subs, drops, send, row, tasks, resps, marks, got>>

(* keepAliveLoop: a lost connection is opened anew.  Redis forgets the       *)
(* subscriptions of the old one, and the server does not ask for them again. *)
RedisReconnect(s) ==
    /\ drops < MaxDrops
    /\ drops' = drops + 1
    /\ channels' = [channels EXCEPT ![s] = {}]
    /\ UNCHANGED <<sessions, names, subs, cmds, send, row, tasks, resps, marks, got>>

-----------------------------------------------------------------------------
(* The handlers, on server s, for one recipient: every one of them first     *)
(* looks her up.  The errors that end a handler before that (not signed in,  *)
(* unknown recipient, no friend) send nothing and are left out.              *)

Lookup(m, s, how) ==
    /\ send[m].at = "unsent"
    /\ "quiet_login" \in Habits => ~ SigningIn(To[m])
    /\ "quiet_leave" \in Habits => ~ HangingUp(To[m])
    /\ send' = [send EXCEPT ![m] =
                  [at |-> "insert", how |-> how, srv |-> s, fd |-> nameFd[s][To[m]]]]
    /\ UNCHANGED <<sessions, names, redis, row, tasks, resps, marks, got>>

SingleChat(m, s) == Lookup(m, s, "chat")

(* One recipient of a list; her turn may come long after the command. *)
MultiChat(m, s) == Lookup(m, s, "chat")

(* To users whose is_online was 1; it may be stale, so to anybody. *)
BroadcastChat(m, s) == Lookup(m, s, "chat")

GroupChat(m, s) == Lookup(m, s, "group")

InviteGroup(m, s) == Lookup(m, s, "invite")

(* The row's is_delivered is what the lookup found. *)
Insert(m) ==
    /\ send[m].at = "insert"
    /\ row' = [row EXCEPT ![m] = IF send[m].how = "invite" THEN @
                                 ELSE IF send[m].fd # NoFd THEN "delivered" ELSE "stored"]
    /\ send' = [send EXCEPT ![m].at = "forward"]
    /\ UNCHANGED <<sessions, names, redis, tasks, resps, marks, got>>

(* The INSERT fails: group_chat does not look, the others give up.           *)
InsertFails(m) ==
    /\ send[m].at = "insert" /\ send[m].how # "invite" /\ m \in BadInserts
    /\ send' = [send EXCEPT ![m].at = IF send[m].how = "group" THEN "forward" ELSE "sent"]
    /\ UNCHANGED <<sessions, names, redis, row, tasks, resps, marks, got>>

(* Found here: a response and, except by group_chat, the queued UPDATE. *)
ForwardLocal(m) ==
    /\ send[m].at = "forward" /\ send[m].fd # NoFd
    /\ EnResp(send[m].srv, send[m].fd, {m})
    /\ marks' = IF send[m].how = "chat" THEN marks \cup {m} ELSE marks
    /\ send' = [send EXCEPT ![m].at = "sent"]
    /\ UNCHANGED <<sessions, names, redis, row, tasks, got>>

(* Not found: publish, under redis_mutex.  Every server whose connection is  *)
(* subscribed to the channel gets a SUB_MSG task.                            *)
ForwardRemote(m) ==
    /\ send[m].at = "forward" /\ send[m].fd = NoFd
    /\ tasks' = [s \in Servers |->
                   IF To[m] \in channels[s]
                   THEN tasks[s] \cup {[msg |-> m, at |-> "queued", fd |-> NoFd]}
                   ELSE tasks[s]]
    /\ send' = [send EXCEPT ![m].at = "sent"]
    /\ UNCHANGED <<sessions, names, redis, row, resps, marks, got>>

-----------------------------------------------------------------------------
(* A SUB_MSG task on server s. *)

(* The recipient is looked up; if she is not here the task ends. *)
SubLookup(s, t) ==
    /\ t.at = "queued"
    /\ LET f == nameFd[s][To[t.msg]] IN
         tasks' = [tasks EXCEPT ![s] =
                     (@ \ {t}) \cup IF f = NoFd THEN {}
                                    ELSE {[msg |-> t.msg, at |-> "found", fd |-> f]}]
    /\ UNCHANGED <<sessions, names, redis, send, row, resps, marks, got>>

SubForwardUnmarked(s, t) ==   \* mutant: the row is not marked
    /\ t.at = "found"
    /\ EnResp(s, t.fd, {t.msg})
    /\ tasks' = [tasks EXCEPT ![s] = @ \ {t}]
    /\ UNCHANGED <<sessions, names, redis, send, row, marks, got>>

(* The response, then the UPDATE of the row with the id in the msgid field. *)
SubForward(s, t) ==
    /\ t.at = "found"
    /\ EnResp(s, t.fd, {t.msg})
    /\ marks' = marks \cup {IF row[t.msg] = "none" THEN WrongRow[t.msg] ELSE t.msg}
    /\ tasks' = [tasks EXCEPT ![s] = @ \ {t}]
    /\ UNCHANGED <<sessions, names, redis, send, row, got>>

(* The DbHandle thread: a queued UPDATE; a row that does not exist stays so. *)
HandleDb ==
    \E m \in marks :
      /\ marks' = marks \ {m}
      /\ row' = [row EXCEPT ![m] = IF @ = "none" THEN @ ELSE "delivered"]
      /\ UNCHANGED <<sessions, names, redis, send, tasks, resps, got>>

-----------------------------------------------------------------------------
LoginStep(u) == SignInMaps(u) \/ SignInSubscribe(u) \/ SignInUnread(u) \/ SignInMark(u)
CloseStep(s) == CloseMaps(s) \/ CloseUnsub(s)
SendStep(m)  == Insert(m) \/ InsertFails(m) \/ ForwardLocal(m) \/ ForwardRemote(m)
SubStep(s)   == \E t \in tasks[s] : SubLookup(s, t) \/ SubForward(s, t)

DeliveryNext ==
    \/ \E u \in Users : LoginStep(u) \/ \E s \in Servers, f \in Fds : SignIn(u, s, f)
    \/ \E s \in Servers : \/ \E f \in Fds : Disconnect(s, f)
                          \/ CloseStep(s) \/ HandleResponse(s)
                          \/ RedisCommand(s) \/ RedisReconnect(s) \/ SubStep(s)
    \/ \E m \in Msgs : \/ SendStep(m)
                       \/ \E s \in Servers : \/ SingleChat(m, s) \/ MultiChat(m, s)
                                            \/ BroadcastChat(m, s) \/ GroupChat(m, s)
                                            \/ InviteGroup(m, s)
    \/ HandleDb

(* The servers' threads run; users do as they please. *)
Fairness ==
    /\ \A u \in Users : WF_deliveryVars(LoginStep(u))
    /\ \A s \in Servers : /\ WF_deliveryVars(CloseStep(s)) /\ WF_deliveryVars(HandleResponse(s))
                          /\ WF_deliveryVars(RedisCommand(s)) /\ WF_deliveryVars(SubStep(s))
    /\ \A m \in Msgs : WF_deliveryVars(SendStep(m))
    /\ WF_deliveryVars(HandleDb)

DeliverySpec == DeliveryInit /\ [][DeliveryNext]_deliveryVars
DeliveryFairSpec == DeliverySpec /\ Fairness

-----------------------------------------------------------------------------
DeliveryTypeOK ==
    /\ client \in [Servers -> [Fds -> Users \cup {Nobody}]]
    /\ \A u \in Users : /\ login[u].at \in {"no", "maps", "sub", "select", "mark", "done"}
                        /\ login[u].at = "done" => client[login[u].srv][login[u].fd] = u
    /\ nameFd \in [Servers -> [Users -> Fds \cup {NoFd}]]
    /\ fdName \in [Servers -> [Fds -> Users \cup {Nobody}]]
    /\ subs \in [Servers -> SUBSET Users] /\ channels \in [Servers -> SUBSET Users]
    /\ row \in [Msgs -> {"none", "stored", "delivered"}] /\ marks \subseteq Msgs
    /\ \A s \in Servers : tasks[s] \subseteq [msg : Msgs, at : {"queued", "found"},
                                              fd : Fds \cup {NoFd}]
    /\ \A s \in Servers : resps[s] \in Seq([fd : Fds, msgs : SUBSET Msgs])

(* A message is received by its addressee only: a descriptor looked up       *)
(* earlier may have been given to somebody else by the time it is used.      *)
OnlyAddressee == \A m \in Msgs, u \in Users : got[m][u] > 0 => u = To[m]

(* When nothing is left to do, ... *)
Settled ==
    /\ \A u \in Users : login[u].at \in {"no", "done"}
    /\ \A s \in Servers : /\ reactor[s] = Idle /\ cmds[s] = <<>>
                          /\ tasks[s] = {} /\ resps[s] = <<>>
    /\ \A m \in Msgs : send[m].at \in {"unsent", "sent"}
    /\ marks = {}

(* ... a row marked is_delivered is that of a message its recipient has got: *)
(* every other one will be offered again when she signs in.                  *)
NothingLost ==
    Settled => \A m \in Msgs : row[m] = "delivered" => got[m][To[m]] > 0

(* ... and each message has been received once at most. *)
AtMostOnce == \A m \in Msgs, u \in Users : got[m][u] <= 1

(* Unless Redis loses a connection, a message that has a row reaches its     *)
(* recipient if she comes to stay signed in, whenever and wherever that is.  *)
SignedIn(u) == login[u].at = "done"
EventuallyReceived ==
    [](drops = 0) => \A m \in Msgs : <>[](SignedIn(To[m])) /\ <>(row[m] # "none")
                                      => <>(got[m][To[m]] > 0)
===============================================================================
