---------------------------- MODULE Delivery_proofs ----------------------------
(***************************************************************************)
(* The way of a message to its reader: through the servers to the          *)
(* connection of its recipient (Delivery), then through the console client *)
(* at the other end of that connection (Client).  The two modules share no *)
(* state and are proved about one after the other.                         *)
(*                                                                         *)
(* Delivery, for any servers, descriptors, users and messages, any number  *)
(* of sessions and of lost Redis connections, and users with the habits    *)
(* named.  Each promise rests on what the type says of the handlers under  *)
(* way, on where a user's name is known (Registered) or where her channel  *)
(* is subscribed to (Subscribed), and on a count of the places in which a  *)
(* message is on its way (Addressed, Places, Offered, Kept).               *)
(*                                                                         *)
(* Client, for every time-out, period, length of the inbox and number of   *)
(* faults.  That the answers match the state of the menu is inductive once *)
(* the codes of the answers are known never to be those of others'         *)
(* messages.  That a client with a running heartbeat thread is not timed   *)
(* out rests on an invariant about two clocks: as long as no heartbeat is  *)
(* on its way, the thread's sleep ends before the connection's time does.  *)
(***************************************************************************)
EXTENDS Delivery, Client, SequenceTheorems, FiniteSetTheorems, TLAPS

-----------------------------------------------------------------------------
(* Delivery.                                                                 *)

Stages == {"no", "maps", "sub", "select", "mark", "done"}
Resp   == [fd : Fds, msgs : SUBSET Msgs]
Task   == [msg : Msgs, at : {"queued", "found"}, fd : Fds \cup {NoFd}]
Cmd    == [op : {"sub", "unsub"}, user : Users]

TypeSessions ==
    /\ client \in [Servers -> [Fds -> Users \cup {Nobody}]]
    /\ login \in [Users -> [at : Stages, srv : Servers \cup {Nobody}, fd : Fds \cup {NoFd}]]
    /\ \A u \in Users : IF login[u].at = "no" THEN login[u] = NoLogin
                        ELSE login[u].srv \in Servers /\ login[u].fd \in Fds
    /\ nameFd \in [Servers -> [Users -> Fds \cup {NoFd}]]
    /\ fdName \in [Servers -> [Fds -> Users \cup {Nobody}]]
TypeReactor ==
    /\ reactor \in [Servers -> [at : {"idle", "maps", "unsub"}, fd : Fds \cup Users \cup {NoFd}]]
    /\ \A s \in Servers : /\ reactor[s].at = "idle" => reactor[s] = Idle
                          /\ reactor[s].at = "maps" => reactor[s].fd \in Fds
                          /\ reactor[s].at = "unsub" => reactor[s].fd \in Users
TypeRedis ==
    /\ subs \in [Servers -> SUBSET Users] /\ channels \in [Servers -> SUBSET Users]
    /\ cmds \in [Servers -> Seq(Cmd)]
TypeSend ==
    /\ send \in [Msgs -> [at : {"unsent", "insert", "forward", "sent"},
                          how : {"chat", "group", "invite"},
                          srv : Servers \cup {Nobody}, fd : Fds \cup {NoFd}]]
    /\ \A m \in Msgs : send[m].at # "unsent" => send[m].srv \in Servers
TypeRows == row \in [Msgs -> {"none", "stored", "delivered"}] /\ marks \subseteq Msgs
TypeTasks ==
    /\ tasks \in [Servers -> SUBSET Task]
    /\ \A s \in Servers : \A t \in tasks[s] : t.at = "found" => t.fd \in Fds
TypeResps == resps \in [Servers -> Seq(Resp)]
TypeGot == got \in [Msgs -> [Users -> Nat]]

Typing == /\ TypeSessions /\ TypeReactor /\ TypeRedis /\ TypeSend /\ TypeRows /\ TypeTasks
          /\ TypeResps /\ TypeGot

-----------------------------------------------------------------------------
LEMMA EachResp ==
  ASSUME TypeResps, NEW s \in Servers, NEW i \in 1..Len(resps[s])
  PROVE  resps[s][i] \in Resp /\ resps[s][i].fd \in Fds /\ resps[s][i].msgs \subseteq Msgs
  <1>1. resps[s] \in Seq(Resp)
    BY DEF TypeResps
  <1>2. resps[s][i] \in Resp
    BY <1>1, ElementOfSeq
  <1> QED  BY <1>2 DEF Resp

(* A response is queued. *)
LEMMA Put ==
  ASSUME TypeResps, NEW s \in Servers, NEW f \in Fds, NEW ms \in SUBSET Msgs, EnResp(s, f, ms)
  PROVE  /\ TypeResps'
         /\ \A t \in Servers : \A i \in 1..Len(resps[t]) :
               i \in 1..Len(resps'[t]) /\ resps'[t][i] = resps[t][i]
         /\ \A t \in Servers : \A i \in 1..Len(resps'[t]) :
               \/ i \in 1..Len(resps[t]) /\ resps'[t][i] = resps[t][i]
               \/ t = s /\ i = Len(resps[s]) + 1 /\ resps'[t][i] = [fd |-> f, msgs |-> ms]
         /\ Len(resps[s]) + 1 \in 1..Len(resps'[s])
         /\ resps'[s][Len(resps[s]) + 1] = [fd |-> f, msgs |-> ms]
  <1> DEFINE e == [fd |-> f, msgs |-> ms]
  <1>1. e \in Resp /\ resps[s] \in Seq(Resp)
    BY DEF Resp, TypeResps
  <1>2. resps' = [resps EXCEPT ![s] = Append(resps[s], e)]
    BY DEF EnResp
  <1>3. /\ Append(resps[s], e) \in Seq(Resp) /\ Len(Append(resps[s], e)) = Len(resps[s]) + 1
        /\ \A i \in 1..Len(resps[s]) : Append(resps[s], e)[i] = resps[s][i]
        /\ Append(resps[s], e)[Len(resps[s]) + 1] = e /\ Len(resps[s]) \in Nat
    BY <1>1
  <1>4. TypeResps' /\ resps'[s] = Append(resps[s], e)
    BY <1>2, <1>3 DEF TypeResps
  <1>5. \A t \in Servers : t # s => resps'[t] = resps[t]
    BY <1>2 DEF TypeResps
  <1> HIDE DEF e
  <1>6. ASSUME NEW i \in 1..Len(resps'[s])
        PROVE  \/ i \in 1..Len(resps[s]) /\ resps'[s][i] = resps[s][i]
               \/ i = Len(resps[s]) + 1 /\ resps'[s][i] = e
    BY <1>3, <1>4
  <1>7. \A i \in 1..Len(resps[s]) : i \in 1..Len(resps'[s]) /\ resps'[s][i] = resps[s][i]
    BY <1>3, <1>4
  <1>8. Len(resps[s]) + 1 \in 1..Len(resps'[s]) /\ resps'[s][Len(resps[s]) + 1] = e
    BY <1>3, <1>4
  <1> QED  BY <1>4, <1>5, <1>6, <1>7, <1>8 DEF e

(* The oldest response is taken. *)
LEMMA Get ==
  ASSUME TypeResps, NEW s \in Servers, resps[s] # <<>>, resps' = [resps EXCEPT ![s] = Tail(@)]
  PROVE  /\ TypeResps'
         /\ Head(resps[s]) = resps[s][1] /\ resps[s][1] \in Resp /\ 1 \in 1..Len(resps[s])
         /\ \A t \in Servers : t # s => resps'[t] = resps[t]
         /\ \A i \in 1..Len(resps'[s]) :
               i + 1 \in 1..Len(resps[s]) /\ resps'[s][i] = resps[s][i + 1]
         /\ \A i \in 1..Len(resps[s]) :
               i # 1 => i - 1 \in 1..Len(resps'[s]) /\ resps'[s][i - 1] = resps[s][i]
  <1> DEFINE q == Tail(resps[s])
  <1>1. resps[s] \in Seq(Resp)
    BY DEF TypeResps
  <1>2. /\ q \in Seq(Resp) /\ Len(q) = Len(resps[s]) - 1
        /\ \A i \in 1..Len(q) : q[i] = resps[s][i + 1]
        /\ Len(resps[s]) \in Nat /\ Len(resps[s]) > 0
    BY <1>1, HeadTailProperties, EmptySeq
  <1>3. TypeResps' /\ resps'[s] = q /\ \A t \in Servers : t # s => resps'[t] = resps[t]
    BY <1>2 DEF TypeResps
  <1>4. Head(resps[s]) = resps[s][1] /\ 1 \in 1..Len(resps[s]) /\ resps[s][1] \in Resp
    BY <1>1, <1>2
  <1> HIDE DEF q
  <1>5. \A i \in 1..Len(q) : i + 1 \in 1..Len(resps[s]) /\ q[i] = resps[s][i + 1]
    BY <1>2
  <1>6. ASSUME NEW i \in 1..Len(resps[s]), i # 1
        PROVE  i - 1 \in 1..Len(q) /\ q[i - 1] = resps[s][i]
    <2>1. i - 1 \in 1..Len(q) /\ (i - 1) + 1 = i
      BY <1>2, <1>6
    <2> QED  BY <1>2, <2>1
  <1> QED  BY <1>3, <1>4, <1>5, <1>6

LEMMA TypingInit == DeliveryInit => Typing
  <1> SUFFICES ASSUME DeliveryInit PROVE Typing
    OBVIOUS
  <1> USE DeliveryAssumption DEF DeliveryInit
  <1>1. TypeSessions /\ TypeReactor
    BY DEF TypeSessions, TypeReactor, Stages, NoLogin, Idle
  <1>2. TypeRedis /\ TypeResps
    BY EmptySeq DEF TypeRedis, TypeResps
  <1>3. TypeSend /\ TypeRows /\ TypeTasks /\ TypeGot
    BY DEF TypeSend, TypeRows, TypeTasks, TypeGot
  <1> QED  BY <1>1, <1>2, <1>3 DEF Typing

(* What the end of a sign_in handler leaves. *)
LEMMA Ended ==
  ASSUME TypeSessions, NEW u \in Users, LoginEnds(u), login[u].at # "no"
  PROVE  /\ \A v \in Users : v # u => login'[v] = login[v]
         /\ login'[u].at \in {"no", "done"}
         /\ login'[u].at = "done" => /\ client[login[u].srv][login[u].fd] = u
                                     /\ login'[u].srv = login[u].srv
                                     /\ login'[u].fd = login[u].fd
         /\ UNCHANGED <<client, names>> => TypeSessions'
  <1> DEFINE e == [at |-> "done", srv |-> login[u].srv, fd |-> login[u].fd]
             there == client[login[u].srv][login[u].fd] = u
  <1>1. [login[u] EXCEPT !.at = "done"] = e /\ login[u].srv \in Servers /\ login[u].fd \in Fds
    BY DEF TypeSessions
  <1>2. login' = [login EXCEPT ![u] = IF there THEN e ELSE NoLogin]
    BY <1>1 DEF LoginEnds
  <1>3. login'[u] = IF there THEN e ELSE NoLogin
    BY <1>2 DEF TypeSessions
  <1>4. \A v \in Users : v # u => login'[v] = login[v]
    BY <1>2 DEF TypeSessions
  <1>5. NoLogin.at = "no" /\ e.at = "done" /\ e.srv = login[u].srv /\ e.fd = login[u].fd
    BY DEF NoLogin
  <1>6. UNCHANGED <<client, names>> => TypeSessions'
    <2>1. /\ e \in [at : Stages, srv : Servers \cup {Nobody}, fd : Fds \cup {NoFd}]
          /\ NoLogin \in [at : Stages, srv : Servers \cup {Nobody}, fd : Fds \cup {NoFd}]
      BY <1>1 DEF Stages, NoLogin
    <2>2. login' \in [Users -> [at : Stages, srv : Servers \cup {Nobody}, fd : Fds \cup {NoFd}]]
      BY <1>2, <2>1 DEF TypeSessions
    <2>3. \A v \in Users : IF login'[v].at = "no" THEN login'[v] = NoLogin
                           ELSE login'[v].srv \in Servers /\ login'[v].fd \in Fds
      BY <1>1, <1>3, <1>4, <1>5 DEF TypeSessions
    <2> QED  BY <2>2, <2>3 DEF TypeSessions, names
  <1> QED  BY <1>3, <1>4, <1>5, <1>6

LEMMA TypingNext == Typing /\ [DeliveryNext]_deliveryVars => Typing'
  <1> SUFFICES ASSUME Typing, [DeliveryNext]_deliveryVars PROVE Typing'
    OBVIOUS
  <1>0. /\ TypeSessions /\ TypeReactor /\ TypeRedis /\ TypeSend /\ TypeRows /\ TypeTasks
        /\ TypeResps /\ TypeGot
    BY DEF Typing
  <1>a. UNCHANGED <<client, login, names>> => TypeSessions'
    BY <1>0 DEF TypeSessions, names
  <1>b. UNCHANGED reactor => TypeReactor'
    BY <1>0 DEF TypeReactor
  <1>c. UNCHANGED <<subs, cmds, channels>> => TypeRedis'
    BY <1>0 DEF TypeRedis
  <1>d. UNCHANGED send => TypeSend'
    BY <1>0 DEF TypeSend
  <1>e. UNCHANGED <<row, marks>> => TypeRows'
    BY <1>0 DEF TypeRows
  <1>f. UNCHANGED tasks => TypeTasks'
    BY <1>0 DEF TypeTasks
  <1>g. UNCHANGED resps => TypeResps'
    BY <1>0 DEF TypeResps
  <1>h. UNCHANGED got => TypeGot'
    BY <1>0 DEF TypeGot
  <1> USE DEF sessions, redis
  <1>1. ASSUME NEW u \in Users, NEW s \in Servers, NEW f \in Fds, SignIn(u, s, f) PROVE Typing'
    <2>1. TypeSessions'
      BY <1>0, <1>1 DEF SignIn, TypeSessions, Stages, NoLogin, names
    <2> QED  BY <1>1, <2>1, <1>b, <1>c, <1>d, <1>e, <1>f, <1>g, <1>h DEF SignIn, Typing
  <1>2. ASSUME NEW u \in Users, SignInMaps(u) PROVE Typing'
    <2>1. TypeSessions'
      BY <1>0, <1>2 DEF SignInMaps, LoginAt, TypeSessions, Stages
    <2> QED  BY <1>2, <2>1, <1>b, <1>c, <1>d, <1>e, <1>f, <1>g, <1>h DEF SignInMaps, Typing
  <1>3. ASSUME NEW u \in Users, SignInSubscribe(u) PROVE Typing'
    <2>1. TypeSessions'
      BY <1>0, <1>3 DEF SignInSubscribe, LoginAt, TypeSessions, Stages, names
    <2>2. login[u].srv \in Servers /\ [op |-> "sub", user |-> u] \in Cmd
      BY <1>0, <1>3 DEF SignInSubscribe, TypeSessions, Cmd
    <2>3. TypeRedis'
      BY <1>0, <1>3, <2>2 DEF SignInSubscribe, TypeRedis
    <2> QED  BY <1>3, <2>1, <2>3, <1>b, <1>d, <1>e, <1>f, <1>g, <1>h DEF SignInSubscribe, Typing
  <1>4. ASSUME NEW u \in Users, SignInUnread(u) PROVE Typing'
    <2>1. login[u].at # "no" /\ login[u].srv \in Servers /\ login[u].fd \in Fds
          /\ UNCHANGED <<client, names>> /\ (LoginEnds(u) \/ LoginAt(u, "mark"))
      BY <1>0, <1>4 DEF SignInUnread, TypeSessions
    <2>2. TypeSessions'
      <3>1. CASE LoginEnds(u)
        BY <1>0, <2>1, <3>1, Ended
      <3>2. CASE LoginAt(u, "mark")
        BY <1>0, <2>1, <3>2 DEF LoginAt, TypeSessions, Stages, names
      <3> QED  BY <2>1, <3>1, <3>2
    <2>3. TypeResps'
      BY <1>0, <1>4, <1>g, <2>1, Put DEF SignInUnread, Fitting, Unread
    <2> QED  BY <1>4, <2>2, <2>3, <1>b, <1>c, <1>d, <1>e, <1>f, <1>h DEF SignInUnread, Typing
  <1>5. ASSUME NEW u \in Users, SignInMark(u) PROVE Typing'
    <2>1. TypeSessions'
      <3>1. login[u].at # "no" /\ LoginEnds(u) /\ UNCHANGED <<client, names>>
        BY <1>5 DEF SignInMark
      <3> QED  BY <1>0, <3>1, Ended
    <2>2. TypeRows'
      BY <1>0, <1>5 DEF SignInMark, TypeRows
    <2> QED  BY <1>5, <2>1, <2>2, <1>b, <1>c, <1>d, <1>f, <1>g, <1>h DEF SignInMark, Typing
  <1>6. ASSUME NEW s \in Servers, NEW f \in Fds, Disconnect(s, f) PROVE Typing'
    <2>1. client[s][f] \in Users
      BY <1>0, <1>6 DEF Disconnect, TypeSessions
    <2>2. TypeSessions' /\ TypeReactor'
      BY <1>0, <1>6, <2>1 DEF Disconnect, TypeSessions, TypeReactor, Stages, NoLogin, names
    <2> QED  BY <1>6, <2>2, <1>c, <1>d, <1>e, <1>f, <1>g, <1>h DEF Disconnect, Typing
  <1>7. ASSUME NEW s \in Servers, CloseMaps(s) PROVE Typing'
    <2>1. TypeSessions' /\ Leaving(s) \in Users \cup {Nobody}
      BY <1>0, <1>7 DEF CloseMaps, Leaving, TypeSessions, TypeReactor
    <2>2. TypeReactor'
      BY <1>0, <1>7, <2>1 DEF CloseMaps, Forgotten, TypeReactor, Idle
    <2> QED  BY <1>7, <2>1, <2>2, <1>c, <1>d, <1>e, <1>f, <1>g, <1>h DEF CloseMaps, Typing
  <1>8. ASSUME NEW s \in Servers, CloseUnsub(s) PROVE Typing'
    <2>1. reactor[s].fd \in Users /\ [op |-> "unsub", user |-> reactor[s].fd] \in Cmd
      BY <1>0, <1>8 DEF CloseUnsub, TypeReactor, Cmd
    <2>2. TypeRedis' /\ TypeReactor'
      BY <1>0, <1>8, <2>1 DEF CloseUnsub, TypeRedis, TypeReactor, Idle
    <2> QED  BY <1>8, <2>2, <1>a, <1>d, <1>e, <1>f, <1>g, <1>h DEF CloseUnsub, Typing
  <1>9. ASSUME NEW s \in Servers, HandleResponse(s) PROVE Typing'
    <2>1. TypeResps'
      BY <1>0, <1>9, Get DEF HandleResponse
    <2>2. TypeGot'
      BY <1>0, <1>9 DEF HandleResponse, TypeGot
    <2> QED  BY <1>9, <2>1, <2>2, <1>a, <1>b, <1>c, <1>d, <1>e, <1>f DEF HandleResponse, Typing
  <1>10. ASSUME NEW s \in Servers, RedisCommand(s) PROVE Typing'
    <2>1. Tail(cmds[s]) \in Seq(Cmd) /\ Head(cmds[s]) \in Cmd
      BY <1>0, <1>10, HeadTailProperties DEF RedisCommand, TypeRedis
    <2>2. TypeRedis'
      BY <1>0, <1>10, <2>1 DEF RedisCommand, TypeRedis, Cmd
    <2> QED
      BY <1>10, <2>2, <1>a, <1>b, <1>d, <1>e, <1>f, <1>g, <1>h DEF RedisCommand, Typing
  <1>11. ASSUME NEW s \in Servers, RedisReconnect(s) PROVE Typing'
    <2>1. TypeRedis'
      BY <1>0, <1>11 DEF RedisReconnect, TypeRedis
    <2> QED
      BY <1>11, <2>1, <1>a, <1>b, <1>d, <1>e, <1>f, <1>g, <1>h DEF RedisReconnect, Typing
  <1>12. ASSUME NEW m \in Msgs, NEW s \in Servers, NEW how \in {"chat", "group", "invite"},
                Lookup(m, s, how)
         PROVE  Typing'
    <2>1. nameFd[s][To[m]] \in Fds \cup {NoFd}
      BY <1>0, DeliveryAssumption DEF TypeSessions
    <2>2. TypeSend'
      BY <1>0, <1>12, <2>1 DEF Lookup, TypeSend
    <2> QED  BY <1>12, <2>2, <1>a, <1>b, <1>c, <1>e, <1>f, <1>g, <1>h DEF Lookup, Typing
  <1>13. ASSUME NEW m \in Msgs, Insert(m) \/ InsertFails(m) PROVE Typing'
    <2>1. TypeSend'
      BY <1>0, <1>13 DEF Insert, InsertFails, TypeSend
    <2>2. TypeRows'
      BY <1>0, <1>13 DEF Insert, InsertFails, TypeRows
    <2> QED
      BY <1>13, <2>1, <2>2, <1>a, <1>b, <1>c, <1>f, <1>g, <1>h DEF Insert, InsertFails, Typing
  <1>14. ASSUME NEW m \in Msgs, ForwardLocal(m) PROVE Typing'
    <2>1. send[m].srv \in Servers /\ send[m].fd \in Fds
      BY <1>0, <1>14 DEF ForwardLocal, TypeSend
    <2>2. TypeResps'
      BY <1>0, <1>14, <2>1, Put DEF ForwardLocal
    <2>3. TypeSend' /\ TypeRows'
      BY <1>0, <1>14 DEF ForwardLocal, TypeSend, TypeRows
    <2> QED
      BY <1>14, <2>2, <2>3, <1>a, <1>b, <1>c, <1>f, <1>h DEF ForwardLocal, Typing
  <1>15. ASSUME NEW m \in Msgs, ForwardRemote(m) PROVE Typing'
    <2>1. [msg |-> m, at |-> "queued", fd |-> NoFd] \in Task
      BY DEF Task
    <2>2. TypeTasks'
      BY <1>0, <1>15, <2>1 DEF ForwardRemote, TypeTasks
    <2>3. TypeSend'
      BY <1>0, <1>15 DEF ForwardRemote, TypeSend
    <2> QED
      BY <1>15, <2>2, <2>3, <1>a, <1>b, <1>c, <1>e, <1>g, <1>h DEF ForwardRemote, Typing
  <1>16. ASSUME NEW s \in Servers, NEW t \in tasks[s], SubLookup(s, t) PROVE Typing'
    <2>1. t.msg \in Msgs /\ nameFd[s][To[t.msg]] \in Fds \cup {NoFd}
      BY <1>0, DeliveryAssumption DEF TypeSessions, TypeTasks, Task
    <2>2. TypeTasks'
      BY <1>0, <1>16, <2>1 DEF SubLookup, TypeTasks, Task
    <2> QED
      BY <1>16, <2>2, <1>a, <1>b, <1>c, <1>d, <1>e, <1>g, <1>h DEF SubLookup, Typing
  <1>17. ASSUME NEW s \in Servers, NEW t \in tasks[s], SubForward(s, t) PROVE Typing'
    <2>1. t.msg \in Msgs /\ t.fd \in Fds
      BY <1>0, <1>17 DEF SubForward, TypeTasks, Task
    <2>2. TypeResps'
      BY <1>0, <1>17, <2>1, Put DEF SubForward
    <2>3. TypeTasks'
      BY <1>0, <1>17 DEF SubForward, TypeTasks
    <2>4. TypeRows'
      BY <1>0, <1>17, <2>1, DeliveryAssumption DEF SubForward, TypeRows
    <2> QED
      BY <1>17, <2>2, <2>3, <2>4, <1>a, <1>b, <1>c, <1>d, <1>h DEF SubForward, Typing
  <1>18. CASE HandleDb
    <2>1. TypeRows'
      BY <1>0, <1>18 DEF HandleDb, TypeRows
    <2> QED
      BY <1>18, <2>1, <1>a, <1>b, <1>c, <1>d, <1>f, <1>g, <1>h DEF HandleDb, Typing
  <1>19. CASE UNCHANGED deliveryVars
    BY <1>19, <1>a, <1>b, <1>c, <1>d, <1>e, <1>f, <1>g, <1>h DEF deliveryVars, Typing
  <1> QED
    BY <1>1, <1>2, <1>3, <1>4, <1>5, <1>6, <1>7, <1>8, <1>9, <1>10, <1>11, <1>12, <1>13, <1>14,
       <1>15, <1>16, <1>17, <1>18, <1>19
    DEF DeliveryNext, LoginStep, CloseStep, SendStep, SubStep, SingleChat, MultiChat,
        BroadcastChat, GroupChat, InviteGroup

-----------------------------------------------------------------------------
(* Who is signed in is at the connection her sign_in was for, also if users  *)
(* hang up during it.                                                        *)
Here == \A u \in Users : login[u].at = "done" => client[login[u].srv][login[u].fd] = u

LEMMA HereNext == Typing /\ Here /\ [DeliveryNext]_deliveryVars => Here'
  <1> SUFFICES ASSUME Typing, Here, [DeliveryNext]_deliveryVars PROVE Here'
    OBVIOUS
  <1>0. TypeSessions /\ Nobody \notin Users
    BY DeliveryAssumption DEF Typing
  <1>1. ASSUME NEW u \in Users, NEW s \in Servers, NEW f \in Fds, SignIn(u, s, f) PROVE Here'
    <2>1. /\ client[s][f] = Nobody /\ client' = [client EXCEPT ![s][f] = u]
          /\ login'[u].at = "maps" /\ \A v \in Users : v # u => login'[v] = login[v]
      BY <1>0, <1>1 DEF SignIn, TypeSessions
    <2>2. ASSUME NEW v \in Users, v # u, login[v].at = "done"
          PROVE  client'[login[v].srv][login[v].fd] = v
      <3>1. /\ login[v].srv \in Servers /\ login[v].fd \in Fds
            /\ client[login[v].srv][login[v].fd] = v
        BY <1>0, <2>2 DEF Here, TypeSessions
      <3> QED  BY <1>0, <2>1, <3>1 DEF TypeSessions
    <2> QED  BY <2>1, <2>2 DEF Here
  <1>2. ASSUME NEW u \in Users, LoginEnds(u), login[u].at # "no", UNCHANGED client PROVE Here'
    BY <1>0, <1>2, Ended DEF Here
  <1>3. ASSUME NEW u \in Users, NEW l \in {"sub", "select", "mark"}, LoginAt(u, l),
               UNCHANGED client
        PROVE  Here'
    BY <1>0, <1>3 DEF Here, LoginAt, TypeSessions
  <1>4. ASSUME NEW u \in Users, LoginStep(u) PROVE Here'
    <2>1. CASE SignInMaps(u) \/ SignInSubscribe(u)
      BY <1>3, <2>1 DEF SignInMaps, SignInSubscribe
    <2>2. CASE SignInUnread(u)
      BY <1>2, <1>3, <2>2 DEF SignInUnread
    <2>3. CASE SignInMark(u)
      BY <1>2, <2>3 DEF SignInMark
    <2> QED  BY <1>4, <2>1, <2>2, <2>3 DEF LoginStep
  <1>5. ASSUME NEW s \in Servers, NEW f \in Fds, Disconnect(s, f) PROVE Here'
    <2> DEFINE u == client[s][f]
    <2>1. /\ u \in Users /\ client' = [client EXCEPT ![s][f] = Nobody]
          /\ login'[u].at # "done" /\ \A v \in Users : v # u => login'[v] = login[v]
      BY <1>0, <1>5 DEF Disconnect, TypeSessions, NoLogin
    <2> QED  BY <1>0, <2>1 DEF Here, TypeSessions
  <1>6. CASE UNCHANGED <<client, login>>
    BY <1>6 DEF Here
  <1> QED
    BY <1>1, <1>4, <1>5, <1>6
    DEF DeliveryNext, CloseStep, CloseMaps, CloseUnsub, SendStep, SubStep, SingleChat,
        MultiChat, BroadcastChat, GroupChat, InviteGroup, Lookup, Insert, InsertFails,
        ForwardLocal, ForwardRemote, SubLookup, SubForward, HandleDb, HandleResponse,
        RedisCommand, RedisReconnect, deliveryVars, sessions

-----------------------------------------------------------------------------
(* Users who do not hang up while their sign_in is handled. *)
Patient == "patient" \in Habits

(* clint_nametofd has u's name, unless close_clint has come to it. *)
Named(u) == login[u].at \in {"sub", "select", "mark", "done"}

(* u's handler and the descriptor it is for belong together, ... *)
AtClient == \A u \in Users : login[u].at # "no" => client[login[u].srv][login[u].fd] = u
LoggedIn == \A s \in Servers, f \in Fds :
    client[s][f] # Nobody => /\ login[client[s][f]].at # "no"
                             /\ login[client[s][f]].srv = s /\ login[client[s][f]].fd = f

(* ... and so does her entry in clint_nametofd, which close_clint removes    *)
(* after her descriptor is free, but before anybody can get it; and          *)
(* clint_fdtoname is its inverse.                                            *)
InMap == \A u \in Users : Named(u) => nameFd[login[u].srv][u] = login[u].fd
OfMap == \A s \in Servers, u \in Users : nameFd[s][u] # NoFd =>
    \/ Named(u) /\ login[u].srv = s
    \/ login[u].at = "no" /\ reactor[s].at = "maps" /\ nameFd[s][u] = reactor[s].fd
Freed == \A s \in Servers : reactor[s].at = "maps" => client[s][reactor[s].fd] = Nobody
Inverses == \A s \in Servers, f \in Fds, u \in Users : fdName[s][f] = u <=> nameFd[s][u] = f

Registered == AtClient /\ LoggedIn /\ InMap /\ OfMap /\ Freed /\ Inverses

LEMMA RegisteredInit == DeliveryInit => Registered
  BY DeliveryAssumption
  DEF DeliveryInit, Registered, AtClient, LoggedIn, InMap, OfMap, Freed, Inverses, Named,
      NoLogin, Idle

(* The descriptor of a handler about to enter the name is free of others',   *)
(* and not the one being closed; nor is the name entered already.            *)
LEMMA NameIsNew ==
  ASSUME Typing, Registered, NEW u \in Users, login[u].at = "maps"
  PROVE  /\ login[u].srv \in Servers /\ login[u].fd \in Fds
         /\ nameFd[login[u].srv][u] = NoFd /\ fdName[login[u].srv][login[u].fd] = Nobody
         /\ reactor[login[u].srv].at = "maps" => reactor[login[u].srv].fd # login[u].fd
  <1> DEFINE s == login[u].srv
             f == login[u].fd
  <1>0. TypeSessions /\ TypeReactor /\ NoFd \notin Fds /\ Nobody \notin Users
    BY DeliveryAssumption DEF Typing
  <1>a. AtClient /\ InMap /\ OfMap /\ Freed /\ Inverses
    BY DEF Registered
  <1>1. s \in Servers /\ f \in Fds /\ client[s][f] = u
    BY <1>0, <1>a DEF TypeSessions, AtClient
  <1>2. reactor[s].at = "maps" => reactor[s].fd # f
    BY <1>0, <1>a, <1>1 DEF Freed
  <1>3. nameFd[s][u] = NoFd
    BY <1>a, <1>1 DEF OfMap, Named
  <1>4. ASSUME NEW v \in Users, fdName[s][f] = v PROVE FALSE
    <2>1. nameFd[s][v] = f
      BY <1>a, <1>1, <1>4 DEF Inverses
    <2>2. Named(v) /\ login[v].srv = s
      BY <1>0, <1>a, <1>1, <1>2, <2>1 DEF OfMap
    <2>3. client[s][f] = v
      BY <1>a, <2>1, <2>2 DEF InMap, AtClient, Named
    <2> QED  BY <1>1, <2>2, <2>3 DEF Named
  <1>5. fdName[s][f] = Nobody
    BY <1>0, <1>1, <1>4 DEF TypeSessions
  <1> QED  BY <1>1, <1>2, <1>3, <1>5

LEMMA NameNotLeaving ==
  ASSUME Typing, Registered, NEW u \in Users, SignInMaps(u),
         NEW t \in Servers, reactor[t].at = "maps"
  PROVE  Leaving(t)' = Leaving(t)
  <1>0. TypeSessions /\ TypeReactor
    BY DEF Typing
  <1>1. /\ login[u].at = "maps" /\ UNCHANGED reactor
        /\ fdName' = [fdName EXCEPT ![login[u].srv][login[u].fd] = u]
    BY DEF SignInMaps
  <1>2. t = login[u].srv => reactor[t].fd # login[u].fd
    BY <1>1, NameIsNew
  <1> QED  BY <1>0, <1>1, <1>2 DEF Leaving, TypeSessions, TypeReactor

LEMMA RegisteredNext == Patient /\ Typing /\ Registered /\ [DeliveryNext]_deliveryVars => Registered'
  <1> SUFFICES ASSUME Patient, Typing, Registered, [DeliveryNext]_deliveryVars PROVE Registered'
    OBVIOUS
  <1>0. TypeSessions /\ TypeReactor /\ NoFd \notin Fds /\ Nobody \notin Users
    BY DeliveryAssumption DEF Typing
  <1>a. AtClient /\ LoggedIn /\ InMap /\ OfMap /\ Freed /\ Inverses
    BY DEF Registered
  <1>b. UNCHANGED names => Inverses'
    BY <1>a DEF Inverses, names
  <1>1. ASSUME NEW u \in Users, NEW s \in Servers, NEW f \in Fds, SignIn(u, s, f)
        PROVE  Registered'
    <2>1. /\ login[u].at = "no" /\ reactor[s].at = "idle" /\ client[s][f] = Nobody
          /\ ~ HangingUp(u)
          /\ client' = [client EXCEPT ![s][f] = u]
          /\ login' = [login EXCEPT ![u] = [at |-> "maps", srv |-> s, fd |-> f]]
          /\ UNCHANGED <<reactor, nameFd, fdName>>
      BY <1>1 DEF SignIn, NoLogin, Idle, names
    <2>2. \A t \in Servers : nameFd[t][u] = NoFd
      <3> SUFFICES ASSUME NEW t \in Servers, nameFd[t][u] # NoFd PROVE FALSE
        OBVIOUS
      <3>1. reactor[t].at = "maps" /\ nameFd[t][u] = reactor[t].fd /\ reactor[t].fd \in Fds
        BY <1>0, <1>a, <2>1 DEF OfMap, Named, TypeReactor
      <3>2. Leaving(t) = u
        BY <1>a, <3>1 DEF Inverses, Leaving
      <3> QED  BY <2>1, <3>1, <3>2 DEF HangingUp
    <2>3. AtClient'
      BY <1>0, <1>a, <2>1 DEF AtClient, TypeSessions
    <2>4. LoggedIn'
      BY <1>0, <1>a, <2>1 DEF LoggedIn, TypeSessions
    <2>5. InMap' /\ OfMap'
      BY <1>0, <1>a, <2>1, <2>2 DEF InMap, OfMap, Named, TypeSessions
    <2>6. Freed' /\ Inverses'
      BY <1>0, <1>a, <1>b, <2>1 DEF Freed, TypeSessions, names
    <2> QED  BY <2>3, <2>4, <2>5, <2>6 DEF Registered
  <1>2. ASSUME NEW u \in Users, SignInMaps(u) PROVE Registered'
    <2> DEFINE s == login[u].srv
               f == login[u].fd
    <2>1. /\ login[u].at = "maps" /\ nameFd' = [nameFd EXCEPT ![s][u] = f]
          /\ fdName' = [fdName EXCEPT ![s][f] = u]
          /\ login' = [login EXCEPT ![u].at = "sub"] /\ UNCHANGED <<client, reactor>>
      BY <1>2 DEF SignInMaps, LoginAt
    <2>2. /\ s \in Servers /\ f \in Fds
          /\ nameFd[s][u] = NoFd /\ fdName[s][f] = Nobody
      BY <2>1, NameIsNew
    <2>3. AtClient' /\ LoggedIn' /\ Freed'
      BY <1>0, <1>a, <2>1 DEF AtClient, LoggedIn, Freed, TypeSessions
    <2>4. InMap' /\ OfMap'
      BY <1>0, <1>a, <2>1, <2>2 DEF InMap, OfMap, Named, TypeSessions
    <2>5. Inverses'
      BY <1>0, <1>a, <2>1, <2>2 DEF Inverses, TypeSessions
    <2> QED  BY <2>3, <2>4, <2>5 DEF Registered
  <1>3. ASSUME NEW u \in Users, NEW l \in {"select", "mark", "done"}, Named(u), LoginAt(u, l),
               UNCHANGED <<client, reactor, names>>
        PROVE  Registered'
    <2>1. /\ \A v \in Users : Named(v)' = Named(v) /\ (login'[v].at = "no" <=> login[v].at = "no")
          /\ \A v \in Users : login'[v].srv = login[v].srv /\ login'[v].fd = login[v].fd
      BY <1>0, <1>3 DEF Named, LoginAt, TypeSessions
    <2>2. LoggedIn'
      BY <1>0, <1>a, <1>3, <2>1 DEF LoggedIn, TypeSessions
    <2>3. AtClient' /\ InMap' /\ OfMap' /\ Freed' /\ Inverses'
      BY <1>0, <1>a, <1>b, <1>3, <2>1 DEF AtClient, InMap, OfMap, Freed, names
    <2> QED  BY <2>2, <2>3 DEF Registered
  <1>4. ASSUME NEW u \in Users, SignInSubscribe(u) \/ SignInUnread(u) \/ SignInMark(u)
        PROVE  Registered'
    <2>1. Named(u) /\ login[u].at # "no" /\ UNCHANGED <<client, reactor, names>>
      BY <1>4 DEF SignInSubscribe, SignInUnread, SignInMark, Named
    <2>2. LoginEnds(u) => LoginAt(u, "done")
      BY <1>a, <2>1 DEF LoginEnds, LoginAt, AtClient
    <2>3. \E l \in {"select", "mark", "done"} : LoginAt(u, l)
      BY <1>4, <2>2 DEF SignInSubscribe, SignInUnread, SignInMark
    <2> QED  BY <1>3, <2>1, <2>3
  <1>5. ASSUME NEW s \in Servers, NEW f \in Fds, Disconnect(s, f) PROVE Registered'
    <2> DEFINE u == client[s][f]
    <2>1. /\ u \in Users /\ reactor[s].at = "idle" /\ login[u].at = "done"
          /\ client' = [client EXCEPT ![s][f] = Nobody]
          /\ login' = [login EXCEPT ![u] = NoLogin]
          /\ reactor' = [reactor EXCEPT ![s] = [at |-> "maps", fd |-> f]]
          /\ UNCHANGED <<nameFd, fdName>>
      BY <1>0, <1>5 DEF Disconnect, Idle, TypeSessions, Patient, names
    <2>2. login[u].srv = s /\ login[u].fd = f /\ nameFd[s][u] = f
      BY <1>0, <1>a, <2>1 DEF LoggedIn, InMap, Named
    <2> HIDE DEF u
    <2>3. AtClient'
      <3> SUFFICES ASSUME NEW v \in Users, login'[v].at # "no"
                   PROVE  client'[login'[v].srv][login'[v].fd] = v
        BY DEF AtClient
      <3>1. v # u /\ login'[v] = login[v]
        BY <1>0, <2>1 DEF NoLogin, TypeSessions
      <3>2. /\ login[v].srv \in Servers /\ login[v].fd \in Fds
            /\ client[login[v].srv][login[v].fd] = v
        BY <1>0, <1>a, <3>1 DEF AtClient, TypeSessions
      <3>3. ~(login[v].srv = s /\ login[v].fd = f)
        BY <3>1, <3>2 DEF u
      <3> QED  BY <1>0, <2>1, <3>1, <3>2, <3>3 DEF TypeSessions
    <2>4. LoggedIn'
      BY <1>0, <1>a, <2>1, <2>2 DEF LoggedIn, TypeSessions, NoLogin
    <2>5. InMap' /\ OfMap'
      BY <1>0, <1>a, <2>1, <2>2 DEF InMap, OfMap, Named, TypeSessions, TypeReactor, NoLogin
    <2>6. Freed' /\ Inverses'
      BY <1>0, <1>a, <1>b, <2>1 DEF Freed, TypeSessions, TypeReactor, names
    <2> QED  BY <2>3, <2>4, <2>5, <2>6 DEF Registered
  <1>6. ASSUME NEW s \in Servers, CloseMaps(s) PROVE Registered'
    <2> DEFINE f == reactor[s].fd
    <2>1. /\ reactor[s].at = "maps" /\ f \in Fds /\ client[s][f] = Nobody
          /\ UNCHANGED <<client, login>>
      BY <1>0, <1>a, <1>6 DEF CloseMaps, Freed, TypeReactor
    <2>2. /\ \A t \in Servers : t # s => reactor'[t] = reactor[t]
          /\ reactor'[s].at # "maps"
      BY <1>0, <1>6 DEF CloseMaps, Forgotten, TypeReactor, Idle
    <2>3. \A v \in Users : Leaving(s) = v <=> nameFd[s][v] = f
      BY <1>a, <2>1 DEF Leaving, Inverses
    <2>4. \A t \in Servers, v \in Users :
             nameFd'[t][v] = IF t = s /\ nameFd[s][v] = f THEN NoFd ELSE nameFd[t][v]
      BY <1>0, <1>6, <2>3 DEF CloseMaps, TypeSessions
    <2>5. \A t \in Servers, g \in Fds :
             fdName'[t][g] = IF t = s /\ g = f THEN Nobody ELSE fdName[t][g]
      BY <1>0, <1>6 DEF CloseMaps, TypeSessions
    <2> HIDE DEF f
    <2>6. \A v \in Users : nameFd[s][v] = f => ~(Named(v) /\ login[v].srv = s)
      BY <1>0, <1>a, <2>1 DEF InMap, AtClient, Named
    <2>7. AtClient' /\ LoggedIn' /\ Freed'
      BY <1>a, <2>1, <2>2 DEF AtClient, LoggedIn, Freed
    <2>8. InMap'
      BY <1>0, <1>a, <2>1, <2>4, <2>6 DEF InMap, Named, TypeSessions
    <2>9. OfMap'
      BY <1>0, <1>a, <2>1, <2>2, <2>4 DEF OfMap, Named, f
    <2>10. Inverses'
      BY <1>0, <1>a, <2>4, <2>5 DEF Inverses
    <2> QED  BY <2>7, <2>8, <2>9, <2>10 DEF Registered
  <1>7. ASSUME NEW s \in Servers, CloseUnsub(s) PROVE Registered'
    <2>1. /\ \A t \in Servers : /\ reactor'[t].at = "maps" <=> reactor[t].at = "maps"
                                /\ reactor[t].at = "maps" => reactor'[t] = reactor[t]
          /\ UNCHANGED <<client, login, names>>
      BY <1>0, <1>7 DEF CloseUnsub, TypeReactor, Idle
    <2>2. AtClient' /\ LoggedIn' /\ InMap'
      BY <1>a, <2>1 DEF AtClient, LoggedIn, InMap, Named, names
    <2>3. OfMap' /\ Freed' /\ Inverses'
      BY <1>a, <1>b, <2>1 DEF OfMap, Freed, Named, names
    <2> QED  BY <2>2, <2>3 DEF Registered
  <1>8. CASE UNCHANGED <<client, login, reactor, names>>
    BY <1>a, <1>b, <1>8 DEF Registered, AtClient, LoggedIn, InMap, OfMap, Freed, Named, names
  <1> QED
    BY <1>1, <1>2, <1>4, <1>5, <1>6, <1>7, <1>8
    DEF DeliveryNext, LoginStep, CloseStep, SendStep, SubStep, SingleChat, MultiChat,
        BroadcastChat, GroupChat, InviteGroup, Lookup, Insert, InsertFails, ForwardLocal,
        ForwardRemote, SubLookup, SubForward, HandleDb, HandleResponse, RedisCommand,
        RedisReconnect, deliveryVars, sessions

-----------------------------------------------------------------------------
(* Users who leave when no message to them is on its way. *)
QuietLeave == "quiet_leave" \in Habits

(* A descriptor that was looked up for a message is its recipient's, as long *)
(* as it is going to be used; ...                                            *)
SendTo == \A m \in Msgs : send[m].at \in {"insert", "forward"} /\ send[m].fd # NoFd =>
    client[send[m].srv][send[m].fd] = To[m]
TaskTo == \A s \in Servers : \A t \in tasks[s] :
    t.at = "found" => client[s][t.fd] = To[t.msg]
RespTo == \A s \in Servers : \A i \in 1..Len(resps[s]) : \A m \in resps[s][i].msgs :
    client[s][resps[s][i].fd] = To[m]

(* ... so that nothing is on its way to the user whose name is being removed.*)
Quiet == \A s \in Servers : \A u \in Users : reactor[s].at = "maps" /\ Leaving(s) = u =>
    Sending(u) = {} /\ \A t \in tasks[s] : To[t.msg] # u

Addressed == SendTo /\ TaskTo /\ RespTo /\ Quiet /\ OnlyAddressee

LEMMA AddressedInit == DeliveryInit => Addressed
  <1> SUFFICES ASSUME DeliveryInit PROVE Addressed
    OBVIOUS
  <1>1. \A s \in Servers : Len(resps[s]) = 0 /\ tasks[s] = {} /\ reactor[s].at = "idle"
    BY EmptySeq DEF DeliveryInit, Idle
  <1>2. RespTo /\ TaskTo /\ Quiet
    BY <1>1 DEF RespTo, TaskTo, Quiet
  <1>3. SendTo /\ OnlyAddressee
    BY DEF DeliveryInit, SendTo, OnlyAddressee
  <1> QED  BY <1>2, <1>3 DEF Addressed

LEMMA PutTo ==
  ASSUME TypeResps, RespTo, NEW s \in Servers, NEW f \in Fds, NEW ms \in SUBSET Msgs,
         EnResp(s, f, ms), UNCHANGED client, \A m \in ms : client[s][f] = To[m]
  PROVE  RespTo'
  <1> SUFFICES ASSUME NEW t \in Servers, NEW i \in 1..Len(resps'[t]),
                      NEW m \in resps'[t][i].msgs
               PROVE  client[t][resps'[t][i].fd] = To[m]
    BY DEF RespTo
  <1>1. CASE i \in 1..Len(resps[t]) /\ resps'[t][i] = resps[t][i]
    BY <1>1 DEF RespTo
  <1>2. CASE t = s /\ resps'[t][i] = [fd |-> f, msgs |-> ms]
    BY <1>2
  <1> QED  BY <1>1, <1>2, Put

LEMMA AddressedNext ==
  QuietLeave /\ Patient /\ Typing /\ Registered /\ Addressed /\ [DeliveryNext]_deliveryVars
    => Addressed'
  <1> SUFFICES ASSUME QuietLeave, Patient, Typing, Registered, Addressed, [DeliveryNext]_deliveryVars
               PROVE  Addressed'
    OBVIOUS
  <1>0. /\ TypeSessions /\ TypeReactor /\ TypeSend /\ TypeTasks /\ TypeResps /\ TypeGot
        /\ NoFd \notin Fds /\ Nobody \notin Users /\ \A m \in Msgs : To[m] \in Users
    BY DeliveryAssumption DEF Typing
  <1>a. SendTo /\ TaskTo /\ RespTo /\ Quiet /\ OnlyAddressee
    BY DEF Addressed
  <1>b. AtClient /\ LoggedIn /\ InMap /\ OfMap /\ Freed /\ Inverses
    BY DEF Registered
  <1>c. UNCHANGED <<client, send>> => SendTo'
    BY <1>a DEF SendTo
  <1>d. UNCHANGED <<client, tasks>> => TaskTo'
    BY <1>a DEF TaskTo
  <1>e. UNCHANGED <<client, resps>> => RespTo'
    BY <1>a DEF RespTo
  <1>f. UNCHANGED got => OnlyAddressee'
    BY <1>a DEF OnlyAddressee
  <1>g. UNCHANGED <<reactor, names, send, tasks>> => Quiet'
    BY <1>a DEF Quiet, Leaving, Sending, names
  <1> USE DEF Addressed, sessions
  (* Where a name leads: to its user, unless she is leaving. *)
  <1>n. ASSUME NEW s \in Servers, NEW u \in Users, nameFd[s][u] # NoFd
        PROVE  \/ client[s][nameFd[s][u]] = u
               \/ reactor[s].at = "maps" /\ Leaving(s) = u /\ HangingUp(u)
    <2>1. CASE Named(u) /\ login[u].srv = s
      BY <1>b, <2>1 DEF InMap, AtClient, Named
    <2>2. CASE reactor[s].at = "maps" /\ nameFd[s][u] = reactor[s].fd
      BY <1>0, <1>b, <2>2 DEF Leaving, HangingUp, Inverses, TypeReactor
    <2> QED  BY <1>b, <1>n, <2>1, <2>2 DEF OfMap
  <1>1. ASSUME NEW u \in Users, NEW s \in Servers, NEW f \in Fds, SignIn(u, s, f)
        PROVE  Addressed'
    <2>1. /\ client[s][f] = Nobody /\ client' = [client EXCEPT ![s][f] = u]
          /\ UNCHANGED <<reactor, names, send, tasks, resps, got>>
      BY <1>1 DEF SignIn
    <2>2. \A t \in Servers, g \in Fds, v \in Users : client[t][g] = v => client'[t][g] = v
      BY <1>0, <2>1 DEF TypeSessions
    <2>3. SendTo' /\ TaskTo'
      BY <1>0, <1>a, <2>1, <2>2 DEF SendTo, TaskTo, TypeSend, TypeTasks, Task
    <2>4. RespTo'
      BY <1>0, <1>a, <2>1, <2>2, EachResp DEF RespTo
    <2> QED  BY <2>1, <2>3, <2>4, <1>f, <1>g
  <1>2. ASSUME NEW u \in Users, SignInMaps(u) PROVE Addressed'
    <2>1. UNCHANGED <<client, reactor, send, tasks, resps, got>>
      BY <1>2 DEF SignInMaps
    <2>2. Quiet'
      BY <1>a, <1>2, <2>1, NameNotLeaving DEF Quiet, Sending
    <2> QED  BY <2>1, <2>2, <1>c, <1>d, <1>e, <1>f
  <1>3. ASSUME NEW u \in Users, SignInUnread(u) PROVE Addressed'
    <2>1. /\ login[u].srv \in Servers /\ login[u].fd \in Fds
          /\ client[login[u].srv][login[u].fd] = u
          /\ UNCHANGED <<client, reactor, names, send, tasks, got>>
      BY <1>0, <1>b, <1>3 DEF SignInUnread, TypeSessions, AtClient
    <2>2. CASE UNCHANGED resps
      BY <2>1, <2>2, <1>c, <1>d, <1>e, <1>f, <1>g
    <2>3. ASSUME NEW c \in Fitting(Unread(u)), EnResp(login[u].srv, login[u].fd, c)
          PROVE  RespTo'
      <3>1. c \in SUBSET Msgs /\ \A m \in c : To[m] = u
        BY DEF Fitting, Unread
      <3> QED  BY <1>0, <1>a, <2>1, <2>3, <3>1, PutTo
    <2> QED  BY <1>3, <2>1, <2>2, <2>3, <1>c, <1>d, <1>f, <1>g DEF SignInUnread
  <1>4. ASSUME NEW s \in Servers, NEW f \in Fds, Disconnect(s, f) PROVE Addressed'
    <2> DEFINE u == client[s][f]
    <2>1. /\ u \in Users /\ reactor[s].at = "idle" /\ login[u].at = "done"
          /\ ~ OnItsWay(u, s, f) /\ client' = [client EXCEPT ![s][f] = Nobody]
          /\ reactor' = [reactor EXCEPT ![s] = [at |-> "maps", fd |-> f]]
          /\ UNCHANGED <<names, send, tasks, resps, got>>
      BY <1>0, <1>4 DEF Disconnect, Idle, TypeSessions, QuietLeave, Patient
    <2>2. /\ Sending(u) = {} /\ \A t \in tasks[s] : To[t.msg] # u
          /\ \A i \in 1..Len(resps[s]) : resps[s][i].fd # f
      BY <2>1 DEF OnItsWay
    <2>3. \A t \in Servers, g \in Fds : t # s \/ g # f => client'[t][g] = client[t][g]
      BY <1>0, <2>1 DEF TypeSessions
    <2>4. SendTo'
      <3> SUFFICES ASSUME NEW m \in Msgs, send[m].at \in {"insert", "forward"},
                          send[m].fd # NoFd
                   PROVE  client'[send[m].srv][send[m].fd] = To[m]
        BY <2>1 DEF SendTo
      <3>1. To[m] # u /\ client[send[m].srv][send[m].fd] = To[m]
        BY <1>a, <2>2 DEF SendTo, Sending
      <3>2. send[m].srv \in Servers /\ send[m].fd \in Fds
        BY <1>0 DEF TypeSend
      <3> QED  BY <2>3, <3>1, <3>2
    <2>5. TaskTo'
      <3> SUFFICES ASSUME NEW t \in Servers, NEW k \in tasks[t], k.at = "found"
                   PROVE  client'[t][k.fd] = To[k.msg]
        BY <2>1 DEF TaskTo
      <3>1. client[t][k.fd] = To[k.msg] /\ k.fd \in Fds /\ (t = s => To[k.msg] # u)
        BY <1>0, <1>a, <2>2 DEF TaskTo, TypeTasks
      <3> QED  BY <2>3, <3>1
    <2>6. RespTo'
      <3> SUFFICES ASSUME NEW t \in Servers, NEW i \in 1..Len(resps[t]),
                          NEW m \in resps[t][i].msgs
                   PROVE  client'[t][resps[t][i].fd] = To[m]
        BY <2>1 DEF RespTo
      <3>1. resps[t][i].fd \in Fds
        BY <1>0, EachResp
      <3> QED  BY <1>a, <2>2, <2>3, <3>1 DEF RespTo
    <2>7. Quiet'
      <3>1. \A v \in Users : Leaving(s)' = v => v = u
        <4> SUFFICES ASSUME NEW v \in Users, fdName[s][f] = v PROVE v = u
          BY <1>0, <2>1 DEF Leaving, TypeReactor, names
        <4>1. nameFd[s][v] = f
          BY <1>b DEF Inverses
        <4> QED  BY <1>0, <1>n, <2>1, <4>1
      <3>2. \A t \in Servers : t # s => reactor'[t] = reactor[t] /\ Leaving(t)' = Leaving(t)
        BY <1>0, <2>1 DEF Leaving, TypeReactor, names
      <3>3. \A v \in Users : Sending(v)' = Sending(v)
        BY <2>1 DEF Sending
      <3>4. ASSUME NEW t \in Servers, NEW v \in Users, reactor'[t].at = "maps", Leaving(t)' = v
            PROVE  Sending(v) = {} /\ \A k \in tasks[t] : To[k.msg] # v
        <4>1. CASE t = s
          BY <2>2, <3>1, <3>4, <4>1
        <4>2. CASE t # s
          BY <1>a, <3>2, <3>4, <4>2 DEF Quiet
        <4> QED  BY <4>1, <4>2
      <3> QED  BY <2>1, <3>3, <3>4 DEF Quiet
    <2> QED  BY <2>1, <2>4, <2>5, <2>6, <2>7, <1>f
  <1>5. ASSUME NEW s \in Servers, CloseMaps(s) \/ CloseUnsub(s) PROVE Addressed'
    <2>1. /\ UNCHANGED <<client, send, tasks, resps, got>>
          /\ \A t \in Servers : reactor'[t].at = "maps" => /\ reactor'[t] = reactor[t]
                                                           /\ Leaving(t)' = Leaving(t)
      BY <1>0, <1>5
      DEF CloseMaps, CloseUnsub, Forgotten, Leaving, TypeReactor, TypeSessions, Idle, names
    <2>2. Quiet'
      BY <1>a, <2>1 DEF Quiet, Sending
    <2> QED  BY <2>1, <2>2, <1>c, <1>d, <1>e, <1>f
  <1>6. ASSUME NEW s \in Servers, HandleResponse(s) PROVE Addressed'
    <2>1. /\ resps[s] # <<>> /\ resps' = [resps EXCEPT ![s] = Tail(@)]
          /\ UNCHANGED <<client, reactor, names, send, tasks>>
      BY <1>6 DEF HandleResponse
    <2>2. /\ Head(resps[s]) = resps[s][1] /\ 1 \in 1..Len(resps[s])
          /\ \A t \in Servers : t # s => resps'[t] = resps[t]
          /\ \A i \in 1..Len(resps'[s]) :
                i + 1 \in 1..Len(resps[s]) /\ resps'[s][i] = resps[s][i + 1]
      BY <1>0, <2>1, Get
    <2>3. RespTo'
      BY <1>a, <2>1, <2>2 DEF RespTo
    <2>4. OnlyAddressee'
      <3> SUFFICES ASSUME NEW m \in Msgs, NEW u \in Users, got'[m][u] > 0 PROVE u = To[m]
        BY DEF OnlyAddressee
      <3>1. CASE m \in resps[s][1].msgs /\ client[s][resps[s][1].fd] = u
        BY <1>a, <2>2, <3>1 DEF RespTo
      <3>2. CASE ~(m \in resps[s][1].msgs /\ client[s][resps[s][1].fd] = u)
        <4>1. got'[m][u] = got[m][u] + 0 /\ got[m][u] \in Nat
          BY <1>0, <1>6, <2>2, <3>2 DEF HandleResponse, TypeGot
        <4> QED  BY <1>a, <4>1 DEF OnlyAddressee
      <3> QED  BY <3>1, <3>2
    <2> QED  BY <2>1, <2>3, <2>4, <1>c, <1>d, <1>g
  <1>7. ASSUME NEW m \in Msgs, NEW s \in Servers, NEW how, Lookup(m, s, how)
        PROVE  Addressed'
    <2>1. /\ send' = [send EXCEPT ![m] = [at |-> "insert", how |-> how, srv |-> s,
                                          fd |-> nameFd[s][To[m]]]]
          /\ ~ HangingUp(To[m]) /\ UNCHANGED <<client, reactor, names, tasks, resps, got>>
      BY <1>7 DEF Lookup, QuietLeave
    <2>2. SendTo'
      BY <1>0, <1>a, <1>n, <2>1 DEF SendTo, TypeSend
    <2>3. \A v \in Users : v # To[m] => Sending(v)' = Sending(v)
      BY <1>0, <2>1 DEF Sending, TypeSend
    <2>4. \A t \in Servers : reactor[t].at = "maps" => Leaving(t) # To[m]
      BY <2>1 DEF HangingUp
    <2>5. Quiet'
      BY <1>a, <2>1, <2>3, <2>4 DEF Quiet, Leaving, names
    <2> QED  BY <2>1, <2>2, <2>5, <1>d, <1>e, <1>f
  <1>8. ASSUME NEW m \in Msgs, send[m].at \in {"insert", "forward"},
               NEW l \in {"forward", "sent"}, send' = [send EXCEPT ![m].at = l],
               UNCHANGED <<client, reactor, names>>
        PROVE  SendTo' /\ (UNCHANGED tasks => Quiet')
    <2>1. SendTo'
      BY <1>0, <1>a, <1>8 DEF SendTo, TypeSend
    <2>2. \A v \in Users : Sending(v)' \subseteq Sending(v)
      BY <1>0, <1>8 DEF Sending, TypeSend
    <2>3. UNCHANGED tasks => Quiet'
      BY <1>a, <1>8, <2>2 DEF Quiet, Leaving, names
    <2> QED  BY <2>1, <2>3
  <1>9. ASSUME NEW m \in Msgs, Insert(m) \/ InsertFails(m) PROVE Addressed'
    <2>1. /\ send[m].at = "insert" /\ UNCHANGED <<client, reactor, names, tasks, resps, got>>
          /\ \E l \in {"forward", "sent"} : send' = [send EXCEPT ![m].at = l]
      BY <1>9 DEF Insert, InsertFails
    <2> QED  BY <1>8, <2>1, <1>d, <1>e, <1>f
  <1>10. ASSUME NEW m \in Msgs, ForwardLocal(m) PROVE Addressed'
    <2>1. /\ send[m].at = "forward" /\ send' = [send EXCEPT ![m].at = "sent"]
          /\ send[m].srv \in Servers /\ send[m].fd \in Fds
          /\ client[send[m].srv][send[m].fd] = To[m]
          /\ UNCHANGED <<client, reactor, names, tasks, got>>
      BY <1>0, <1>a, <1>10 DEF ForwardLocal, TypeSend, SendTo
    <2>2. RespTo'
      BY <1>0, <1>a, <1>10, <2>1, PutTo DEF ForwardLocal
    <2> QED  BY <1>8, <2>1, <2>2, <1>d, <1>f
  <1>11. ASSUME NEW m \in Msgs, ForwardRemote(m) PROVE Addressed'
    <2>1. /\ send[m].at = "forward" /\ send' = [send EXCEPT ![m].at = "sent"]
          /\ UNCHANGED <<client, reactor, names, resps, got>>
          /\ \A s \in Servers : \A t \in tasks'[s] :
                t \in tasks[s] \/ (t.at = "queued" /\ t.msg = m)
      BY <1>0, <1>11 DEF ForwardRemote, TypeTasks, TypeSend
    <2>2. TaskTo'
      BY <1>a, <2>1 DEF TaskTo
    <2>3. \A v \in Users : Sending(v)' \subseteq Sending(v)
      BY <1>0, <2>1 DEF Sending, TypeSend
    <2>4. m \in Sending(To[m])
      BY <2>1 DEF Sending
    <2>5. Quiet'
      BY <1>0, <1>a, <2>1, <2>3, <2>4 DEF Quiet, Leaving, names
    <2> QED  BY <1>8, <2>1, <2>2, <2>5, <1>e, <1>f
  <1>12. ASSUME NEW s \in Servers, NEW t \in tasks[s], SubLookup(s, t) PROVE Addressed'
    <2> DEFINE f == nameFd[s][To[t.msg]]
    <2>1. /\ UNCHANGED <<client, reactor, names, send, resps, got>> /\ t.msg \in Msgs
          /\ \A r \in Servers : \A k \in tasks'[r] :
                \/ k \in tasks[r]
                \/ r = s /\ f # NoFd /\ k = [msg |-> t.msg, at |-> "found", fd |-> f]
      BY <1>0, <1>12 DEF SubLookup, TypeTasks, Task
    <2>2. f # NoFd => client[s][f] = To[t.msg]
      BY <1>0, <1>a, <1>n, <2>1 DEF Quiet
    <2> HIDE DEF f
    <2>3. TaskTo'
      BY <1>a, <2>1, <2>2 DEF TaskTo
    <2>4. Quiet'
      BY <1>a, <2>1 DEF Quiet, Leaving, Sending, names
    <2> QED  BY <2>1, <2>3, <2>4, <1>c, <1>e, <1>f
  <1>13. ASSUME NEW s \in Servers, NEW t \in tasks[s], SubForward(s, t) PROVE Addressed'
    <2>1. /\ t.msg \in Msgs /\ t.fd \in Fds /\ client[s][t.fd] = To[t.msg]
          /\ EnResp(s, t.fd, {t.msg})
          /\ UNCHANGED <<client, reactor, names, send, got>>
          /\ \A r \in Servers : tasks'[r] \subseteq tasks[r]
      BY <1>0, <1>a, <1>13 DEF SubForward, TypeTasks, Task, TaskTo
    <2>2. RespTo'
      BY <1>0, <1>a, <2>1, PutTo
    <2>3. TaskTo' /\ Quiet'
      BY <1>a, <2>1 DEF TaskTo, Quiet, Leaving, Sending, names
    <2> QED  BY <2>1, <2>2, <2>3, <1>c, <1>f
  <1>14. CASE UNCHANGED <<client, reactor, names, send, tasks, resps, got>>
    BY <1>14, <1>c, <1>d, <1>e, <1>f, <1>g
  <1> QED
    BY <1>1, <1>2, <1>3, <1>4, <1>5, <1>6, <1>7, <1>9, <1>10, <1>11, <1>12, <1>13, <1>14
    DEF DeliveryNext, LoginStep, CloseStep, SendStep, SubStep, SingleChat, MultiChat,
        BroadcastChat, GroupChat, InviteGroup, SignInSubscribe, SignInMark, HandleDb,
        RedisCommand, RedisReconnect, deliveryVars

-----------------------------------------------------------------------------
(* Users who sign in when no message to them is on its way, and to whom none *)
(* is sent until Redis knows of their subscription.                          *)
QuietLogin == "quiet_login" \in Habits

(* Server s is subscribed to u's channel, or will be. *)
HasSub(s, u) ==
    u \in channels[s] \/ \E i \in 1..Len(cmds[s]) : cmds[s][i] = [op |-> "sub", user |-> u]

(* The channel of a user is one server's at most, and nobody's while she     *)
(* signs in, so that a message to her has one SUB_MSG task.                  *)
OneChannel == \A u \in Users, s, t \in Servers : HasSub(s, u) /\ HasSub(t, u) => s = t
NoChannel  == \A u \in Users, s \in Servers : login[u].at \in {"maps", "sub"} => ~HasSub(s, u)

Subscribed == OneChannel /\ NoChannel

LEMMA SubscribedInit == DeliveryInit => Subscribed
  <1> SUFFICES ASSUME DeliveryInit PROVE Subscribed
    OBVIOUS
  <1>1. \A s \in Servers : channels[s] = {} /\ Len(cmds[s]) = 0
    BY EmptySeq DEF DeliveryInit
  <1>2. \A u \in Users, s \in Servers : ~HasSub(s, u)
    BY <1>1 DEF HasSub
  <1> QED  BY <1>2 DEF Subscribed, OneChannel, NoChannel

LEMMA SubscribedNext ==
  QuietLogin /\ Typing /\ Subscribed /\ [DeliveryNext]_deliveryVars => Subscribed'
  <1> SUFFICES ASSUME QuietLogin, Typing, Subscribed, [DeliveryNext]_deliveryVars
               PROVE  Subscribed'
    OBVIOUS
  <1>0. TypeSessions /\ TypeReactor /\ TypeRedis
    BY DEF Typing
  <1>a. OneChannel /\ NoChannel
    BY DEF Subscribed
  <1> USE DEF sessions, redis
  <1>1. ASSUME \A s \in Servers, u \in Users : HasSub(s, u)' => HasSub(s, u),
               \A u \in Users : login'[u].at \in {"maps", "sub"} =>
                  login[u].at \in {"maps", "sub"} \/ \A s \in Servers : ~HasSub(s, u)
        PROVE  Subscribed'
    BY <1>a, <1>1 DEF Subscribed, OneChannel, NoChannel
  <1>2. ASSUME UNCHANGED <<cmds, channels>>
        PROVE  \A s \in Servers, u \in Users : HasSub(s, u)' = HasSub(s, u)
    BY <1>2 DEF HasSub
  <1>3. ASSUME NEW u \in Users, NEW s \in Servers, NEW f \in Fds, SignIn(u, s, f)
        PROVE  Subscribed'
    <2>1. /\ \A t \in Servers : ~Lingers(u, t)
          /\ login' = [login EXCEPT ![u] = [at |-> "maps", srv |-> s, fd |-> f]]
          /\ UNCHANGED <<cmds, channels>>
      BY <1>3 DEF SignIn, QuietLogin
    <2>2. \A t \in Servers : ~HasSub(t, u)
      BY <2>1 DEF Lingers, HasSub
    <2>3. \A v \in Users : v # u => login'[v] = login[v]
      BY <1>0, <2>1 DEF TypeSessions
    <2> QED  BY <1>1, <1>2, <2>1, <2>2, <2>3
  <1>4. ASSUME NEW u \in Users, SignInSubscribe(u) PROVE Subscribed'
    <2> DEFINE s == login[u].srv
               e == [op |-> "sub", user |-> u]
    <2>1. /\ login[u].at = "sub" /\ s \in Servers /\ login'[u].at = "select"
          /\ \A v \in Users : v # u => login'[v] = login[v]
          /\ UNCHANGED channels
      BY <1>0, <1>4 DEF SignInSubscribe, LoginAt, TypeSessions
    <2>2. \A t \in Servers, v \in Users : HasSub(t, v)' => HasSub(t, v) \/ (t = s /\ v = u)
      <3>1. CASE UNCHANGED cmds
        BY <1>2, <2>1, <3>1
      <3>2. CASE cmds' = [cmds EXCEPT ![s] = Append(@, e)]
        <4>1. cmds[s] \in Seq(Cmd) /\ e \in Cmd
          BY <1>0, <2>1 DEF TypeRedis, Cmd
        <4>2. \A i \in 1..Len(Append(cmds[s], e)) :
                 \/ i \in 1..Len(cmds[s]) /\ Append(cmds[s], e)[i] = cmds[s][i]
                 \/ Append(cmds[s], e)[i] = e
          BY <4>1
        <4>3. /\ cmds'[s] = Append(cmds[s], e)
              /\ \A t \in Servers : t # s => cmds'[t] = cmds[t]
          BY <1>0, <2>1, <3>2 DEF TypeRedis
        <4> QED  BY <2>1, <4>2, <4>3 DEF HasSub
      <3> QED  BY <1>4, <3>1, <3>2 DEF SignInSubscribe
    <2>3. \A t \in Servers : ~HasSub(t, u)
      BY <1>a, <2>1 DEF NoChannel
    <2> HIDE DEF s
    <2> QED  BY <1>a, <2>1, <2>2, <2>3 DEF Subscribed, OneChannel, NoChannel
  <1>5. ASSUME NEW u \in Users, SignInMaps(u) \/ SignInUnread(u) \/ SignInMark(u)
        PROVE  Subscribed'
    <2>1. login[u].at # "no" /\ UNCHANGED <<cmds, channels>>
      BY <1>5 DEF SignInMaps, SignInUnread, SignInMark
    <2>2. CASE LoginEnds(u)
      <3>1. login'[u].at \in {"no", "done"} /\ \A v \in Users : v # u => login'[v] = login[v]
        BY <1>0, <2>1, <2>2, Ended
      <3> QED  BY <1>1, <1>2, <2>1, <3>1
    <2>3. ASSUME NEW l \in {"sub", "mark"}, LoginAt(u, l), l = "sub" => login[u].at = "maps"
          PROVE  Subscribed'
      <3>1. login'[u].at = l /\ \A v \in Users : v # u => login'[v] = login[v]
        BY <1>0, <2>3 DEF LoginAt, TypeSessions
      <3> QED  BY <1>1, <1>2, <2>1, <2>3, <3>1
    <2> QED  BY <1>5, <2>2, <2>3 DEF SignInMaps, SignInUnread, SignInMark
  <1>6. ASSUME NEW s \in Servers, NEW f \in Fds, Disconnect(s, f) PROVE Subscribed'
    <2>1. /\ \A v \in Users : login'[v] = login[v] \/ login'[v].at = "no"
          /\ UNCHANGED <<cmds, channels>>
      BY <1>0, <1>6 DEF Disconnect, NoLogin, TypeSessions
    <2> QED  BY <1>1, <1>2, <2>1
  <1>7. ASSUME NEW s \in Servers, CloseUnsub(s) PROVE Subscribed'
    <2> DEFINE e == [op |-> "unsub", user |-> reactor[s].fd]
    <2>1. UNCHANGED <<login, channels>> /\ e \in Cmd
      BY <1>0, <1>7 DEF CloseUnsub, TypeReactor, Cmd
    <2>2. CASE UNCHANGED cmds
      BY <1>1, <1>2, <2>1, <2>2
    <2>3. CASE cmds' = [cmds EXCEPT ![s] = Append(@, e)]
      <3>1. cmds[s] \in Seq(Cmd) /\ \A v \in Users : e # [op |-> "sub", user |-> v]
        BY <1>0 DEF TypeRedis
      <3>2. \A i \in 1..Len(Append(cmds[s], e)) :
               \/ i \in 1..Len(cmds[s]) /\ Append(cmds[s], e)[i] = cmds[s][i]
               \/ Append(cmds[s], e)[i] = e
        BY <2>1, <3>1
      <3>3. /\ cmds'[s] = Append(cmds[s], e)
            /\ \A t \in Servers : t # s => cmds'[t] = cmds[t]
        BY <1>0, <2>3 DEF TypeRedis
      <3>4. \A t \in Servers, v \in Users : HasSub(t, v)' => HasSub(t, v)
        BY <2>1, <3>1, <3>2, <3>3 DEF HasSub
      <3> QED  BY <1>1, <2>1, <3>4
    <2> QED  BY <1>7, <2>2, <2>3 DEF CloseUnsub
  <1>8. ASSUME NEW s \in Servers, RedisCommand(s) PROVE Subscribed'
    <2> DEFINE q == Tail(cmds[s])
    <2>1. cmds[s] \in Seq(Cmd) /\ cmds[s] # <<>> /\ UNCHANGED login
      BY <1>0, <1>8 DEF RedisCommand, TypeRedis
    <2>2. /\ Head(cmds[s]) = cmds[s][1] /\ 1 \in 1..Len(cmds[s]) /\ cmds[s][1] \in Cmd
          /\ \A i \in 1..Len(q) : i + 1 \in 1..Len(cmds[s]) /\ q[i] = cmds[s][i + 1]
      BY <2>1, HeadTailProperties, EmptySeq
    <2>3. /\ cmds'[s] = q /\ \A t \in Servers : t # s => cmds'[t] = cmds[t]
          /\ \A t \in Servers : t # s => channels'[t] = channels[t]
          /\ \A v \in channels'[s] :
                v \in channels[s] \/ (cmds[s][1].op = "sub" /\ cmds[s][1].user = v)
      BY <1>0, <1>8, <2>2 DEF RedisCommand, TypeRedis
    <2> HIDE DEF q
    <2>4. ASSUME NEW v \in Users, v \in channels'[s], v \notin channels[s]
          PROVE  cmds[s][1] = [op |-> "sub", user |-> v]
      BY <2>2, <2>3, <2>4 DEF Cmd
    <2>5. \A t \in Servers, v \in Users : HasSub(t, v)' => HasSub(t, v)
      <3> SUFFICES ASSUME NEW t \in Servers, NEW v \in Users, HasSub(t, v)' PROVE HasSub(t, v)
        OBVIOUS
      <3>1. CASE t # s
        BY <2>3, <3>1 DEF HasSub
      <3>2. CASE t = s /\ v \in channels'[s]
        BY <2>2, <2>4, <3>2 DEF HasSub
      <3>3. ASSUME t = s, NEW i \in 1..Len(q), q[i] = [op |-> "sub", user |-> v]
            PROVE  HasSub(t, v)
        BY <2>2, <3>3 DEF HasSub
      <3> QED  BY <2>3, <3>1, <3>2, <3>3 DEF HasSub
    <2> QED  BY <1>1, <2>1, <2>5
  <1>9. ASSUME NEW s \in Servers, RedisReconnect(s) PROVE Subscribed'
    <2>1. UNCHANGED <<login, cmds>> /\ \A t \in Servers : channels'[t] \subseteq channels[t]
      BY <1>0, <1>9 DEF RedisReconnect, TypeRedis
    <2>2. \A t \in Servers, v \in Users : HasSub(t, v)' => HasSub(t, v)
      BY <2>1 DEF HasSub
    <2> QED  BY <1>1, <2>1, <2>2
  <1>10. CASE UNCHANGED <<login, cmds, channels>>
    BY <1>1, <1>2, <1>10
  <1> QED
    BY <1>3, <1>4, <1>5, <1>6, <1>7, <1>8, <1>9, <1>10
    DEF DeliveryNext, LoginStep, CloseStep, SendStep, SubStep, SingleChat, MultiChat,
        BroadcastChat, GroupChat, InviteGroup, Lookup, Insert, InsertFails, ForwardLocal,
        ForwardRemote, SubLookup, SubForward, HandleDb, HandleResponse, CloseMaps,
        deliveryVars

-----------------------------------------------------------------------------
(* Where a message is: published to a server that has not dealt with it, in  *)
(* a response, or received.                                                  *)
Published(m) == \E s \in Servers : \E t \in tasks[s] : t.msg = m
Answered(m)  == \E s \in Servers : \E i \in 1..Len(resps[s]) : m \in resps[s][i].msgs
Received(m)  == \E u \in Users : got[m][u] > 0
Used(m)      == Answered(m) \/ Received(m)

(* One place at most, and none before the handler is done with it. *)
Unsent  == \A m \in Msgs : send[m].at # "sent" => ~Used(m) /\ ~Published(m)
OneTask == \A r, s \in Servers : \A t \in tasks[r], k \in tasks[s] :
    t.msg = k.msg => r = s /\ t = k
OneResp == \A r, s \in Servers : \A i \in 1..Len(resps[r]), j \in 1..Len(resps[s]), m \in Msgs :
    m \in resps[r][i].msgs /\ m \in resps[s][j].msgs => r = s /\ i = j
NotBoth == \A m \in Msgs : Published(m) => ~Used(m)
NotYet  == \A m \in Msgs : Answered(m) => ~Received(m)
Places  == Unsent /\ OneTask /\ OneResp /\ NotBoth /\ NotYet /\ AtMostOnce

(* A row is there from the INSERT on, and "stored" if nobody was found. *)
NoRow    == \A m \in Msgs : send[m].at \in {"unsent", "insert"} => row[m] = "none"
LocalRow == \A m \in Msgs : send[m].at = "forward" /\ send[m].fd # NoFd => row[m] # "stored"

(* While a user signs in, no message to her is on its way; of the rows she   *)
(* is going to be offered none has been; and a row of a message that has     *)
(* been used is marked already, or will be.                                  *)
Alone  == \A u \in Users : login[u].at \notin {"no", "done"} =>
    Sending(u) = {} /\ \A m \in Msgs : To[m] = u => ~Published(m)
Fresh  == \A m \in Msgs :
    login[To[m]].at \in {"maps", "sub", "select"} /\ Used(m) => row[m] # "stored"
Marked == \A m \in Msgs :
    Used(m) /\ row[m] = "stored" => m \in marks \/ login[To[m]].at = "mark"
Offered == NoRow /\ LocalRow /\ Alone /\ Fresh /\ Marked

LEMMA OnceInit == DeliveryInit => Places /\ Offered
  <1> SUFFICES ASSUME DeliveryInit PROVE Places /\ Offered
    OBVIOUS
  <1>1. \A s \in Servers : Len(resps[s]) = 0 /\ tasks[s] = {}
    BY EmptySeq DEF DeliveryInit
  <1>2. \A m \in Msgs : ~Published(m) /\ ~Answered(m)
    BY <1>1 DEF Published, Answered
  <1>3. \A m \in Msgs : ~Received(m) /\ ~Used(m)
    BY <1>2 DEF DeliveryInit, Received, Used
  <1>4. OneTask /\ OneResp
    BY <1>1 DEF OneTask, OneResp
  <1>5. AtMostOnce /\ NoRow /\ LocalRow /\ Alone
    BY DeliveryAssumption DEF DeliveryInit, AtMostOnce, NoRow, LocalRow, Alone, NoLogin
  <1>6. Unsent /\ NotBoth /\ NotYet /\ Fresh /\ Marked
    BY <1>2, <1>3 DEF Unsent, NotBoth, NotYet, Fresh, Marked
  <1> QED  BY <1>4, <1>5, <1>6 DEF Places, Offered

LEMMA PutAnswers ==
  ASSUME TypeResps, NEW s \in Servers, NEW f \in Fds, NEW ms \in SUBSET Msgs,
         EnResp(s, f, ms), NEW m \in Msgs
  PROVE  Answered(m)' <=> Answered(m) \/ m \in ms
  <1>1. ASSUME Answered(m) PROVE Answered(m)'
    BY <1>1, Put DEF Answered
  <1>2. ASSUME m \in ms PROVE Answered(m)'
    <2>1. \E i \in 1..Len(resps'[s]) : resps'[s][i] = [fd |-> f, msgs |-> ms]
      BY Put
    <2>2. \E i \in 1..Len(resps'[s]) : m \in resps'[s][i].msgs
      BY <1>2, <2>1
    <2> QED  BY <2>2 DEF Answered
  <1>3. ASSUME NEW t \in Servers, NEW i \in 1..Len(resps'[t]), m \in resps'[t][i].msgs,
               m \notin ms
        PROVE  Answered(m)
    <2>1. CASE i \in 1..Len(resps[t]) /\ resps'[t][i] = resps[t][i]
      BY <1>3, <2>1 DEF Answered
    <2>2. CASE resps'[t][i] = [fd |-> f, msgs |-> ms]
      BY <1>3, <2>2
    <2> QED  BY <2>1, <2>2, Put
  <1> QED  BY <1>1, <1>2, <1>3 DEF Answered

(* What a response does to the places of its messages. *)
LEMMA PutPlaces ==
  ASSUME Typing, Places, NEW s \in Servers, NEW f \in Fds, NEW ms \in SUBSET Msgs,
         EnResp(s, f, ms), UNCHANGED got, \A m \in ms : ~Used(m)
  PROVE  /\ \A m \in Msgs : Answered(m)' <=> Answered(m) \/ m \in ms
         /\ \A m \in Msgs : Used(m)' <=> Used(m) \/ m \in ms
         /\ OneResp' /\ NotYet'
  <1>0. TypeResps /\ OneResp /\ NotYet
    BY DEF Typing, Places
  <1>1. \A m \in Msgs : Answered(m)' <=> Answered(m) \/ m \in ms
    BY <1>0, PutAnswers
  <1>2. \A m \in Msgs : Received(m)' = Received(m)
    BY DEF Received
  <1>3. ASSUME NEW t \in Servers, NEW i \in 1..Len(resps'[t]), NEW m \in Msgs,
               m \in resps'[t][i].msgs
        PROVE  \/ i \in 1..Len(resps[t]) /\ m \in resps[t][i].msgs /\ Answered(m)
               \/ t = s /\ i = Len(resps[s]) + 1 /\ m \in ms
    <2>1. CASE i \in 1..Len(resps[t]) /\ resps'[t][i] = resps[t][i]
      BY <1>3, <2>1 DEF Answered
    <2>2. CASE t = s /\ i = Len(resps[s]) + 1 /\ resps'[t][i] = [fd |-> f, msgs |-> ms]
      BY <1>3, <2>2
    <2> QED  BY <1>0, <2>1, <2>2, Put
  <1>4. OneResp'
    <2> SUFFICES ASSUME NEW r \in Servers, NEW t \in Servers, NEW i \in 1..Len(resps'[r]),
                        NEW j \in 1..Len(resps'[t]), NEW m \in Msgs,
                        m \in resps'[r][i].msgs, m \in resps'[t][j].msgs
                 PROVE  r = t /\ i = j
      BY DEF OneResp
    <2>1. CASE m \in ms
      BY <1>3, <2>1 DEF Used
    <2>2. CASE m \notin ms
      BY <1>0, <1>3, <2>2 DEF OneResp
    <2> QED  BY <2>1, <2>2
  <1>5. NotYet'
    BY <1>0, <1>1, <1>2 DEF NotYet, Used
  <1> QED  BY <1>1, <1>2, <1>4, <1>5 DEF Used

LEMMA GetPlaces ==
  ASSUME Typing, Places, NEW s \in Servers, HandleResponse(s)
  PROVE  /\ \A m \in Msgs : Used(m)' => Used(m)
         /\ OneResp' /\ NotYet' /\ AtMostOnce'
  <1>0. TypeResps /\ TypeGot /\ OneResp /\ NotYet /\ AtMostOnce
    BY DEF Typing, Places
  <1>1. /\ resps[s] # <<>> /\ resps' = [resps EXCEPT ![s] = Tail(@)]
        /\ got' = [m \in Msgs |-> [u \in Users |-> got[m][u] +
                     IF m \in Head(resps[s]).msgs /\ client[s][Head(resps[s]).fd] = u
                     THEN 1 ELSE 0]]
    BY DEF HandleResponse
  <1> DEFINE r == resps[s][1]
  <1>2. /\ Head(resps[s]) = r /\ 1 \in 1..Len(resps[s])
        /\ \A t \in Servers : t # s => resps'[t] = resps[t]
        /\ \A i \in 1..Len(resps'[s]) :
              i + 1 \in 1..Len(resps[s]) /\ resps'[s][i] = resps[s][i + 1]
    BY <1>0, <1>1, Get
  <1>3. ASSUME NEW m \in Msgs, NEW u \in Users
        PROVE  /\ got[m][u] \in Nat
               /\ got'[m][u] = got[m][u] \/ (m \in r.msgs /\ got'[m][u] = got[m][u] + 1)
    <2>1. got'[m][u] = got[m][u] + IF m \in r.msgs /\ client[s][r.fd] = u THEN 1 ELSE 0
      BY <1>1, <1>2
    <2>2. got[m][u] \in Nat
      BY <1>0 DEF TypeGot
    <2> QED  BY <2>1, <2>2
  <1>4. ASSUME NEW m \in Msgs, m \in r.msgs PROVE Answered(m) /\ ~Received(m)
    BY <1>0, <1>2, <1>4 DEF Answered, NotYet
  <1>5. ASSUME NEW t \in Servers, NEW i \in 1..Len(resps'[t]), NEW m \in Msgs,
               m \in resps'[t][i].msgs
        PROVE  Answered(m) /\ m \notin r.msgs
    <2>1. CASE t # s
      BY <1>0, <1>2, <1>5, <2>1 DEF Answered, OneResp
    <2>2. CASE t = s
      <3>1. i + 1 \in 1..Len(resps[s]) /\ m \in resps[s][i + 1].msgs /\ i + 1 # 1
        BY <1>2, <1>5, <2>2
      <3> QED  BY <1>0, <1>2, <3>1 DEF Answered, OneResp
    <2> QED  BY <2>1, <2>2
  <1>6. \A m \in Msgs : Answered(m)' => Answered(m) /\ m \notin r.msgs
    BY <1>5 DEF Answered
  <1>7. \A m \in Msgs : Received(m)' => Received(m) \/ m \in r.msgs
    BY <1>3 DEF Received
  <1>8. OneResp'
    <2> SUFFICES ASSUME NEW q \in Servers, NEW t \in Servers, NEW i \in 1..Len(resps'[q]),
                        NEW j \in 1..Len(resps'[t]), NEW m \in Msgs,
                        m \in resps'[q][i].msgs, m \in resps'[t][j].msgs
                 PROVE  q = t /\ i = j
      BY DEF OneResp
    <2> DEFINE shift(x) == IF x = s THEN 1 ELSE 0
    <2>1. /\ i + shift(q) \in 1..Len(resps[q]) /\ m \in resps[q][i + shift(q)].msgs
          /\ j + shift(t) \in 1..Len(resps[t]) /\ m \in resps[t][j + shift(t)].msgs
      BY <1>2
    <2>2. q = t /\ i + shift(q) = j + shift(t)
      BY <1>0, <2>1 DEF OneResp
    <2> QED  BY <2>2
  <1>9. AtMostOnce'
    <2> SUFFICES ASSUME NEW m \in Msgs, NEW u \in Users PROVE got'[m][u] <= 1
      BY DEF AtMostOnce
    <2>1. CASE m \in r.msgs
      BY <1>3, <1>4, <2>1 DEF Received
    <2>2. CASE m \notin r.msgs
      BY <1>0, <1>3, <2>2 DEF AtMostOnce
    <2> QED  BY <2>1, <2>2
  <1>10. NotYet'
    BY <1>0, <1>6, <1>7 DEF NotYet
  <1> QED  BY <1>4, <1>6, <1>7, <1>8, <1>9, <1>10 DEF Used

LEMMA OnceNext ==
  QuietLogin /\ Typing /\ Subscribed /\ Places /\ Offered /\ [DeliveryNext]_deliveryVars
    => Places' /\ Offered'
  <1> SUFFICES ASSUME QuietLogin, Typing, Subscribed, Places, Offered,
                      [DeliveryNext]_deliveryVars
               PROVE  Places' /\ Offered'
    OBVIOUS
  <1>0. /\ TypeSessions /\ TypeSend /\ TypeRows /\ TypeTasks
        /\ \A m \in Msgs : To[m] \in Users /\ WrongRow[m] \in Msgs
    BY DeliveryAssumption DEF Typing
  <1>a. Unsent /\ OneTask /\ OneResp /\ NotBoth /\ NotYet /\ AtMostOnce
    BY DEF Places
  <1>b. NoRow /\ LocalRow /\ Alone /\ Fresh /\ Marked
    BY DEF Offered
  <1>c. UNCHANGED <<resps, got>> => /\ \A m \in Msgs : Used(m)' = Used(m)
                                    /\ OneResp' /\ NotYet' /\ AtMostOnce'
    BY <1>a DEF Used, Answered, Received, OneResp, NotYet, AtMostOnce
  <1>d. UNCHANGED tasks => (\A m \in Msgs : Published(m)' = Published(m)) /\ OneTask'
    BY <1>a DEF Published, OneTask
  <1>e. UNCHANGED send => \A u \in Users : Sending(u)' = Sending(u)
    BY DEF Sending
  <1>f. UNCHANGED got => AtMostOnce'
    BY <1>a DEF AtMostOnce
  <1> USE DEF sessions, redis, Places, Offered
  (* Only the sign_in handlers move. *)
  <1>1. ASSUME UNCHANGED <<send, row, tasks, resps, marks, got>>,
               \A u \in Users :
                  \/ login'[u] = login[u]
                  \/ login'[u].at \in {"no", "done"} /\ login[u].at # "mark"
                  \/ login[u].at \in {"maps", "sub"} /\ login'[u].at \in {"sub", "select"}
        PROVE  Places' /\ Offered'
    <2>1. Places'
      BY <1>a, <1>1, <1>c, <1>d DEF Unsent, NotBoth
    <2>2. NoRow' /\ LocalRow'
      BY <1>b, <1>1 DEF NoRow, LocalRow
    <2>3. Alone'
      BY <1>b, <1>1, <1>d, <1>e DEF Alone
    <2>4. Fresh' /\ Marked'
      BY <1>0, <1>b, <1>1, <1>c DEF Fresh, Marked
    <2> QED  BY <2>1, <2>2, <2>3, <2>4
  <1>2. ASSUME NEW u \in Users, NEW s \in Servers, NEW f \in Fds, SignIn(u, s, f)
        PROVE  Places' /\ Offered'
    <2>1. /\ Sending(u) = {} /\ \A t \in Servers : ~Lingers(u, t)
          /\ login[u].at = "no"
          /\ login' = [login EXCEPT ![u] = [at |-> "maps", srv |-> s, fd |-> f]]
          /\ UNCHANGED <<send, row, tasks, resps, marks, got>>
      BY <1>2 DEF SignIn, QuietLogin, NoLogin
    <2>2. login'[u].at = "maps" /\ \A v \in Users : v # u => login'[v] = login[v]
      BY <1>0, <2>1 DEF TypeSessions
    <2>3. \A m \in Msgs : To[m] = u => ~Published(m) /\ m \notin marks
      BY <1>0, <2>1 DEF Lingers, Published
    <2>4. Places' /\ NoRow' /\ LocalRow'
      BY <1>a, <1>b, <2>1, <1>c, <1>d DEF Unsent, NotBoth, NoRow, LocalRow
    <2>5. Alone'
      BY <1>b, <2>1, <2>2, <2>3, <1>d, <1>e DEF Alone
    <2>6. Fresh' /\ Marked'
      BY <1>0, <1>b, <2>1, <2>2, <2>3, <1>c DEF Fresh, Marked
    <2> QED  BY <2>4, <2>5, <2>6
  <1>3. ASSUME NEW u \in Users, SignInMaps(u) \/ SignInSubscribe(u) PROVE Places' /\ Offered'
    <2>1. /\ UNCHANGED <<send, row, tasks, resps, marks, got>>
          /\ login[u].at \in {"maps", "sub"} /\ login'[u].at \in {"sub", "select"}
          /\ \A v \in Users : v # u => login'[v] = login[v]
      BY <1>0, <1>3 DEF SignInMaps, SignInSubscribe, LoginAt, TypeSessions
    <2> QED  BY <1>1, <2>1
  <1>4. ASSUME NEW s \in Servers, NEW f \in Fds, Disconnect(s, f) PROVE Places' /\ Offered'
    <2>1. /\ UNCHANGED <<send, row, tasks, resps, marks, got>>
          /\ \A v \in Users : login'[v] = login[v] \/ (login'[v].at = "no" /\ login[v].at = "done")
      BY <1>0, <1>4 DEF Disconnect, NoLogin, TypeSessions
    <2> QED  BY <1>1, <2>1
  <1>5. ASSUME NEW u \in Users, SignInUnread(u) PROVE Places' /\ Offered'
    <2>1. /\ login[u].at = "select" /\ login[u].srv \in Servers /\ login[u].fd \in Fds
          /\ UNCHANGED <<send, row, tasks, marks, got>>
      BY <1>0, <1>5 DEF SignInUnread, TypeSessions
    <2>2. ASSUME LoginEnds(u), UNCHANGED resps PROVE Places' /\ Offered'
      <3>1. login'[u].at \in {"no", "done"} /\ \A v \in Users : v # u => login'[v] = login[v]
        BY <1>0, <2>1, <2>2, Ended
      <3> QED  BY <1>1, <2>1, <2>2, <3>1
    <2>3. ASSUME LoginAt(u, "mark"), NEW c \in Fitting(Unread(u)),
                 EnResp(login[u].srv, login[u].fd, c)
          PROVE  Places' /\ Offered'
      <3>1. login'[u].at = "mark" /\ \A v \in Users : v # u => login'[v] = login[v]
        BY <1>0, <2>3 DEF LoginAt, TypeSessions
      <3>2. c \in SUBSET Msgs /\ \A m \in c : To[m] = u /\ row[m] = "stored"
        BY DEF Fitting, Unread
      <3>3. \A m \in c : ~Used(m) /\ ~Published(m) /\ send[m].at = "sent"
        <4> SUFFICES ASSUME NEW m \in c
                     PROVE  ~Used(m) /\ ~Published(m) /\ send[m].at = "sent"
          OBVIOUS
        <4>1. ~Used(m) /\ ~Published(m) /\ m \notin Sending(u)
          BY <1>b, <2>1, <3>2 DEF Fresh, Alone
        <4>2. send[m].at = "sent"
          BY <1>0, <1>b, <3>2, <4>1 DEF NoRow, Sending, TypeSend
        <4> QED  BY <4>1, <4>2
      <3>4. (\A m \in Msgs : Used(m)' <=> Used(m) \/ m \in c) /\ OneResp' /\ NotYet'
        BY <2>1, <2>3, <3>2, <3>3, PutPlaces
      <3>5. Places'
        BY <1>a, <2>1, <3>3, <3>4, <1>d, <1>f DEF Unsent, NotBoth
      <3>6. NoRow' /\ LocalRow' /\ Alone'
        BY <1>b, <2>1, <3>1, <1>d, <1>e DEF NoRow, LocalRow, Alone
      <3>7. Fresh' /\ Marked'
        BY <1>0, <1>b, <2>1, <3>1, <3>2, <3>4 DEF Fresh, Marked
      <3> QED  BY <3>5, <3>6, <3>7
    <2> QED  BY <1>5, <2>2, <2>3 DEF SignInUnread
  <1>6. ASSUME NEW u \in Users, SignInMark(u) PROVE Places' /\ Offered'
    <2>1. /\ login[u].at = "mark" /\ login'[u].at \in {"no", "done"}
          /\ \A v \in Users : v # u => login'[v] = login[v]
          /\ row' = [m \in Msgs |-> IF m \in Unread(u) THEN "delivered" ELSE row[m]]
          /\ UNCHANGED <<send, tasks, resps, marks, got>>
      BY <1>0, <1>6, Ended DEF SignInMark
    <2>2. \A m \in Msgs : /\ row'[m] = row[m] \/ (row[m] = "stored" /\ row'[m] = "delivered")
                          /\ To[m] = u => row'[m] # "stored"
      BY <2>1 DEF Unread
    <2>3. Places' /\ Alone'
      BY <1>a, <1>b, <2>1, <1>c, <1>d, <1>e DEF Unsent, NotBoth, Alone
    <2>4. NoRow' /\ LocalRow'
      BY <1>b, <2>1, <2>2 DEF NoRow, LocalRow
    <2>5. Fresh' /\ Marked'
      BY <1>0, <1>b, <2>1, <2>2, <1>c DEF Fresh, Marked
    <2> QED  BY <2>3, <2>4, <2>5
  <1>7. ASSUME NEW s \in Servers, HandleResponse(s) PROVE Places' /\ Offered'
    <2>1. UNCHANGED <<login, send, row, tasks, marks>>
      BY <1>7 DEF HandleResponse
    <2>2. (\A m \in Msgs : Used(m)' => Used(m)) /\ OneResp' /\ NotYet' /\ AtMostOnce'
      BY <1>7, GetPlaces
    <2>3. Places'
      BY <1>a, <2>1, <2>2, <1>d DEF Unsent, NotBoth
    <2>4. NoRow' /\ LocalRow' /\ Alone'
      BY <1>b, <2>1, <1>d, <1>e DEF NoRow, LocalRow, Alone
    <2>5. Fresh' /\ Marked'
      BY <1>b, <2>1, <2>2 DEF Fresh, Marked
    <2> QED  BY <2>3, <2>4, <2>5
  <1>8. ASSUME NEW m \in Msgs, NEW s \in Servers, NEW how, Lookup(m, s, how)
        PROVE  Places' /\ Offered'
    <2>1. /\ send[m].at = "unsent" /\ send'[m].at = "insert"
          /\ \A k \in Msgs : k # m => send'[k] = send[k]
          /\ login[To[m]].at \in {"no", "done"}
          /\ UNCHANGED <<login, row, tasks, resps, marks, got>>
      BY <1>0, <1>8 DEF Lookup, TypeSend, QuietLogin, SigningIn
    <2>2. Places'
      BY <1>a, <2>1, <1>c, <1>d DEF Unsent, NotBoth
    <2>3. NoRow' /\ LocalRow'
      BY <1>b, <2>1 DEF NoRow, LocalRow
    <2>4. Alone'
      BY <1>b, <2>1, <1>d DEF Alone, Sending
    <2>5. Fresh' /\ Marked'
      BY <1>b, <2>1, <1>c DEF Fresh, Marked
    <2> QED  BY <2>2, <2>3, <2>4, <2>5
  <1>9. ASSUME NEW m \in Msgs, Insert(m) \/ InsertFails(m) PROVE Places' /\ Offered'
    <2>1. /\ send[m].at = "insert" /\ send'[m].at \in {"forward", "sent"}
          /\ send'[m].fd = send[m].fd
          /\ \A k \in Msgs : k # m => send'[k] = send[k] /\ row'[k] = row[k]
          /\ UNCHANGED <<login, tasks, resps, marks, got>>
      BY <1>0, <1>9 DEF Insert, InsertFails, TypeSend, TypeRows
    <2>2. ~Used(m) /\ row[m] = "none" /\ (send[m].fd # NoFd => row'[m] # "stored")
      BY <1>0, <1>a, <1>b, <1>9, <2>1 DEF Insert, InsertFails, Unsent, NoRow, TypeRows
    <2>3. Places'
      BY <1>a, <2>1, <1>c, <1>d DEF Unsent, NotBoth
    <2>4. NoRow' /\ LocalRow'
      BY <1>b, <2>1, <2>2 DEF NoRow, LocalRow
    <2>5. Alone'
      <3>1. \A u \in Users : Sending(u)' \subseteq Sending(u)
        BY <2>1 DEF Sending
      <3> QED  BY <1>b, <2>1, <3>1, <1>d DEF Alone
    <2>6. Fresh' /\ Marked'
      BY <1>b, <2>1, <2>2, <1>c DEF Fresh, Marked
    <2> QED  BY <2>3, <2>4, <2>5, <2>6
  (* The handler of m is done. *)
  <1>10. ASSUME NEW m \in Msgs, send[m].at = "forward", send' = [send EXCEPT ![m].at = "sent"],
                UNCHANGED <<login, row>>
         PROVE  /\ send'[m].at = "sent" /\ \A k \in Msgs : k # m => send'[k] = send[k]
                /\ \A u \in Users : Sending(u)' \subseteq Sending(u)
                /\ login[To[m]].at \in {"no", "done"} /\ NoRow' /\ LocalRow'
    <2>1. send'[m].at = "sent" /\ \A k \in Msgs : k # m => send'[k] = send[k]
      BY <1>0, <1>10 DEF TypeSend
    <2>2. m \in Sending(To[m])
      BY <1>10 DEF Sending
    <2>3. login[To[m]].at \in {"no", "done"}
      BY <1>0, <1>b, <2>2 DEF Alone
    <2> QED  BY <1>b, <1>10, <2>1, <2>3 DEF Sending, NoRow, LocalRow
  <1>11. ASSUME NEW m \in Msgs, ForwardLocal(m) PROVE Places' /\ Offered'
    <2>1. /\ send[m].at = "forward" /\ send' = [send EXCEPT ![m].at = "sent"]
          /\ send[m].fd # NoFd /\ send[m].srv \in Servers /\ send[m].fd \in Fds
          /\ EnResp(send[m].srv, send[m].fd, {m})
          /\ marks \subseteq marks' /\ UNCHANGED <<login, row, tasks, got>>
      BY <1>0, <1>11 DEF ForwardLocal, TypeSend
    <2>2. /\ send'[m].at = "sent" /\ \A k \in Msgs : k # m => send'[k] = send[k]
          /\ \A u \in Users : Sending(u)' \subseteq Sending(u)
          /\ login[To[m]].at \in {"no", "done"} /\ NoRow' /\ LocalRow'
      BY <1>10, <2>1
    <2>3. ~Used(m) /\ ~Published(m) /\ row[m] # "stored"
      BY <1>a, <1>b, <2>1 DEF Unsent, LocalRow
    <2>4. (\A k \in Msgs : Used(k)' <=> Used(k) \/ k \in {m}) /\ OneResp' /\ NotYet'
      <3>1. {m} \in SUBSET Msgs /\ \A k \in {m} : ~Used(k)
        BY <2>3
      <3> QED  BY <2>1, <3>1, PutPlaces
    <2>5. Places'
      BY <1>a, <2>1, <2>2, <2>3, <2>4, <1>d, <1>f DEF Unsent, NotBoth
    <2>6. Alone'
      BY <1>b, <2>1, <2>2, <1>d DEF Alone
    <2>7. Fresh' /\ Marked'
      BY <1>b, <2>1, <2>2, <2>3, <2>4 DEF Fresh, Marked
    <2> QED  BY <2>2, <2>5, <2>6, <2>7
  <1>12. ASSUME NEW m \in Msgs, ForwardRemote(m) PROVE Places' /\ Offered'
    <2> DEFINE k == [msg |-> m, at |-> "queued", fd |-> NoFd]
    <2>1. /\ send[m].at = "forward" /\ send' = [send EXCEPT ![m].at = "sent"]
          /\ \A s \in Servers : \/ tasks'[s] = tasks[s]
                                \/ To[m] \in channels[s] /\ tasks'[s] = tasks[s] \cup {k}
          /\ UNCHANGED <<login, row, resps, marks, got>>
      BY <1>12 DEF ForwardRemote
    <2>2. /\ send'[m].at = "sent" /\ \A j \in Msgs : j # m => send'[j] = send[j]
          /\ \A u \in Users : Sending(u)' \subseteq Sending(u)
          /\ login[To[m]].at \in {"no", "done"} /\ NoRow' /\ LocalRow'
      BY <1>10, <2>1
    <2>3. ~Used(m) /\ ~Published(m)
      BY <1>a, <2>1 DEF Unsent
    <2>4. \A r, s \in Servers : To[m] \in channels[r] /\ To[m] \in channels[s] => r = s
      BY <1>0 DEF Subscribed, OneChannel, HasSub
    <2>5. \A s \in Servers : \A t \in tasks[s] : t.msg # m
      BY <2>3 DEF Published
    <2>6. OneTask'
      <3> SUFFICES ASSUME NEW r \in Servers, NEW s \in Servers, NEW t \in tasks'[r],
                          NEW j \in tasks'[s], t.msg = j.msg
                   PROVE  r = s /\ t = j
        BY DEF OneTask
      <3>1. t \in tasks[r] \/ (t = k /\ To[m] \in channels[r])
        BY <2>1
      <3>2. j \in tasks[s] \/ (j = k /\ To[m] \in channels[s])
        BY <2>1
      <3>3. k.msg = m
        OBVIOUS
      <3> HIDE DEF k
      <3> QED  BY <1>a, <2>4, <2>5, <3>1, <3>2, <3>3 DEF OneTask
    <2>7. \A j \in Msgs : Published(j)' => Published(j) \/ j = m
      BY <2>1 DEF Published
    <2>8. Unsent' /\ NotBoth'
      BY <1>a, <2>1, <2>2, <2>3, <2>7, <1>c DEF Unsent, NotBoth
    <2>9. Alone'
      BY <1>b, <2>1, <2>2, <2>7 DEF Alone
    <2>10. Fresh' /\ Marked'
      BY <1>b, <2>1, <1>c DEF Fresh, Marked
    <2> QED  BY <2>1, <2>2, <2>6, <2>8, <2>9, <2>10, <1>c
  <1>13. ASSUME NEW s \in Servers, NEW t \in tasks[s], SubLookup(s, t) PROVE Places' /\ Offered'
    <2>1. /\ UNCHANGED <<login, send, row, resps, marks, got>>
          /\ \A r \in Servers : r # s => tasks'[r] = tasks[r]
          /\ \E e : tasks'[s] \subseteq (tasks[s] \ {t}) \cup {e} /\ e.msg = t.msg
      BY <1>0, <1>13 DEF SubLookup, TypeTasks
    <2>2. PICK e : tasks'[s] \subseteq (tasks[s] \ {t}) \cup {e} /\ e.msg = t.msg
      BY <2>1
    <2>3. OneTask'
      <3> SUFFICES ASSUME NEW r \in Servers, NEW q \in Servers, NEW j \in tasks'[r],
                          NEW k \in tasks'[q], j.msg = k.msg
                   PROVE  r = q /\ j = k
        BY DEF OneTask
      <3>1. /\ (j \in tasks[r] /\ (r = s => j # t)) \/ (r = s /\ j = e)
            /\ (k \in tasks[q] /\ (q = s => k # t)) \/ (q = s /\ k = e)
        BY <2>1, <2>2
      <3> QED  BY <1>a, <2>2, <3>1 DEF OneTask
    <2>4. \A m \in Msgs : Published(m)' => Published(m)
      BY <2>1, <2>2 DEF Published
    <2>5. Unsent' /\ NotBoth'
      BY <1>a, <2>1, <2>4, <1>c DEF Unsent, NotBoth
    <2>6. NoRow' /\ LocalRow' /\ Alone'
      BY <1>b, <2>1, <2>4, <1>e DEF NoRow, LocalRow, Alone
    <2>7. Fresh' /\ Marked'
      BY <1>b, <2>1, <1>c DEF Fresh, Marked
    <2> QED  BY <2>1, <2>3, <2>5, <2>6, <2>7, <1>c
  <1>14. ASSUME NEW s \in Servers, NEW t \in tasks[s], SubForward(s, t) PROVE Places' /\ Offered'
    <2> DEFINE m == t.msg
    <2>1. /\ m \in Msgs /\ t.fd \in Fds /\ EnResp(s, t.fd, {m})
          /\ marks \subseteq marks' /\ (row[m] # "none" => m \in marks')
          /\ tasks'[s] = tasks[s] \ {t} /\ \A r \in Servers : r # s => tasks'[r] = tasks[r]
          /\ UNCHANGED <<login, send, row, got>>
      BY <1>0, <1>14 DEF SubForward, TypeTasks, Task
    <2>2. Published(m)
      BY <1>14 DEF Published
    <2>3. ~Used(m) /\ send[m].at = "sent" /\ login[To[m]].at \in {"no", "done"}
      BY <1>0, <1>a, <1>b, <2>1, <2>2 DEF NotBoth, Unsent, Alone
    <2>4. (\A k \in Msgs : Used(k)' <=> Used(k) \/ k \in {m}) /\ OneResp' /\ NotYet'
      <3>1. {m} \in SUBSET Msgs /\ \A k \in {m} : ~Used(k)
        BY <2>1, <2>3
      <3> QED  BY <2>1, <3>1, PutPlaces
    <2>5. ~Published(m)'
      BY <1>a, <2>1 DEF Published, OneTask
    <2>6. \A k \in Msgs : Published(k)' => Published(k)
      BY <2>1 DEF Published
    <2> HIDE DEF m
    <2>7. OneTask'
      BY <1>a, <2>1 DEF OneTask
    <2>8. Unsent' /\ NotBoth' /\ AtMostOnce'
      BY <1>a, <2>1, <2>3, <2>4, <2>5, <2>6, <1>f DEF Unsent, NotBoth
    <2>9. NoRow' /\ LocalRow' /\ Alone'
      BY <1>b, <2>1, <2>6, <1>e DEF NoRow, LocalRow, Alone
    <2>10. Fresh' /\ Marked'
      BY <1>b, <2>1, <2>3, <2>4 DEF Fresh, Marked
    <2> QED  BY <2>4, <2>7, <2>8, <2>9, <2>10
  <1>15. CASE HandleDb
    <2>1. PICK m \in marks : /\ marks' = marks \ {m}
                             /\ row' = [row EXCEPT ![m] = IF @ = "none" THEN @ ELSE "delivered"]
                             /\ UNCHANGED <<login, send, tasks, resps, got>>
      BY <1>15 DEF HandleDb
    <2>2. /\ \A k \in Msgs : k # m => row'[k] = row[k] /\ (k \in marks => k \in marks')
          /\ row'[m] # "stored" /\ (row[m] = "none" => row'[m] = "none")
      BY <1>0, <2>1 DEF TypeRows
    <2>3. Places' /\ Alone'
      BY <1>a, <1>b, <2>1, <1>c, <1>d, <1>e DEF Unsent, NotBoth, Alone
    <2>4. NoRow' /\ LocalRow'
      BY <1>b, <2>1, <2>2 DEF NoRow, LocalRow
    <2>5. Fresh' /\ Marked'
      BY <1>b, <2>1, <2>2, <1>c DEF Fresh, Marked
    <2> QED  BY <2>3, <2>4, <2>5
  <1>16. CASE UNCHANGED <<login, send, row, tasks, resps, marks, got>>
    BY <1>1, <1>16
  <1> QED
    BY <1>2, <1>3, <1>4, <1>5, <1>6, <1>7, <1>8, <1>9, <1>11, <1>12, <1>13, <1>14, <1>15, <1>16
    DEF DeliveryNext, LoginStep, CloseStep, SendStep, SubStep, SingleChat, MultiChat,
        BroadcastChat, GroupChat, InviteGroup, CloseMaps, CloseUnsub, RedisCommand,
        RedisReconnect, deliveryVars

-----------------------------------------------------------------------------
(* That no row is marked before its message is certain to be received takes  *)
(* all habits, unread messages that fit in one response, and no number      *)
(* published in place of a row's that is another message's by chance.        *)
OwnRow == \A m \in Msgs : WrongRow[m] = m
Fits   == /\ IsFiniteSet(Msgs)
          /\ \A u \in Users : Cardinality({m \in Msgs : To[m] = u}) <= MaxUnread
Careful == Patient /\ QuietLeave /\ QuietLogin /\ OwnRow /\ Fits

(* m is in a response, or its recipient has it. *)
Reached(m) == Answered(m) \/ got[m][To[m]] > 0

(* What is going to be marked, by an UPDATE in the queue or by sign_in, has  *)
(* reached its recipient's connection; so has what is marked, unless the     *)
(* handler that found her is just about to answer.                           *)
QueuedMarks == \A m \in marks : Reached(m)
SignInMarks == \A u \in Users : login[u].at = "mark" => \A m \in Unread(u) : Reached(m)
RowMarks == \A m \in Msgs : row[m] = "delivered" =>
    Reached(m) \/ (send[m].at = "forward" /\ send[m].fd # NoFd)
Kept == QueuedMarks /\ SignInMarks /\ RowMarks

LEMMA KeptInit == DeliveryInit => Kept
  BY DEF DeliveryInit, Kept, QueuedMarks, SignInMarks, RowMarks, NoLogin

LEMMA FitsAll ==
  ASSUME Fits, NEW u \in Users, NEW c \in Fitting(Unread(u))
  PROVE  c = Unread(u)
  <1> DEFINE all == {m \in Msgs : To[m] = u}
  <1>1. IsFiniteSet(Msgs) /\ Cardinality(all) <= MaxUnread
    BY DEF Fits
  <1>2. Unread(u) \subseteq all /\ all \subseteq Msgs
    BY DEF Unread
  <1>3. c \subseteq Unread(u) /\ (c = Unread(u) \/ Cardinality(c) = MaxUnread)
    BY DEF Fitting
  <1> HIDE DEF all
  <1>4. IsFiniteSet(all)
    BY <1>1, <1>2, FS_Subset
  <1>5. IsFiniteSet(Unread(u)) /\ Cardinality(Unread(u)) <= Cardinality(all)
    BY <1>2, <1>4, FS_Subset
  <1>6. /\ Cardinality(c) <= Cardinality(Unread(u))
        /\ Cardinality(c) = Cardinality(Unread(u)) => c = Unread(u)
    BY <1>3, <1>5, FS_Subset
  <1>7. Cardinality(all) \in Nat /\ Cardinality(Unread(u)) \in Nat /\ MaxUnread \in Nat
    BY <1>4, <1>5, FS_CardinalityType, DeliveryAssumption
  <1> QED  BY <1>1, <1>3, <1>5, <1>6, <1>7

(* A response that is handled reaches who it is for. *)
LEMMA GetReaches ==
  ASSUME Typing, RespTo, NEW s \in Servers, HandleResponse(s), NEW m \in Msgs, Reached(m)
  PROVE  Reached(m)'
  <1>0. TypeResps /\ TypeGot /\ To[m] \in Users
    BY DeliveryAssumption DEF Typing
  <1>1. resps[s] # <<>> /\ resps' = [resps EXCEPT ![s] = Tail(@)]
    BY DEF HandleResponse
  <1>2. /\ Head(resps[s]) = resps[s][1] /\ 1 \in 1..Len(resps[s])
        /\ \A t \in Servers : t # s => resps'[t] = resps[t]
        /\ \A i \in 1..Len(resps[s]) :
              i # 1 => i - 1 \in 1..Len(resps'[s]) /\ resps'[s][i - 1] = resps[s][i]
    BY <1>0, <1>1, Get
  <1>3. /\ got[m][To[m]] \in Nat
        /\ got'[m][To[m]] = got[m][To[m]] +
              IF m \in resps[s][1].msgs /\ client[s][resps[s][1].fd] = To[m] THEN 1 ELSE 0
    BY <1>0, <1>2 DEF HandleResponse, TypeGot
  <1>4. CASE got[m][To[m]] > 0
    BY <1>3, <1>4 DEF Reached
  <1>5. CASE m \in resps[s][1].msgs
    <2>1. client[s][resps[s][1].fd] = To[m]
      BY <1>2, <1>5 DEF RespTo
    <2> QED  BY <1>3, <1>5, <2>1 DEF Reached
  <1>6. ASSUME NEW t \in Servers, NEW i \in 1..Len(resps[t]), m \in resps[t][i].msgs,
               t # s \/ i # 1
        PROVE  Answered(m)'
    <2>1. CASE t # s
      BY <1>2, <1>6, <2>1 DEF Answered
    <2>2. CASE t = s /\ i # 1
      BY <1>2, <1>6, <2>2 DEF Answered
    <2> QED  BY <1>6, <2>1, <2>2
  <1> QED  BY <1>4, <1>5, <1>6 DEF Reached, Answered

LEMMA KeptNext ==
  Careful /\ Typing /\ RespTo /\ Alone /\ Kept /\ [DeliveryNext]_deliveryVars => Kept'
  <1> SUFFICES ASSUME Careful, Typing, RespTo, Alone, Kept, [DeliveryNext]_deliveryVars
               PROVE  Kept'
    OBVIOUS
  <1>0. /\ TypeSessions /\ TypeSend /\ TypeRows /\ TypeTasks /\ TypeResps
        /\ \A m \in Msgs : To[m] \in Users
    BY DeliveryAssumption DEF Typing
  <1>a. QueuedMarks /\ SignInMarks /\ RowMarks
    BY DEF Kept
  <1>b. UNCHANGED <<resps, got>> => \A m \in Msgs : Reached(m)' = Reached(m)
    BY DEF Reached, Answered
  (* What has been reached stays reached. *)
  <1>c. ASSUME NEW s \in Servers, NEW f \in Fds, NEW ms \in SUBSET Msgs, EnResp(s, f, ms),
               UNCHANGED got, NEW m \in Msgs, Reached(m) \/ m \in ms
        PROVE  Reached(m)'
    BY <1>0, <1>c, PutAnswers DEF Reached
  <1> USE DEF sessions, redis, Kept
  <1>1. ASSUME UNCHANGED <<send, row, marks>>, \A m \in Msgs : Reached(m) => Reached(m)',
               \A u \in Users : login'[u].at = "mark" => login[u].at = "mark"
        PROVE  Kept'
    <2>1. \A u \in Users : Unread(u)' = Unread(u)
      BY <1>1 DEF Unread
    <2>2. QueuedMarks' /\ RowMarks'
      BY <1>0, <1>a, <1>1 DEF QueuedMarks, RowMarks, TypeRows
    <2>3. SignInMarks'
      BY <1>a, <1>1, <2>1 DEF SignInMarks, Unread
    <2> QED  BY <2>2, <2>3
  <1>2. ASSUME NEW u \in Users,
               (\E s \in Servers, f \in Fds : SignIn(u, s, f)) \/ SignInMaps(u) \/ SignInSubscribe(u)
        PROVE  Kept'
    <2>1. /\ UNCHANGED <<send, row, marks, resps, got>> /\ login'[u].at # "mark"
          /\ \A v \in Users : v # u => login'[v] = login[v]
      BY <1>0, <1>2 DEF SignIn, SignInMaps, SignInSubscribe, LoginAt, TypeSessions
    <2> QED  BY <1>1, <1>b, <2>1
  <1>3. ASSUME NEW u \in Users, SignInUnread(u) PROVE Kept'
    <2>1. /\ login[u].srv \in Servers /\ login[u].fd \in Fds /\ UNCHANGED <<send, row, marks, got>>
          /\ login[u].at # "no"
          /\ \A v \in Users : v # u => login'[v] = login[v]
      BY <1>0, <1>3, Ended DEF SignInUnread, LoginAt, TypeSessions
    <2>2. CASE LoginEnds(u) /\ UNCHANGED resps
      <3>1. login'[u].at \in {"no", "done"}
        BY <1>0, <2>1, <2>2, Ended
      <3> QED  BY <1>1, <1>b, <2>1, <2>2, <3>1
    <2>3. ASSUME NEW c \in Fitting(Unread(u)), EnResp(login[u].srv, login[u].fd, c) PROVE Kept'
      <3>1. c = Unread(u) /\ c \in SUBSET Msgs
        BY FitsAll DEF Careful, Unread
      <3>2. \A m \in Msgs : Reached(m) \/ m \in Unread(u) => Reached(m)'
        BY <1>c, <2>1, <2>3, <3>1
      <3>3. \A v \in Users : Unread(v)' = Unread(v) /\ Unread(v) \subseteq Msgs
        BY <2>1 DEF Unread
      <3>4. QueuedMarks' /\ RowMarks'
        BY <1>0, <1>a, <2>1, <3>2 DEF QueuedMarks, RowMarks, TypeRows
      <3>5. SignInMarks'
        BY <1>a, <2>1, <3>2, <3>3 DEF SignInMarks
      <3> QED  BY <3>4, <3>5
    <2> QED  BY <1>3, <2>2, <2>3 DEF SignInUnread
  <1>4. ASSUME NEW u \in Users, SignInMark(u) PROVE Kept'
    <2>1. /\ login[u].at = "mark" /\ login'[u].at \in {"no", "done"}
          /\ \A v \in Users : v # u => login'[v] = login[v]
          /\ row' = [m \in Msgs |-> IF m \in Unread(u) THEN "delivered" ELSE row[m]]
          /\ UNCHANGED <<send, resps, marks, got>>
      BY <1>0, <1>4, Ended DEF SignInMark
    <2>2. \A v \in Users : Unread(v)' \subseteq Unread(v)
      BY <2>1 DEF Unread
    <2>3. QueuedMarks' /\ RowMarks'
      BY <1>0, <1>a, <1>b, <2>1 DEF QueuedMarks, RowMarks, SignInMarks, TypeRows
    <2>4. SignInMarks'
      BY <1>a, <1>b, <2>1, <2>2 DEF SignInMarks, Unread
    <2> QED  BY <2>3, <2>4
  <1>5. ASSUME NEW s \in Servers, NEW f \in Fds, Disconnect(s, f) PROVE Kept'
    <2>1. /\ UNCHANGED <<send, row, marks, resps, got>>
          /\ \A v \in Users : login'[v] = login[v] \/ login'[v].at = "no"
      BY <1>0, <1>5 DEF Disconnect, NoLogin, TypeSessions
    <2> QED  BY <1>1, <1>b, <2>1
  <1>6. ASSUME NEW s \in Servers, HandleResponse(s) PROVE Kept'
    <2>1. UNCHANGED <<send, row, marks, login>>
      BY <1>6 DEF HandleResponse
    <2> QED  BY <1>1, <1>6, <2>1, GetReaches
  <1>7. ASSUME NEW m \in Msgs, NEW s \in Servers, NEW how, Lookup(m, s, how) PROVE Kept'
    <2>1. /\ send[m].at = "unsent" /\ \A k \in Msgs : k # m => send'[k] = send[k]
          /\ UNCHANGED <<login, row, resps, marks, got>>
      BY <1>0, <1>7 DEF Lookup, TypeSend
    <2>2. QueuedMarks' /\ SignInMarks'
      BY <1>0, <1>a, <1>b, <2>1 DEF QueuedMarks, SignInMarks, Unread, TypeRows
    <2>3. RowMarks'
      BY <1>a, <1>b, <2>1 DEF RowMarks
    <2> QED  BY <2>2, <2>3
  <1>8. ASSUME NEW m \in Msgs, Insert(m) \/ InsertFails(m) PROVE Kept'
    <2>1. /\ send[m].at = "insert" /\ send'[m].fd = send[m].fd
          /\ row'[m] # row[m] => send'[m].at = "forward"
                                 /\ (row'[m] = "delivered" => send[m].fd # NoFd)
          /\ \A k \in Msgs : k # m => send'[k] = send[k] /\ row'[k] = row[k]
          /\ UNCHANGED <<login, resps, marks, got>>
      BY <1>0, <1>8 DEF Insert, InsertFails, TypeSend, TypeRows
    <2>2. login[To[m]].at # "mark"
      BY <1>0, <2>1 DEF Alone, Sending
    <2>3. \A u \in Users : login[u].at = "mark" => Unread(u)' = Unread(u)
      BY <2>1, <2>2 DEF Unread
    <2>4. QueuedMarks'
      BY <1>0, <1>a, <1>b, <2>1 DEF QueuedMarks, TypeRows
    <2>5. SignInMarks'
      BY <1>a, <1>b, <2>1, <2>3 DEF SignInMarks, Unread
    <2>6. RowMarks'
      BY <1>a, <1>b, <2>1 DEF RowMarks
    <2> QED  BY <2>4, <2>5, <2>6
  <1>9. ASSUME NEW m \in Msgs, ForwardLocal(m) PROVE Kept'
    <2>1. /\ send[m].srv \in Servers /\ send[m].fd \in Fds /\ {m} \in SUBSET Msgs
          /\ EnResp(send[m].srv, send[m].fd, {m}) /\ marks' \subseteq marks \cup {m}
          /\ \A k \in Msgs : k # m => send'[k] = send[k]
          /\ UNCHANGED <<login, row, got>>
      BY <1>0, <1>9 DEF ForwardLocal, TypeSend
    <2>2. \A k \in Msgs : Reached(k) \/ k = m => Reached(k)'
      BY <1>c, <2>1
    <2>3. QueuedMarks' /\ RowMarks'
      BY <1>0, <1>a, <2>1, <2>2 DEF QueuedMarks, RowMarks, TypeRows
    <2>4. SignInMarks'
      BY <1>a, <2>1, <2>2 DEF SignInMarks, Unread
    <2> QED  BY <2>3, <2>4
  <1>10. ASSUME NEW m \in Msgs, ForwardRemote(m) PROVE Kept'
    <2>1. /\ send[m].fd = NoFd /\ \A k \in Msgs : k # m => send'[k] = send[k]
          /\ UNCHANGED <<login, row, resps, marks, got>>
      BY <1>0, <1>10 DEF ForwardRemote, TypeSend
    <2>2. QueuedMarks' /\ SignInMarks'
      BY <1>0, <1>a, <1>b, <2>1 DEF QueuedMarks, SignInMarks, Unread, TypeRows
    <2>3. RowMarks'
      BY <1>a, <1>b, <2>1 DEF RowMarks
    <2> QED  BY <2>2, <2>3
  <1>11. ASSUME NEW s \in Servers, NEW t \in tasks[s], SubForward(s, t) PROVE Kept'
    <2>1. /\ t.msg \in Msgs /\ t.fd \in Fds /\ {t.msg} \in SUBSET Msgs
          /\ EnResp(s, t.fd, {t.msg}) /\ marks' = marks \cup {t.msg}
          /\ UNCHANGED <<login, send, row, got>>
      BY <1>0, <1>11 DEF SubForward, TypeTasks, Task, Careful, OwnRow
    <2>2. \A k \in Msgs : Reached(k) \/ k = t.msg => Reached(k)'
      BY <1>c, <2>1
    <2>3. QueuedMarks' /\ RowMarks'
      BY <1>0, <1>a, <2>1, <2>2 DEF QueuedMarks, RowMarks, TypeRows
    <2>4. SignInMarks'
      BY <1>a, <2>1, <2>2 DEF SignInMarks, Unread
    <2> QED  BY <2>3, <2>4
  <1>12. CASE HandleDb
    <2>1. PICK m \in marks : /\ marks' = marks \ {m}
                             /\ row' = [row EXCEPT ![m] = IF @ = "none" THEN @ ELSE "delivered"]
                             /\ UNCHANGED <<login, send, resps, got>>
      BY <1>12 DEF HandleDb
    <2>2. /\ Reached(m) /\ m \in Msgs /\ row'[m] # "stored"
          /\ \A k \in Msgs : k # m => row'[k] = row[k]
      BY <1>0, <1>a, <2>1 DEF QueuedMarks, TypeRows
    <2>3. \A u \in Users : Unread(u)' \subseteq Unread(u)
      BY <2>2 DEF Unread
    <2>4. QueuedMarks' /\ RowMarks'
      BY <1>0, <1>a, <1>b, <2>1, <2>2 DEF QueuedMarks, RowMarks, TypeRows
    <2>5. SignInMarks'
      BY <1>a, <1>b, <2>1, <2>3 DEF SignInMarks, Unread
    <2> QED  BY <2>4, <2>5
  <1>13. CASE UNCHANGED <<login, send, row, resps, marks, got>>
    BY <1>1, <1>b, <1>13
  <1> QED
    BY <1>2, <1>3, <1>4, <1>5, <1>6, <1>7, <1>8, <1>9, <1>10, <1>11, <1>12, <1>13
    DEF DeliveryNext, LoginStep, CloseStep, SendStep, SubStep, SingleChat, MultiChat,
        BroadcastChat, GroupChat, InviteGroup, CloseMaps, CloseUnsub, RedisCommand,
        RedisReconnect, SubLookup, deliveryVars

-----------------------------------------------------------------------------
(* Whatever the users' habits, also if they hang up while their sign_in is   *)
(* handled: what every thread and queue has in hand is well typed, and who   *)
(* is signed in is still at the connection her sign_in was for.              *)
THEOREM DeliveryTypeCorrect == DeliverySpec => []DeliveryTypeOK
  <1>1. Typing /\ Here => DeliveryTypeOK
    BY DEF Typing, Here, DeliveryTypeOK, TypeSessions, TypeRedis, TypeRows, TypeTasks,
           TypeResps, Task, Resp, Stages
  <1>2. DeliveryInit => Typing /\ Here
    BY TypingInit DEF DeliveryInit, Here, NoLogin
  <1>3. Typing /\ Here /\ [DeliveryNext]_deliveryVars => (Typing /\ Here)'
    BY TypingNext, HereNext
  <1> QED  BY <1>1, <1>2, <1>3, PTL DEF DeliverySpec

(* OnlyAddressee, for users who do not hang up while they sign in and leave  *)
(* when nothing is on its way to them: a descriptor looked up for a message  *)
(* is still its recipient's when the reactor writes to it, whatever happens  *)
(* to other users in between.                                                *)
THEOREM OnlyAddresseeHolds == ASSUME QuietLeave, Patient PROVE DeliverySpec => []OnlyAddressee
  <1> DEFINE Inv == Typing /\ Registered /\ Addressed
  <1>1. Inv => OnlyAddressee
    BY DEF Addressed
  <1>2. DeliveryInit => Inv
    BY TypingInit, RegisteredInit, AddressedInit
  <1>3. Inv /\ [DeliveryNext]_deliveryVars => Inv'
    BY TypingNext, RegisteredNext, AddressedNext
  <1> QED  BY <1>1, <1>2, <1>3, PTL DEF DeliverySpec

(* AtMostOnce, for users with one session at a time who sign in when nothing *)
(* is on its way to them: a message is not both published and offered by     *)
(* sign_in, nor offered twice, even if they hang up while sign_in is         *)
(* handled, whatever row a publication names and however often Redis is lost.*)
THEOREM AtMostOnceHolds == ASSUME QuietLogin PROVE DeliverySpec => []AtMostOnce
  <1> DEFINE Inv == Typing /\ Subscribed /\ Places /\ Offered
  <1>1. Inv => AtMostOnce
    BY DEF Places
  <1>2. DeliveryInit => Inv
    BY TypingInit, SubscribedInit, OnceInit
  <1>3. Inv /\ [DeliveryNext]_deliveryVars => Inv'
    BY TypingNext, SubscribedNext, OnceNext
  <1> QED  BY <1>1, <1>2, <1>3, PTL DEF DeliverySpec

(* NothingLost: with all habits, unread messages that fit in a response and  *)
(* no accidental row number, a row is marked is_delivered only if its        *)
(* recipient gets the message, also across lost Redis connections.           *)
THEOREM NothingLostHolds == ASSUME Careful PROVE DeliverySpec => []NothingLost
  <1> DEFINE Inv == /\ Typing /\ Registered /\ Addressed
                    /\ Subscribed /\ Places /\ Offered /\ Kept
  <1>1. Inv => NothingLost
    <2> SUFFICES ASSUME Inv, Settled, NEW m \in Msgs, row[m] = "delivered"
                 PROVE  got[m][To[m]] > 0
      BY DEF NothingLost
    <2>1. Reached(m) \/ send[m].at = "forward"
      BY DEF Kept, RowMarks
    <2>2. send[m].at # "forward" /\ \A s \in Servers : resps[s] = <<>>
      BY DEF Settled
    <2>3. ~Answered(m)
      BY <2>2, EmptySeq DEF Answered
    <2> QED  BY <2>1, <2>2, <2>3 DEF Reached
  <1>2. DeliveryInit => Inv
    BY TypingInit, RegisteredInit, AddressedInit, SubscribedInit, OnceInit, KeptInit
  <1>3. Inv /\ [DeliveryNext]_deliveryVars => Inv'
    BY TypingNext, RegisteredNext, AddressedNext, SubscribedNext, OnceNext, KeptNext
    DEF Careful, Addressed, Offered
  <1> QED  BY <1>1, <1>2, <1>3, PTL DEF DeliverySpec

-----------------------------------------------------------------------------
(* The console client.                                                       *)

Message == (Requests \cup {"notice"}) \X {"0", "1", "2"}

LEMMA PushesAreMessages == Pushes \subseteq Message
  BY DEF Pushes, Message, Requests

LEMMA AnswersAreNoPushes ==
  ASSUME NEW r \in Requests, NEW c \in AnswerCodes(r)
  PROVE  <<r, c>> \in Message /\ ~IsPush(<<r, c>>)
  <1>1. c \in {"0", "1", "2"}
    BY DEF AnswerCodes
  <1>2. <<r, c>> \in Message
    BY <1>1 DEF Message
  <1>3. r \in {"single_chat", "broadcast_chat"} => c # "1"
    BY DEF AnswerCodes
  <1>4. r = "multi_chat" => c # "2"
    BY DEF AnswerCodes
  <1>5. r # "notice"
    BY DEF Requests
  <1> QED  BY <1>2, <1>3, <1>4, <1>5 DEF IsPush, Pushes

(* The parts of the type, each with the variables it depends on.             *)
CurOK   == cur \in States /\ pipe \in Lines \cup {""}
ClockOK == /\ hb \in {"none", "sleep", "ended"} /\ nap \in 0..Period /\ late \in BOOLEAN
           /\ left \in 0..Timeout /\ beat \in BOOLEAN
WireOK  == /\ req \in Requests \cup {"none"} /\ server \in {"down", "open", "closed"}
           /\ signed \in BOOLEAN /\ faults \in 0..MaxFaults
InboxOK == inbox \in Seq(Message)

LEMMA TypeParts == TypeOK <=> CurOK /\ ClockOK /\ WireOK /\ InboxOK
  BY DEF TypeOK, CurOK, ClockOK, WireOK, InboxOK, Message

LEMMA TypeInit == Init => TypeOK
  <1> SUFFICES ASSUME Init PROVE CurOK /\ ClockOK /\ WireOK /\ InboxOK
    BY TypeParts
  <1>1. CurOK
    BY DEF Init, CurOK, States
  <1>2. /\ 0 \in 0..Period /\ Timeout \in 0..Timeout /\ 0 \in 0..MaxFaults
    BY ClientAssumption
  <1>3. ClockOK
    BY <1>2 DEF Init, ClockOK
  <1>4. WireOK
    BY <1>2 DEF Init, WireOK
  <1>5. InboxOK
    BY EmptySeq DEF Init, InboxOK
  <1> QED  BY <1>1, <1>3, <1>4, <1>5

LEMMA CurNext == CurOK /\ [Next]_vars => CurOK'
  <1> SUFFICES ASSUME CurOK, [Next]_vars PROVE CurOK'
    OBVIOUS
  <1> USE DEF keyboard, CurOK
  <1>1. CASE UNCHANGED <<cur, pipe>>
    BY <1>1
  <1>2. CASE Connect \/ Quit \/ Ask \/ Ignore \/ EndOfFile
    BY <1>2 DEF Connect, Quit, Ask, Ignore, EndOfFile, Read, Finish, States
  <1>3. CASE Request
    BY <1>3 DEF Request, Read, States
  <1>4. CASE Receive
    <2>1. pipe' = pipe /\ cur' \in {cur, "signin_username", "menu"}
      BY <1>4 DEF Receive, Then
    <2> QED  BY <2>1 DEF States, Asking
  <1>5. ASSUME NEW l \in Lines, Type(l) PROVE CurOK'
    BY <1>5 DEF Type, Lines
  <1>6. CASE Beat \/ BeatFails \/ NoAnswer \/ NoDatabase
    BY <1>1, <1>6 DEF Beat, BeatFails, NoAnswer, NoDatabase
  <1>7. ASSUME NEW c, Answer(c) \/ Push(c) PROVE CurOK'
    BY <1>1, <1>7 DEF Answer, Push
  <1>8. CASE BeatArrives \/ TimeOut \/ HangUp \/ Tick
    BY <1>1, <1>8 DEF BeatArrives, TimeOut, HangUp, Tick
  <1>9. CASE UNCHANGED vars
    BY <1>1, <1>9 DEF vars
  <1> QED
    BY <1>2, <1>3, <1>4, <1>5, <1>6, <1>7, <1>8, <1>9 DEF Next, HandleInput, Serve

LEMMA ClockNext == ClockOK /\ [Next]_vars => ClockOK'
  <1> SUFFICES ASSUME ClockOK, [Next]_vars PROVE ClockOK'
    OBVIOUS
  <1> USE DEF thread, network
  <1> HIDE DEF ClockOK
  <1>1. CASE UNCHANGED <<nap, late, left, beat>> /\ hb' \in {hb, "ended"}
    BY <1>1 DEF ClockOK
  <1>2. CASE Connect \/ Quit \/ Ask \/ Ignore \/ EndOfFile
    BY <1>1, <1>2 DEF Connect, Quit, Ask, Ignore, EndOfFile, Finish
  <1>3. CASE Request
    BY <1>1, <1>3 DEF Request, Send
  <1>4. CASE Receive
    <2>1. UNCHANGED <<left, beat>>
      BY <1>4 DEF Receive
    <2>2. CASE UNCHANGED <<hb, nap, late>>
      BY <1>1, <2>1, <2>2
    <2>3. CASE hb' = "sleep" /\ nap' = Period /\ late' = (left <= Period)
      BY <2>1, <2>3, ClientAssumption DEF ClockOK
    <2> QED  BY <1>4, <2>2, <2>3 DEF Receive, Starts
  <1>5. ASSUME NEW l \in Lines, Type(l) PROVE ClockOK'
    BY <1>1, <1>5 DEF Type
  <1>6. CASE Beat
    BY <1>6, ClientAssumption DEF Beat, ClockOK
  <1>7. CASE BeatFails \/ NoAnswer \/ NoDatabase
    BY <1>1, <1>7 DEF BeatFails, NoAnswer, NoDatabase
  <1>8. ASSUME NEW c, Answer(c) \/ Push(c) PROVE ClockOK'
    BY <1>1, <1>8 DEF Answer, Push
  <1>9. CASE BeatArrives
    <2>1. Timeout \in 0..Timeout
      BY ClientAssumption
    <2> QED  BY <1>9, <2>1 DEF BeatArrives, ClockOK
  <1>10. CASE TimeOut \/ HangUp
    BY <1>1, <1>10 DEF TimeOut, HangUp
  <1>11. CASE Tick
    BY <1>11, ClientAssumption DEF Tick, ClockOK
  <1>12. CASE UNCHANGED vars
    BY <1>1, <1>12 DEF vars
  <1> QED
    BY <1>2, <1>3, <1>4, <1>5, <1>6, <1>7, <1>8, <1>9, <1>10, <1>11, <1>12
    DEF Next, HandleInput, Serve

LEMMA WireNext == WireOK /\ [Next]_vars => WireOK'
  <1> SUFFICES ASSUME WireOK, [Next]_vars PROVE WireOK'
    OBVIOUS
  <1> USE ClientAssumption DEF network, thread
  <1>1. CASE UNCHANGED <<req, server, signed, faults>>
    BY <1>1 DEF WireOK
  <1>2. CASE Connect
    BY <1>2 DEF Connect, Finish, WireOK
  <1>3. CASE Quit \/ Ask \/ Ignore \/ EndOfFile \/ Receive
    BY <1>1, <1>3 DEF Quit, Ask, Ignore, EndOfFile, Finish, Receive
  <1>4. CASE Request
    BY <1>4 DEF Request, Send, WireOK
  <1>5. ASSUME NEW l \in Lines, Type(l) PROVE WireOK'
    BY <1>1, <1>5 DEF Type
  <1>6. CASE Beat \/ BeatFails
    BY <1>6 DEF Beat, BeatFails, WireOK
  <1>7. ASSUME NEW c, Answer(c) PROVE WireOK'
    BY <1>7 DEF Answer, WireOK
  <1>8. CASE NoAnswer \/ NoDatabase
    BY <1>8 DEF NoAnswer, NoDatabase, WireOK
  <1>9. ASSUME NEW m \in Pushes, Push(m) PROVE WireOK'
    BY <1>1, <1>9 DEF Push
  <1>10. CASE BeatArrives \/ Tick
    BY <1>1, <1>10 DEF BeatArrives, Tick
  <1>11. CASE TimeOut \/ HangUp
    BY <1>11 DEF TimeOut, HangUp, WireOK
  <1>12. CASE UNCHANGED vars
    BY <1>1, <1>12 DEF vars
  <1> QED
    BY <1>2, <1>3, <1>4, <1>5, <1>6, <1>7, <1>8, <1>9, <1>10, <1>11, <1>12
    DEF Next, HandleInput, Serve

LEMMA InboxNext == WireOK /\ InboxOK /\ [Next]_vars => InboxOK'
  <1> SUFFICES ASSUME WireOK, InboxOK, [Next]_vars PROVE InboxOK'
    OBVIOUS
  <1> USE DEF network
  <1>1. CASE UNCHANGED inbox
    BY <1>1 DEF InboxOK
  <1>2. CASE Connect \/ HandleInput \/ EndOfFile \/ \E l \in Lines : Type(l)
    BY <1>1, <1>2 DEF Connect, HandleInput, Quit, Ask, Request, Send, Ignore, EndOfFile, Type
  <1>3. CASE Receive
    <2>1. inbox # <<>> /\ inbox' = Tail(inbox)
      BY <1>3 DEF Receive
    <2> QED  BY <2>1, HeadTailProperties DEF InboxOK
  <1>4. ASSUME NEW c \in {"0", "1", "2"}, Answer(c) PROVE InboxOK'
    <2>1. /\ req \in Requests /\ c \in AnswerCodes(req)
          /\ inbox' = Append(inbox, <<req, c>>)
      BY <1>4 DEF Answer, WireOK
    <2>2. <<req, c>> \in Message
      BY <2>1, AnswersAreNoPushes
    <2> QED  BY <2>1, <2>2, AppendProperties DEF InboxOK
  <1>5. ASSUME NEW m \in Pushes, Push(m) PROVE InboxOK'
    <2>1. m \in Message /\ inbox' = Append(inbox, m)
      BY <1>5, PushesAreMessages DEF Push
    <2> QED  BY <2>1, AppendProperties DEF InboxOK
  <1>6. CASE Beat \/ BeatFails \/ NoAnswer \/ NoDatabase
    BY <1>1, <1>6 DEF Beat, BeatFails, NoAnswer, NoDatabase
  <1>7. CASE BeatArrives \/ TimeOut \/ HangUp \/ Tick
    BY <1>1, <1>7 DEF BeatArrives, TimeOut, HangUp, Tick
  <1>8. CASE UNCHANGED vars
    BY <1>1, <1>8 DEF vars
  <1> QED
    BY <1>2, <1>3, <1>4, <1>5, <1>6, <1>7, <1>8 DEF Next, Serve

LEMMA TypeNext == TypeOK /\ [Next]_vars => TypeOK'
  <1> SUFFICES ASSUME TypeOK, [Next]_vars PROVE TypeOK'
    OBVIOUS
  <1>1. CurOK' /\ ClockOK' /\ WireOK' /\ InboxOK'
    BY TypeParts, CurNext, ClockNext, WireNext, InboxNext
  <1> QED  BY <1>1 DEF TypeOK, CurOK, ClockOK, WireOK, InboxOK, Message

(* For any time-out, period and bounds the state of the client is well typed:*)
(* no sequence of lines, answers and faults leads out of the menu's states.  *)
THEOREM TypeCorrect == Spec => []TypeOK
  BY TypeInit, TypeNext, PTL DEF Spec

-----------------------------------------------------------------------------
LEMMA MatchedInit == Init => Matched
  <1> SUFFICES ASSUME Init PROVE Matched
    OBVIOUS
  <1>1. Len(inbox) = 0
    BY EmptySeq DEF Init
  <1>2. Answers = {}
    BY <1>1 DEF Answers
  <1> QED  BY <1>2 DEF Init, Matched

LEMMA MatchedNext == TypeOK /\ Matched /\ [Next]_vars => Matched'
  <1> SUFFICES ASSUME TypeOK, Matched, [Next]_vars PROVE Matched'
    OBVIOUS
  <1> USE DEF keyboard, thread, network
  <1>1. CASE UNCHANGED inbox /\ req' \in {req, "none"} /\ cur' \in {cur, "end"}
    BY <1>1 DEF Matched, Answers
  <1>2. CASE Connect
    <2>1. req = "none" /\ Answers = {}
      BY <1>2 DEF Connect, Matched
    <2> QED  BY <1>2, <2>1 DEF Connect, Matched, Answers
  <1>3. CASE Ask
    <2>1. cur \notin {"wait_resp", "end"}
      BY <1>3 DEF Ask, Question
    <2>2. req = "none" /\ Answers = {}
      BY <2>1 DEF Matched
    <2> QED  BY <1>3, <2>2 DEF Ask, Matched, Answers
  <1>4. CASE Request
    <2>1. cur \notin {"wait_resp", "end"}
      BY <1>4 DEF Request, LastQuestion
    <2>2. Answers = {}
      BY <2>1 DEF Matched
    <2>3. UNCHANGED inbox
      BY <1>4 DEF Request, Send
    <2>4. Answers' = {}
      BY <2>2, <2>3 DEF Answers
    <2> QED  BY <1>4, <2>4 DEF Request, Matched
  <1>5. CASE Receive
    <2>1. /\ inbox # <<>> /\ Len(inbox') = Len(inbox) - 1 /\ Len(inbox) \in Nat
          /\ \A i \in 1..Len(inbox') : inbox'[i] = inbox[i + 1]
      BY <1>5, HeadTailProperties, LenProperties DEF Receive, TypeOK
    <2>2. \A i \in Answers' : i + 1 \in Answers
      BY <2>1 DEF Answers, IsPush
    <2>3. /\ \A i, j \in Answers' : i = j
          /\ Answers = {} => Answers' = {}
      <3>1. \A i \in Answers' : i \in Nat
        BY <2>1 DEF Answers
      <3> QED  BY <2>2, <3>1 DEF Matched
    <2>4. req' = req
      BY <1>5 DEF Receive
    <2>5. CASE IsPush(Head(inbox))
      <3>1. cur' = cur
        BY <1>5, <2>5 DEF Receive
      <3> QED  BY <2>2, <2>3, <2>4, <3>1 DEF Matched
    <2>6. CASE ~IsPush(Head(inbox))
      <3>1. 1 \in Answers
        BY <2>1, <2>6 DEF Answers
      <3>2. req = "none"
        BY <3>1 DEF Matched
      <3>3. Answers' = {}
        <4>1. \A i \in Answers' : i \in Nat /\ i + 1 = 1 /\ i >= 1
          BY <2>1, <2>2, <3>1 DEF Answers, Matched
        <4> QED  BY <4>1
      <3> QED  BY <2>3, <2>4, <3>2, <3>3 DEF Matched
    <2> QED  BY <2>5, <2>6
  <1>6. ASSUME NEW c, Answer(c) PROVE Matched'
    <2>1. /\ req \in Requests /\ req' = "none" /\ cur' = cur
          /\ <<req, c>> \in Message /\ ~IsPush(<<req, c>>)
          /\ inbox' = Append(inbox, <<req, c>>)
      BY <1>6, AnswersAreNoPushes DEF Answer, TypeOK
    <2>2. /\ Len(inbox') = Len(inbox) + 1 /\ Len(inbox) \in Nat
          /\ \A i \in 1..Len(inbox) : inbox'[i] = inbox[i]
      <3>1. inbox \in Seq(Message)
        BY TypeParts DEF InboxOK
      <3> QED  BY <2>1, <3>1, AppendProperties, LenProperties
    <2>3. Answers = {} /\ cur \in {"wait_resp", "end"}
      BY <1>6 DEF Matched, Answer
    <2>4. \A i \in Answers' : i = Len(inbox) + 1
      BY <2>2, <2>3 DEF Answers
    <2> QED  BY <2>1, <2>3, <2>4 DEF Matched
  <1>7. ASSUME NEW m \in Pushes, Push(m) PROVE Matched'
    <2>1. /\ Len(inbox') = Len(inbox) + 1 /\ Len(inbox) \in Nat
          /\ \A i \in 1..Len(inbox) : inbox'[i] = inbox[i]
          /\ inbox'[Len(inbox) + 1] = m
      <3>1. inbox \in Seq(Message) /\ m \in Message /\ inbox' = Append(inbox, m)
        BY <1>7, TypeParts, PushesAreMessages DEF InboxOK, Push
      <3> QED  BY <3>1, AppendProperties, LenProperties
    <2>2. Answers' = Answers
      BY <2>1 DEF Answers, IsPush
    <2> QED  BY <1>7, <2>2 DEF Push, Matched
  <1>8. CASE Quit \/ Ignore \/ EndOfFile
    BY <1>1, <1>8 DEF Quit, Ignore, EndOfFile, Finish, Read
  <1>9. ASSUME NEW l \in Lines, Type(l) PROVE Matched'
    BY <1>1, <1>9 DEF Type
  <1>10. CASE Beat \/ BeatFails \/ NoAnswer \/ NoDatabase
    BY <1>1, <1>10 DEF Beat, BeatFails, NoAnswer, NoDatabase
  <1>11. CASE BeatArrives \/ TimeOut \/ HangUp \/ Tick
    BY <1>1, <1>11 DEF BeatArrives, TimeOut, HangUp, Tick
  <1>12. CASE UNCHANGED vars
    BY <1>1, <1>12 DEF vars
  <1> QED
    BY <1>2, <1>3, <1>4, <1>5, <1>6, <1>7, <1>8, <1>9, <1>10, <1>11, <1>12
    DEF Next, HandleInput, Serve

(* Every answer of the server finds the client waiting for it, and there is  *)
(* never more than one request or answer under way, for any inbox and any    *)
(* number of faults: the messages of others that arrive in between do not    *)
(* end a dialog (handle_server_message).                                     *)
THEOREM MatchedHolds == Spec => []Matched
  BY TypeInit, TypeNext, MatchedInit, MatchedNext, PTL DEF Spec

-----------------------------------------------------------------------------
(* As long as the thread runs and was not started too late.                  *)
Beating == hb = "sleep" /\ ~late /\ server = "open"
Ahead   ==
    /\ Beating => left > 0 /\ (beat \/ nap < left)
    /\ cur = "connect" => hb # "sleep"

LEMMA AheadInit == Init => Ahead
  BY DEF Init, Ahead, Beating

LEMMA AheadNext == TypeOK /\ Ahead /\ [Next]_vars => Ahead'
  <1> SUFFICES ASSUME TypeOK, Ahead, [Next]_vars PROVE Ahead'
    OBVIOUS
  <1> USE DEF keyboard, thread, network
  <1>1. /\ nap \in 0..Period /\ left \in 0..Timeout
        /\ Period \in Nat /\ Timeout \in Nat /\ 0 < Period /\ Period < Timeout
    BY ClientAssumption, TypeParts DEF ClockOK
  <1>2. CASE UNCHANGED <<hb, nap, late, left, beat, server>> /\ (cur' = "connect" => cur = "connect")
    BY <1>2 DEF Ahead, Beating
  <1>3. CASE Connect
    <2>1. hb' # "sleep"
      BY <1>3 DEF Connect, Finish, Ahead
    <2> QED  BY <2>1 DEF Ahead, Beating
  <1>4. CASE Quit \/ EndOfFile
    <2>1. hb' = "ended"
      BY <1>4 DEF Quit, EndOfFile, Finish
    <2> QED  BY <2>1 DEF Ahead, Beating
  <1>5. CASE Ask \/ Ignore \/ Request
    <2>1. UNCHANGED <<hb, nap, late, left, beat, server>>
      BY <1>5 DEF Ask, Ignore, Request, Send
    <2>2. cur' = "connect" => cur = "connect"
      BY <1>5 DEF Ask, Ignore, Request, Asking
    <2> QED  BY <1>2, <2>1, <2>2
  <1>6. CASE Receive
    <2>1. /\ UNCHANGED <<left, server, beat>> /\ cur # "connect" /\ cur' # "connect"
      BY <1>6 DEF Receive, Then
    <2>2. CASE UNCHANGED <<hb, nap, late>>
      BY <2>1, <2>2 DEF Ahead, Beating
    <2>3. CASE nap' = Period /\ late' = (left <= Period)
      <3>1. Beating' => ~(left <= Period)
        BY <2>3 DEF Beating
      <3> QED  BY <1>1, <2>1, <2>3, <3>1 DEF Ahead
    <2> QED  BY <1>6, <2>2, <2>3 DEF Receive, Starts
  <1>7. ASSUME NEW l \in Lines, Type(l) PROVE Ahead'
    BY <1>2, <1>7 DEF Type
  <1>8. CASE Beat
    <2>1. /\ beat' = (server = "open") /\ UNCHANGED <<cur, hb, late, server, left>>
      BY <1>8 DEF Beat
    <2>2. Beating' => Beating /\ beat'
      BY <2>1 DEF Beating
    <2> QED  BY <2>1, <2>2 DEF Ahead
  <1>9. CASE BeatFails
    <2>1. hb' = "ended"
      BY <1>9 DEF BeatFails
    <2> QED  BY <2>1 DEF Ahead, Beating
  <1>10. ASSUME NEW c, Answer(c) PROVE Ahead'
    BY <1>2, <1>10 DEF Answer
  <1>11. CASE NoAnswer \/ NoDatabase
    BY <1>2, <1>11 DEF NoAnswer, NoDatabase
  <1>12. ASSUME NEW m, Push(m) PROVE Ahead'
    BY <1>2, <1>12 DEF Push
  <1>13. CASE BeatArrives
    <2>1. left' = Timeout /\ nap' = nap /\ cur' = cur /\ hb' = hb
      BY <1>13 DEF BeatArrives
    <2> QED  BY <1>1, <2>1 DEF Ahead
  <1>14. CASE TimeOut \/ HangUp
    <2>1. server' = "closed" /\ cur' = cur /\ hb' = hb
      BY <1>14 DEF TimeOut, HangUp
    <2> QED  BY <2>1 DEF Ahead, Beating
  <1>15. CASE Tick
    <2>1. /\ UNCHANGED <<cur, hb, late, server, beat>> /\ ~beat
          /\ left' = left - 1
          /\ hb = "sleep" => nap > 0 /\ nap' = nap - 1
      BY <1>15 DEF Tick
    <2>2. Beating' => Beating /\ hb = "sleep"
      BY <2>1 DEF Beating
    <2>3. Beating => nap < left
      BY <2>1 DEF Ahead
    <2>4. Beating' => left' > 0 /\ nap' < left'
      BY <1>1, <2>1, <2>2, <2>3
    <2> QED  BY <2>1, <2>4 DEF Ahead
  <1>16. CASE UNCHANGED vars
    BY <1>2, <1>16 DEF vars
  <1> QED
    BY <1>3, <1>4, <1>5, <1>6, <1>7, <1>8, <1>9, <1>10, <1>11, <1>12, <1>13, <1>14, <1>15, <1>16
    DEF Next, HandleInput, Serve

(* For every time-out longer than the period, a client whose heartbeat       *)
(* thread runs, and did not begin within a period of the end of the          *)
(* connection, is not timed out, whatever else the two threads do.           *)
THEOREM KeptAliveHolds == Spec => KeptAlive
  <1>1. Ahead /\ [Next]_vars => [TimeOut => hb # "sleep" \/ late]_vars
    BY DEF Ahead, Beating, TimeOut
  <1> QED
    BY TypeInit, TypeNext, AheadInit, AheadNext, <1>1, PTL DEF Spec, KeptAlive
===============================================================================
