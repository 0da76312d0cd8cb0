------------------------------- MODULE Sessions -------------------------------
(***************************************************************************)
(* Who is logged in, and where.  sign_up, sign_in and q run on worker      *)
(* threads, close_clint on the reactor thread, and the asynchronous        *)
(* statements on the DbHandle thread.  Together they keep five records of  *)
(* the same thing: clint_fdtoname, clint_nametofd, user_status.is_online,  *)
(* the online_users set in Redis and redis_subscribed_channels.            *)
(*                                                                         *)
(* A Task and a Response name a connection by its descriptor number only.  *)
(*                                                                         *)
(* How clients behave is a parameter: each member of Courtesies is         *)
(* something a well-behaved client does that the server does not enforce.  *)
(*   "patient"      it neither hangs up nor sends another request while    *)
(*                  one is queued, unanswered, or still being handled      *)
(*                  (which goes on after the reply)                        *)
(*   "one_session"  a user signs up or in only when no other connection or *)
(*                  request of hers is alive, being opened or being closed *)
(*   "unhurried"    she signs in only when the INSERT of her sign_up and   *)
(*                  the UPDATEs of her last close have been executed       *)
(* Redis and MySQL are up throughout.                                      *)
(***************************************************************************)
EXTENDS Integers, Sequences, SequencesExt

CONSTANTS Fds, Users, Workers, Courtesies,
          Known,           \* users who signed up long ago
          MaxConns,        \* bound: connections ever accepted
          NoFd, Nobody

ASSUME SessionsAssumption ==
    /\ Courtesies \subseteq {"patient", "one_session", "unhurried"}
    /\ Known \subseteq Users /\ MaxConns \in Nat /\ NoFd \notin Fds /\ Nobody \notin Users

VARIABLES
    open,       \* DOMAIN client_buffers: live connections
    made,       \* connections accepted so far
    client,     \* the client at the other end of each fd
    tasks,      \* the worker pool's queue
    worker,     \* what each worker is doing
    resps,      \* resp_queue
    reactor,    \* what the reactor is doing
    fdName,     \* clint_fdtoname
    nameFd,     \* clint_nametofd
    accounts,   \* table user
    rows,       \* users with a row in user_status
    online,     \* users whose user_status row has is_online = 1
    cached,     \* online_users in Redis
    subs,       \* redis_subscribed_channels
    dbq         \* DbHandle's queue: rows to insert and to set is_online = 0

maps   == <<fdName, nameFd>>
signed == <<accounts, rows>>
status == <<signed, online, cached, subs>>
vars   == <<open, made, client, tasks, worker, resps, reactor, maps, status, dbq>>

Gone    == [st |-> "off", user |-> Nobody]
Resting == [at |-> "idle", fd |-> NoFd, user |-> Nobody]

Init ==
    /\ open = {} /\ made = 0
    /\ client = [f \in Fds |-> Gone]
    /\ tasks = <<>> /\ resps = <<>> /\ dbq = <<>>
    /\ worker = [w \in Workers |-> Resting]
    /\ reactor = Resting
    /\ fdName = [f \in Fds |-> Nobody] /\ nameFd = [u \in Users |-> NoFd]
    /\ online = {} /\ cached = {} /\ subs = {} /\ accounts = Known /\ rows = Known

-----------------------------------------------------------------------------
(* Clients. *)

(* Something of user u is still going on in the server. *)
Lingers(u) ==
    \/ \E f \in Fds : client[f].user = u \/ fdName[f] = u
    \/ nameFd[u] # NoFd \/ reactor.user = u
    \/ \E w \in Workers : worker[w].user = u
    \/ \E i \in 1..Len(tasks) : tasks[i].user = u

Handled(f) == \E w \in Workers : worker[w].fd = f

SendSignUp(f, u) ==
    /\ client[f].st = "new"
    /\ "patient" \in Courtesies => ~ Handled(f)
    /\ "one_session" \in Courtesies => ~ Lingers(u)
    /\ client' = [client EXCEPT ![f] = [st |-> "joining", user |-> u]]
    /\ tasks' = Append(tasks, [cmd |-> "sign_up", fd |-> f, user |-> u])
    /\ UNCHANGED <<open, made, worker, resps, reactor, maps, status, dbq>>

SendSignIn(f, u) ==
    /\ client[f].st = "new"
    /\ "patient" \in Courtesies => ~ Handled(f)
    /\ "one_session" \in Courtesies => ~ Lingers(u)
    /\ "unhurried" \in Courtesies => \A i \in 1..Len(dbq) : dbq[i].user # u
    /\ client' = [client EXCEPT ![f] = [st |-> "asked", user |-> u]]
    /\ tasks' = Append(tasks, [cmd |-> "sign_in", fd |-> f, user |-> u])
    /\ UNCHANGED <<open, made, worker, resps, reactor, maps, status, dbq>>

SendQuit(f) ==
    /\ client[f].st = "in"
    /\ "patient" \in Courtesies => ~ Handled(f)
    /\ client' = [client EXCEPT ![f].st = "quitting"]
    /\ tasks' = Append(tasks, [cmd |-> "q", fd |-> f, user |-> Nobody])
    /\ UNCHANGED <<open, made, worker, resps, reactor, maps, status, dbq>>

-----------------------------------------------------------------------------
(* The reactor thread. *)

(* accept: a new connection on any free descriptor number. *)
HandleNewConnect(f) ==
    /\ reactor = Resting
    /\ f \notin open /\ made < MaxConns
    /\ open' = open \cup {f}
    /\ made' = made + 1
    /\ client' = [client EXCEPT ![f] = [st |-> "new", user |-> Nobody]]
    /\ UNCHANGED <<tasks, worker, resps, reactor, maps, status, dbq>>

(* close_clint, first part: the buffer is erased, the descriptor closed; the *)
(* number is free for the next accept once close_clint has returned.         *)
CloseClint(f) ==
    IF f \in open
    THEN /\ open' = open \ {f}
         /\ client' = [client EXCEPT ![f] = Gone]
         /\ reactor' = [Resting EXCEPT !.at = "maps", !.fd = f]
    ELSE UNCHANGED <<open, client, reactor>>

(* The client hangs up (or goes silent) and the event loop notices. *)
HangUp(f) ==
    /\ reactor = Resting
    /\ f \in open
    /\ "patient" \in Courtesies => client[f].st \in {"new", "in"} /\ ~ Handled(f)
    /\ CloseClint(f)
    /\ UNCHANGED <<made, tasks, worker, resps, maps, status, dbq>>

(* The reply reaches whatever connection has that number now. *)
Receives(f, kind) ==
    client' = [client EXCEPT ![f].st =
                  IF f \notin open \/ @ \notin {"asked", "joining"} THEN @
                  ELSE IF kind = "ok" THEN "in" ELSE "new",
                             ![f].user =
                  IF f \in open /\ client[f].st \in {"asked", "joining"} /\ kind # "ok"
                  THEN Nobody ELSE @]

(* handle_response: send, and close if the response says so. *)
HandleResponse ==
    /\ reactor = Resting /\ resps # <<>>
    /\ resps' = Tail(resps)
    /\ IF Head(resps).kind = "bye"
       THEN CloseClint(Head(resps).fd)
       ELSE Receives(Head(resps).fd, Head(resps).kind) /\ UNCHANGED <<open, reactor>>
    /\ UNCHANGED <<made, tasks, worker, maps, status, dbq>>

(* Mutant: only the entry of the descriptor is removed. *)
CloseMapsHalf ==
    /\ reactor.at = "maps"
    /\ fdName' = [fdName EXCEPT ![reactor.fd] = Nobody]
    /\ reactor' = IF fdName[reactor.fd] = Nobody THEN Resting
                  ELSE [reactor EXCEPT !.at = "db", !.user = fdName[reactor.fd]]
    /\ UNCHANGED <<open, made, client, tasks, worker, resps, nameFd, status, dbq>>

(* Mutant: only the entry of the user is removed. *)
CloseMapsOther ==
    /\ reactor.at = "maps"
    /\ LET u == fdName[reactor.fd] IN
         IF u = Nobody
         THEN reactor' = Resting /\ UNCHANGED nameFd
         ELSE /\ nameFd' = [nameFd EXCEPT ![u] = NoFd]
              /\ reactor' = [reactor EXCEPT !.at = "db", !.user = u]
    /\ UNCHANGED <<open, made, client, tasks, worker, resps, fdName, status, dbq>>

(* Second part, under client_map_mutex: forget the pair of names.  Nothing   *)
(* more to do if nobody had signed in.                                       *)
CloseMaps ==
    /\ reactor.at = "maps"
    /\ LET u == fdName[reactor.fd] IN
         IF u = Nobody
         THEN reactor' = Resting /\ UNCHANGED maps
         ELSE /\ nameFd' = [nameFd EXCEPT ![u] = NoFd]
              /\ fdName' = [fdName EXCEPT ![reactor.fd] = Nobody]
              /\ reactor' = [reactor EXCEPT !.at = "db", !.user = u]
    /\ UNCHANGED <<open, made, client, tasks, worker, resps, status, dbq>>

CloseDb ==
    /\ reactor.at = "db"
    /\ dbq' = Append(dbq, [do |-> "offline", user |-> reactor.user])
    /\ reactor' = [reactor EXCEPT !.at = "cache"]
    /\ UNCHANGED <<open, made, client, tasks, worker, resps, maps, status>>

CloseCache ==
    /\ reactor.at = "cache"
    /\ cached' = cached \ {reactor.user}
    /\ reactor' = [reactor EXCEPT !.at = "unsub"]
    /\ UNCHANGED <<open, made, client, tasks, worker, resps, maps, signed, online, subs, dbq>>

CloseUnsubNot ==   \* mutant: the channel stays subscribed
    /\ reactor.at = "unsub"
    /\ reactor' = Resting
    /\ UNCHANGED <<open, made, client, tasks, worker, resps, maps, status, dbq>>

(* Under redis_mutex: unsubscribe and erase, if the set holds the user. *)
CloseUnsub ==
    /\ reactor.at = "unsub"
    /\ subs' = subs \ {reactor.user}
    /\ reactor' = Resting
    /\ UNCHANGED <<open, made, client, tasks, worker, resps, maps, signed, online, cached, dbq>>

-----------------------------------------------------------------------------
(* The worker threads. *)

At(w, l) == worker' = [worker EXCEPT ![w].at = l]
Rest(w)  == worker' = [worker EXCEPT ![w] = Resting]
EnResp(f, kind) == resps' = Append(resps, [fd |-> f, kind |-> kind])

TakeTask(w) ==
    /\ worker[w] = Resting /\ tasks # <<>>
    /\ tasks' = Tail(tasks)
    /\ worker' = [worker EXCEPT ![w] =
                     [at |-> Head(tasks).cmd, fd |-> Head(tasks).fd, user |-> Head(tasks).user]]
    /\ UNCHANGED <<open, made, client, resps, reactor, maps, status, dbq>>

(* sign_up: the account, unless the name is taken; its row of user_status is *)
(* only queued when the client is told.                                      *)
SignUpInsert(w) ==
    /\ worker[w].at = "sign_up" /\ worker[w].user \notin accounts
    /\ accounts' = accounts \cup {worker[w].user}
    /\ At(w, "row")
    /\ UNCHANGED <<open, made, client, tasks, resps, reactor, maps, rows, online, cached, subs, dbq>>

SignUpRow(w) ==
    /\ worker[w].at = "row"
    /\ dbq' = Append(dbq, [do |-> "insert", user |-> worker[w].user])
    /\ At(w, "welcome")
    /\ UNCHANGED <<open, made, client, tasks, resps, reactor, maps, status>>

SignUpOk(w) ==
    /\ worker[w].at = "welcome"
    /\ EnResp(worker[w].fd, "welcome")
    /\ Rest(w)
    /\ UNCHANGED <<open, made, client, tasks, reactor, maps, status, dbq>>

(* sign_up: the name is taken, or crypt_r fails.  sign_in: unknown user,     *)
(* wrong password, or a failing statement.                                   *)
Refuse(w) ==
    /\ worker[w].at \in {"sign_up", "sign_in"}
    /\ EnResp(worker[w].fd, "refused")
    /\ Rest(w)
    /\ UNCHANGED <<open, made, client, tasks, reactor, maps, status, dbq>>

(* The password is right: is_online = 1, synchronously.  The statement       *)
(* succeeds also when the row says so already, or when there is none yet.    *)
SignInSql(w) ==
    /\ worker[w].at = "sign_in" /\ worker[w].user \in accounts
    /\ online' = online \cup ({worker[w].user} \cap rows)
    /\ At(w, "maps")
    /\ UNCHANGED <<open, made, client, tasks, resps, reactor, maps, signed, cached, subs, dbq>>

(* Both maps, under client_map_mutex. *)
SignInMaps(w) ==
    /\ worker[w].at = "maps"
    /\ fdName' = [fdName EXCEPT ![worker[w].fd] = worker[w].user]
    /\ nameFd' = [nameFd EXCEPT ![worker[w].user] = worker[w].fd]
    /\ At(w, "cache")
    /\ UNCHANGED <<open, made, client, tasks, resps, reactor, status, dbq>>

(* The cache says online, and the client is told. *)
SignInCache(w) ==
    /\ worker[w].at = "cache"
    /\ cached' = cached \cup {worker[w].user}
    /\ At(w, "resp")
    /\ UNCHANGED <<open, made, client, tasks, resps, reactor, maps, signed, online, subs, dbq>>

SignInOk(w) ==
    /\ worker[w].at = "resp"
    /\ EnResp(worker[w].fd, "ok")
    /\ At(w, "sub")
    /\ UNCHANGED <<open, made, client, tasks, reactor, maps, status, dbq>>

(* Only now the channel: subscribe unless redis_subscribed_channels has it.  *)
(* (The unread messages that follow are the subject of module Delivery.)     *)
SignInSubscribe(w) ==
    /\ worker[w].at = "sub"
    /\ subs' = subs \cup {worker[w].user}
    /\ Rest(w)
    /\ UNCHANGED <<open, made, client, tasks, resps, reactor, maps, signed, online, cached, dbq>>

(* q: find out who the descriptor is; nobody signed in there, nothing done. *)
QuitWho(w) ==
    /\ worker[w].at = "q"
    /\ LET u == fdName[worker[w].fd] IN
         IF u = Nobody THEN Rest(w)
         ELSE worker' = [worker EXCEPT ![w].at = "q_db", ![w].user = u]
    /\ UNCHANGED <<open, made, client, tasks, resps, reactor, maps, status, dbq>>

QuitDb(w) ==
    /\ worker[w].at = "q_db"
    /\ dbq' = Append(dbq, [do |-> "offline", user |-> worker[w].user])
    /\ At(w, "q_unsub")
    /\ UNCHANGED <<open, made, client, tasks, resps, reactor, maps, status>>

QuitUnsub(w) ==
    /\ worker[w].at = "q_unsub"
    /\ subs' = subs \ {worker[w].user}
    /\ At(w, "q_bye")
    /\ UNCHANGED <<open, made, client, tasks, resps, reactor, maps, signed, online, cached, dbq>>

(* Mutant: the farewell does not ask for the connection to be closed. *)
QuitByeStay(w) ==
    /\ worker[w].at = "q_bye"
    /\ EnResp(worker[w].fd, "ok")
    /\ Rest(w)
    /\ UNCHANGED <<open, made, client, tasks, reactor, maps, status, dbq>>

(* "bye\n" is the response that en_resp marks close_after. *)
QuitBye(w) ==
    /\ worker[w].at = "q_bye"
    /\ EnResp(worker[w].fd, "bye")
    /\ Rest(w)
    /\ UNCHANGED <<open, made, client, tasks, reactor, maps, status, dbq>>

-----------------------------------------------------------------------------
(* The DbHandle thread, in order.  A new row says is_online = 0 by default;  *)
(* a second row for a user is refused.                                       *)
HandleDb ==
    /\ dbq # <<>>
    /\ dbq' = Tail(dbq)
    /\ IF Head(dbq).do = "insert"
       THEN rows' = rows \cup {Head(dbq).user} /\ UNCHANGED online
       ELSE online' = online \ {Head(dbq).user} /\ UNCHANGED rows
    /\ UNCHANGED <<open, made, client, tasks, worker, resps, reactor, maps, accounts, cached, subs>>

-----------------------------------------------------------------------------
WorkerStep(w) ==
    \/ TakeTask(w) \/ SignUpInsert(w) \/ SignUpRow(w) \/ SignUpOk(w) \/ Refuse(w)
    \/ SignInSql(w) \/ SignInMaps(w) \/ SignInCache(w) \/ SignInOk(w) \/ SignInSubscribe(w)
    \/ QuitWho(w) \/ QuitDb(w) \/ QuitUnsub(w) \/ QuitBye(w)
CloseStep == CloseMaps \/ CloseDb \/ CloseCache \/ CloseUnsub

Next == \/ \E f \in Fds : HandleNewConnect(f) \/ HangUp(f) \/ SendQuit(f)
                          \/ \E u \in Users : SendSignUp(f, u) \/ SendSignIn(f, u)
        \/ HandleResponse \/ CloseStep
        \/ \E w \in Workers : WorkerStep(w)
        \/ HandleDb

(* Every thread of the server is scheduled; clients do as they please. *)
Fairness == /\ WF_vars(HandleResponse) /\ WF_vars(CloseStep) /\ WF_vars(HandleDb)
            /\ \A w \in Workers : WF_vars(WorkerStep(w))

Spec == Init /\ [][Next]_vars
FairSpec == Spec /\ Fairness

-----------------------------------------------------------------------------
TypeOK ==
    /\ open \subseteq Fds /\ made \in 0..MaxConns
    /\ client \in [Fds -> [st : {"off", "new", "joining", "asked", "in", "quitting"},
                           user : Users \cup {Nobody}]]
    /\ tasks \in Seq([cmd : {"sign_up", "sign_in", "q"}, fd : Fds, user : Users \cup {Nobody}])
    /\ resps \in Seq([fd : Fds, kind : {"welcome", "ok", "refused", "bye"}])
    /\ \A w \in Workers : worker[w].fd \in Fds \cup {NoFd}
                          /\ worker[w].user \in Users \cup {Nobody}
    /\ reactor \in [at : {"idle", "maps", "db", "cache", "unsub"},
                    fd : Fds \cup {NoFd}, user : Users \cup {Nobody}]
    /\ fdName \in [Fds -> Users \cup {Nobody}] /\ nameFd \in [Users -> Fds \cup {NoFd}]
    /\ online \subseteq Users /\ cached \subseteq Users /\ subs \subseteq Users
    /\ accounts \subseteq Users /\ rows \subseteq accounts /\ online \subseteq rows
    /\ dbq \in Seq([do : {"insert", "offline"}, user : Users])

(* A message routed to user u by clint_nametofd reaches the connection that  *)
(* u herself signed in on, or is lost with that connection; never another's. *)
RoutedToOwner ==
    \A u \in Users : nameFd[u] \in open => client[nameFd[u]].user = u

(* The two maps are inverse to each other. *)
MapsInverse ==
    \A f \in Fds, u \in Users : fdName[f] = u <=> nameFd[u] = f

(* When the server has nothing left to do, the five records agree on who is *)
(* logged in: exactly the clients that were told "sign_in|1|ok" and have not *)
(* left have a name on their descriptor, is_online = 1, a place in           *)
(* online_users and a subscribed channel.                                    *)
Settled == /\ tasks = <<>> /\ resps = <<>> /\ dbq = <<>> /\ reactor = Resting
           /\ \A w \in Workers : worker[w] = Resting

LoggedIn == {client[f].user : f \in {g \in open : client[g].st = "in"}}
Named    == {u \in Users : nameFd[u] # NoFd}

RecordsAgree ==
    Settled => Named = LoggedIn /\ online = LoggedIn /\ cached = LoggedIn /\ subs = LoggedIn

(* A client that said q is disconnected. *)
QuitDisconnects == \A f \in Fds : client[f].st = "quitting" ~> client[f].st # "quitting"
===============================================================================
