---------------------------- MODULE Sessions_proofs ----------------------------
(***************************************************************************)
(* Proofs about Sessions, for any number of descriptors, users, workers    *)
(* and connections, and for clients that keep the courtesies named.        *)
(***************************************************************************)
EXTENDS Sessions, SequenceTheorems, TLAPS

Work  == {"idle", "sign_up", "row", "welcome", "sign_in", "maps", "cache", "resp", "sub",
          "q", "q_db", "q_unsub", "q_bye"}

Task  == [cmd : {"sign_up", "sign_in", "q"}, fd : Fds, user : Users \cup {Nobody}]
Reply == [fd : Fds, kind : {"welcome", "ok", "refused", "bye"}]
Stmt  == [do : {"insert", "offline"}, user : Users]

TypeClients ==
    /\ open \subseteq Fds /\ made \in 0..MaxConns
    /\ client \in [Fds -> [st : {"off", "new", "joining", "asked", "in", "quitting"},
                           user : Users \cup {Nobody}]]
TypeTasks == tasks \in Seq(Task) /\ \A t \in ToSet(tasks) : t.cmd # "q" => t.user \in Users
TypeReplies == resps \in Seq(Reply)
TypeStmts == dbq \in Seq(Stmt) /\ \A d \in ToSet(dbq) : d.do = "insert" => d.user \in accounts
TypeWorkers ==
    /\ worker \in [Workers -> [at : Work, fd : Fds \cup {NoFd}, user : Users \cup {Nobody}]]
    /\ \A w \in Workers : /\ worker[w].at = "idle" => worker[w] = Resting
                          /\ worker[w].at # "idle" => worker[w].fd \in Fds
                          /\ worker[w].at \notin {"idle", "q"} => worker[w].user \in Users
                          /\ worker[w].at = "row" => worker[w].user \in accounts
TypeReactor ==
    /\ reactor \in [at : {"idle", "maps", "db", "cache", "unsub"},
                    fd : Fds \cup {NoFd}, user : Users \cup {Nobody}]
    /\ reactor.at = "idle" => reactor = Resting
    /\ reactor.at # "idle" => reactor.fd \in Fds
    /\ reactor.at \notin {"idle", "maps"} => reactor.user \in Users
TypeRecords ==
    /\ fdName \in [Fds -> Users \cup {Nobody}] /\ nameFd \in [Users -> Fds \cup {NoFd}]
    /\ cached \subseteq Users /\ subs \subseteq Users
    /\ accounts \subseteq Users /\ rows \subseteq accounts /\ online \subseteq rows

Typing == /\ TypeClients /\ TypeTasks /\ TypeReplies /\ TypeStmts
          /\ TypeWorkers /\ TypeReactor /\ TypeRecords

(* The state of the client that a request, or the handling of it, is about.  *)
Phase(at, st) ==
    \/ at \in {"sign_up", "row", "welcome"} /\ st = "joining"
    \/ at \in {"sign_in", "maps", "cache", "resp"} /\ st = "asked"
    \/ at = "sub" /\ st \in {"asked", "in"}
    \/ at \in {"q", "q_db", "q_unsub", "q_bye"} /\ st = "quitting"

ReplyTo(kind, st) ==
    \/ kind \in {"welcome", "refused"} /\ st = "joining"
    \/ kind \in {"ok", "refused"} /\ st = "asked"
    \/ kind = "bye" /\ st = "quitting"

Distinct(s) == \A i, j \in 1..Len(s) : s[i].fd = s[j].fd => i = j

TaskOK(t) ==
    /\ t.fd \in open /\ Phase(t.cmd, client[t.fd].st)
    /\ t.cmd # "q" => t.user = client[t.fd].user
    /\ \A w \in Workers : worker[w].fd # t.fd
    /\ \A r \in ToSet(resps) : r.fd # t.fd

WorkerOK(w) ==
    /\ worker[w].fd \in open /\ Phase(worker[w].at, client[worker[w].fd].st)
    /\ worker[w].at # "q" => worker[w].user = client[worker[w].fd].user
    /\ \A v \in Workers : worker[v].fd = worker[w].fd => v = w
    /\ \A r \in ToSet(resps) : r.fd = worker[w].fd => worker[w].at = "sub" /\ r.kind = "ok"

Clients ==
    \A f \in Fds : /\ client[f].st = "off" <=> f \notin open
                   /\ client[f].user = Nobody <=> client[f].st \in {"off", "new"}
Asked   == \A t \in ToSet(tasks) : TaskOK(t)
InHand == \A w \in Workers : worker[w].at # "idle" => WorkerOK(w)
Answered == \A r \in ToSet(resps) : r.fd \in open /\ ReplyTo(r.kind, client[r.fd].st)

Requests ==
    /\ Distinct(tasks) /\ Distinct(resps)
    /\ Clients /\ Asked /\ InHand /\ Answered

Pending ==
    \A f \in Fds : client[f].st \in {"joining", "asked", "quitting"} =>
        \/ \E t \in ToSet(tasks) : t.fd = f
        \/ \E w \in Workers : worker[w].fd = f /\ worker[w].at # "sub"
        \/ \E r \in ToSet(resps) : r.fd = f

Closing(u, S) == reactor.at \in S /\ reactor.user = u

OneEach == \A f, g \in Fds : client[f].user # Nobody /\ client[f].user = client[g].user => f = g
OneName == \A f, g \in Fds : fdName[g] # Nobody /\ client[f].user = fdName[g] => f = g
Left    == \A f \in Fds : reactor.at \in {"db", "cache", "unsub"} =>
                             client[f].user # reactor.user /\ fdName[f] # reactor.user
Single  == OneEach /\ OneName /\ Left

(* A name is found where its owner is connected, or still where she was. *)
Owned ==
    /\ reactor.at = "maps" => reactor.fd \notin open
    /\ \A f \in Fds : fdName[f] # Nobody =>
          \/ f \in open /\ client[f].user = fdName[f]
          \/ f \notin open /\ reactor.at = "maps" /\ reactor.fd = f

(* It is there from SignInMaps on. *)
ByPhase  == \A f \in Fds :
    /\ client[f].st \in {"in", "quitting"} => fdName[f] = client[f].user
    /\ client[f].st \in {"new", "joining"} => fdName[f] = Nobody
ByTask   == \A t \in ToSet(tasks) : t.cmd = "sign_in" => fdName[t.fd] = Nobody
ByWorker == \A w \in Workers :
    /\ worker[w].at \in {"sign_in", "maps"} => fdName[worker[w].fd] = Nobody
    /\ worker[w].at \in {"cache", "resp", "sub"} => fdName[worker[w].fd] = worker[w].user
ByReply  == \A r \in ToSet(resps) :
    /\ r.kind = "refused" => fdName[r.fd] = Nobody
    /\ r.kind = "ok" => fdName[r.fd] # Nobody

Names == MapsInverse /\ Owned /\ ByPhase /\ ByTask /\ ByWorker /\ ByReply

Routing == Requests /\ Single /\ Names

Present(u) == nameFd[u] # NoFd
Doing(u, l) == \E w \in Workers : worker[w].at = l /\ worker[w].user = u

Cached ==
    /\ \A u \in cached : Present(u) \/ Closing(u, {"db", "cache"})
    /\ \A u \in Users : Present(u) => u \in cached \/ Doing(u, "cache")
Subscribed ==
    /\ \A u \in subs : Present(u) \/ Closing(u, {"db", "cache", "unsub"})
    /\ \A f \in Fds : client[f].st \in {"asked", "in"} /\ fdName[f] # Nobody =>
          client[f].user \in subs \/ \E l \in {"cache", "resp", "sub"} : Doing(client[f].user, l)
Online ==
    /\ \A u \in online : \/ Present(u) \/ Doing(u, "maps") \/ Closing(u, {"db"})
                         \/ \E d \in ToSet(dbq) : d.user = u /\ d.do = "offline"
    /\ \A f \in Fds : client[f].st \in {"asked", "in"} =>
          /\ fdName[f] # Nobody \/ Doing(client[f].user, "maps") => client[f].user \in online
          /\ \A d \in ToSet(dbq) : d.user # client[f].user
    /\ \A u \in accounts : \/ u \in rows \/ Doing(u, "row")
                           \/ \E d \in ToSet(dbq) : d.user = u /\ d.do = "insert"

-----------------------------------------------------------------------------
(* Queues as sets. *)

LEMMA AppendSet ==
  ASSUME NEW S, NEW s \in Seq(S), NEW e \in S
  PROVE  Append(s, e) \in Seq(S) /\ ToSet(Append(s, e)) = ToSet(s) \cup {e}
  <1>1. /\ Append(s, e) \in Seq(S) /\ Len(s) \in Nat /\ DOMAIN s = 1..Len(s)
        /\ DOMAIN Append(s, e) = 1..(Len(s) + 1)
        /\ Append(s, e)[Len(s) + 1] = e
        /\ \A i \in 1..Len(s) : Append(s, e)[i] = s[i]
    OBVIOUS
  <1>2. \A i \in 1..(Len(s) + 1) : i = Len(s) + 1 \/ i \in 1..Len(s)
    BY <1>1
  <1> QED  BY <1>1, <1>2 DEF ToSet

LEMMA TailSet ==
  ASSUME NEW S, NEW s \in Seq(S), s # <<>>
  PROVE  /\ Tail(s) \in Seq(S) /\ Head(s) \in ToSet(s) /\ Head(s) \in S
         /\ ToSet(s) = ToSet(Tail(s)) \cup {Head(s)}
  <1>1. /\ Tail(s) \in Seq(S) /\ Len(s) \in Nat /\ DOMAIN s = 1..Len(s) /\ Len(s) > 0
        /\ DOMAIN Tail(s) = 1..(Len(s) - 1) /\ Head(s) = s[1] /\ s[1] \in S
        /\ \A i \in 1..(Len(s) - 1) : Tail(s)[i] = s[i + 1]
    OBVIOUS
  <1>2. Head(s) \in ToSet(s) /\ ToSet(Tail(s)) \subseteq ToSet(s)
    BY <1>1 DEF ToSet
  <1>3. ASSUME NEW i \in 1..Len(s) PROVE s[i] = Head(s) \/ s[i] \in ToSet(Tail(s))
    <2>1. CASE i = 1
      BY <1>1, <2>1
    <2>2. CASE i # 1
      <3>1. i - 1 \in 1..(Len(s) - 1) /\ (i - 1) + 1 = i
        BY <1>1, <2>2
      <3>2. Tail(s)[i - 1] = s[i]
        BY <1>1, <3>1
      <3> QED  BY <1>1, <3>1, <3>2 DEF ToSet
    <2> QED  BY <2>1, <2>2
  <1>4. ToSet(s) \subseteq ToSet(Tail(s)) \cup {Head(s)}
    BY <1>1, <1>3 DEF ToSet
  <1> QED  BY <1>1, <1>2, <1>4

LEMMA InSet ==
  ASSUME NEW S, NEW s \in Seq(S)
  PROVE  ToSet(s) \subseteq S
  BY DEF ToSet

LEMMA AppendDistinct ==
  ASSUME NEW S, NEW s \in Seq(S), NEW e \in S, Distinct(s), \A t \in ToSet(s) : t.fd # e.fd
  PROVE  Distinct(Append(s, e))
  <1>1. /\ Len(Append(s, e)) = Len(s) + 1 /\ Append(s, e)[Len(s) + 1] = e
        /\ \A i \in 1..Len(s) : Append(s, e)[i] = s[i] /\ s[i] \in ToSet(s)
    BY DEF ToSet
  <1> QED  BY <1>1 DEF Distinct

LEMMA TailDistinct ==
  ASSUME NEW S, NEW s \in Seq(S), s # <<>>, Distinct(s)
  PROVE  Distinct(Tail(s)) /\ \A t \in ToSet(Tail(s)) : t.fd # Head(s).fd
  <1>1. /\ Len(Tail(s)) = Len(s) - 1 /\ Head(s) = s[1] /\ Len(s) \in Nat /\ Len(s) > 0
        /\ \A i \in 1..Len(Tail(s)) : Tail(s)[i] = s[i + 1] /\ i + 1 \in 1..Len(s)
    OBVIOUS
  <1>2. DOMAIN Tail(s) = 1..Len(Tail(s))
    OBVIOUS
  <1> QED  BY <1>1, <1>2 DEF Distinct, ToSet

-----------------------------------------------------------------------------
(* What the handlers do to the three queues. *)

LEMMA PutTask ==
  ASSUME TypeTasks, NEW e \in Task, e.cmd # "q" => e.user \in Users, tasks' = Append(tasks, e)
  PROVE  /\ TypeTasks' /\ ToSet(tasks)' = ToSet(tasks) \cup {e}
         /\ Distinct(tasks) /\ (\A t \in ToSet(tasks) : t.fd # e.fd) => Distinct(tasks)'
  <1>1. tasks' \in Seq(Task) /\ ToSet(tasks') = ToSet(tasks) \cup {e}
    BY AppendSet, Zenon DEF TypeTasks
  <1>2. Distinct(tasks) /\ (\A t \in ToSet(tasks) : t.fd # e.fd) => Distinct(tasks')
    BY AppendDistinct, Zenon DEF TypeTasks
  <1> QED  BY <1>1, <1>2 DEF TypeTasks

LEMMA GetTask ==
  ASSUME TypeTasks, tasks # <<>>, tasks' = Tail(tasks)
  PROVE  /\ TypeTasks' /\ ToSet(tasks) = ToSet(tasks)' \cup {Head(tasks)}
         /\ Head(tasks) \in Task
         /\ Head(tasks).cmd # "q" => Head(tasks).user \in Users
         /\ Distinct(tasks) => Distinct(tasks)' /\ \A t \in ToSet(tasks)' : t.fd # Head(tasks).fd
  <1>1. /\ tasks' \in Seq(Task) /\ Head(tasks) \in Task
        /\ ToSet(tasks) = ToSet(tasks') \cup {Head(tasks)}
    BY TailSet, Zenon DEF TypeTasks
  <1>2. Distinct(tasks) => Distinct(tasks') /\ \A t \in ToSet(tasks') : t.fd # Head(tasks).fd
    BY TailDistinct, Zenon DEF TypeTasks
  <1> QED  BY <1>1, <1>2 DEF TypeTasks

LEMMA PutReply ==
  ASSUME TypeReplies, NEW e \in Reply, resps' = Append(resps, e)
  PROVE  /\ TypeReplies' /\ ToSet(resps)' = ToSet(resps) \cup {e}
         /\ Distinct(resps) /\ (\A r \in ToSet(resps) : r.fd # e.fd) => Distinct(resps)'
  <1>1. resps' \in Seq(Reply) /\ ToSet(resps') = ToSet(resps) \cup {e}
    BY AppendSet, Zenon DEF TypeReplies
  <1>2. Distinct(resps) /\ (\A r \in ToSet(resps) : r.fd # e.fd) => Distinct(resps')
    BY AppendDistinct, Zenon DEF TypeReplies
  <1> QED  BY <1>1, <1>2 DEF TypeReplies

LEMMA GetReply ==
  ASSUME TypeReplies, resps # <<>>, resps' = Tail(resps)
  PROVE  /\ TypeReplies' /\ Head(resps) \in Reply
         /\ ToSet(resps) = ToSet(resps)' \cup {Head(resps)}
         /\ Distinct(resps) => Distinct(resps)' /\ \A r \in ToSet(resps)' : r.fd # Head(resps).fd
  <1>1. /\ resps' \in Seq(Reply) /\ Head(resps) \in Reply
        /\ ToSet(resps) = ToSet(resps') \cup {Head(resps)}
    BY TailSet, Zenon DEF TypeReplies
  <1>2. Distinct(resps) => Distinct(resps') /\ \A r \in ToSet(resps') : r.fd # Head(resps).fd
    BY TailDistinct, Zenon DEF TypeReplies
  <1> QED  BY <1>1, <1>2 DEF TypeReplies

LEMMA PutStmt ==
  ASSUME TypeStmts, NEW e \in Stmt, e.do = "insert" => e.user \in accounts,
         dbq' = Append(dbq, e), UNCHANGED accounts
  PROVE  TypeStmts' /\ ToSet(dbq)' = ToSet(dbq) \cup {e}
  <1>1. dbq' \in Seq(Stmt) /\ ToSet(dbq') = ToSet(dbq) \cup {e}
    BY AppendSet, Zenon DEF TypeStmts
  <1> QED  BY <1>1 DEF TypeStmts

LEMMA GetStmt ==
  ASSUME TypeStmts, dbq # <<>>, dbq' = Tail(dbq), UNCHANGED accounts
  PROVE  /\ TypeStmts' /\ ToSet(dbq) = ToSet(dbq)' \cup {Head(dbq)}
         /\ Head(dbq) \in Stmt
         /\ Head(dbq).do = "insert" => Head(dbq).user \in accounts
  <1>1. /\ dbq' \in Seq(Stmt) /\ Head(dbq) \in Stmt
        /\ ToSet(dbq) = ToSet(dbq') \cup {Head(dbq)}
    BY TailSet, Zenon DEF TypeStmts
  <1> QED  BY <1>1 DEF TypeStmts

LEMMA TypingInit == Init => Typing
  BY SessionsAssumption
  DEF Init, Typing, TypeClients, TypeTasks, TypeReplies, TypeStmts, TypeWorkers, TypeReactor,
      TypeRecords, Resting, Gone, Work, ToSet

LEMMA TypingNext == Typing /\ [Next]_vars => Typing'
  <1> SUFFICES ASSUME Typing, [Next]_vars PROVE Typing'
    OBVIOUS
  <1>0. /\ TypeClients /\ TypeTasks /\ TypeReplies /\ TypeStmts
        /\ TypeWorkers /\ TypeReactor /\ TypeRecords
    BY DEF Typing
  <1>a. UNCHANGED tasks => TypeTasks'
    BY <1>0 DEF TypeTasks
  <1>b. UNCHANGED resps => TypeReplies'
    BY <1>0 DEF TypeReplies
  <1>c. UNCHANGED <<dbq, accounts>> => TypeStmts'
    BY <1>0 DEF TypeStmts
  <1>d. UNCHANGED <<worker, accounts>> => TypeWorkers'
    BY <1>0 DEF TypeWorkers
  <1>e. UNCHANGED reactor => TypeReactor'
    BY <1>0 DEF TypeReactor
  <1>f. UNCHANGED <<maps, status>> => TypeRecords'
    BY <1>0 DEF TypeRecords, maps, status, signed
  <1>g. UNCHANGED <<open, made, client>> => TypeClients'
    BY <1>0 DEF TypeClients
  <1> USE SessionsAssumption DEF Typing, maps, status, signed
  <1>1. ASSUME NEW f \in Fds, HandleNewConnect(f) PROVE Typing'
    <2>1. TypeClients'
      BY <1>0, <1>1 DEF HandleNewConnect, TypeClients
    <2> QED  BY <1>1, <2>1, <1>a, <1>b, <1>c, <1>d, <1>e, <1>f DEF HandleNewConnect
  <1>2. ASSUME NEW f \in Fds, HangUp(f) PROVE Typing'
    <2>1. TypeClients'
      BY <1>0, <1>2 DEF HangUp, CloseClint, TypeClients, Gone
    <2>2. TypeReactor'
      BY <1>0, <1>2 DEF HangUp, CloseClint, TypeReactor, Resting
    <2> QED  BY <1>2, <2>1, <2>2, <1>a, <1>b, <1>c, <1>d, <1>f DEF HangUp
  <1>3. ASSUME NEW f \in Fds, SendQuit(f) PROVE Typing'
    <2>1. TypeClients'
      BY <1>0, <1>3 DEF SendQuit, TypeClients
    <2>2. TypeTasks'
      <3>1. [cmd |-> "q", fd |-> f, user |-> Nobody] \in Task
        BY DEF Task
      <3> QED  BY <1>0, <1>3, <3>1, PutTask DEF SendQuit
    <2> QED  BY <1>3, <2>1, <2>2, <1>b, <1>c, <1>d, <1>e, <1>f DEF SendQuit
  <1>4. ASSUME NEW f \in Fds, NEW u \in Users, SendSignUp(f, u) \/ SendSignIn(f, u) PROVE Typing'
    <2>1. TypeClients'
      BY <1>0, <1>4 DEF SendSignUp, SendSignIn, TypeClients
    <2>2. TypeTasks'
      <3>1. \A c \in {"sign_up", "sign_in"} : [cmd |-> c, fd |-> f, user |-> u] \in Task
        BY DEF Task
      <3> QED  BY <1>0, <1>4, <3>1, PutTask DEF SendSignUp, SendSignIn
    <2> QED  BY <1>4, <2>1, <2>2, <1>b, <1>c, <1>d, <1>e, <1>f DEF SendSignUp, SendSignIn
  <1>5. CASE HandleResponse
    <2>1. TypeReplies' /\ Head(resps).fd \in Fds
      BY <1>0, <1>5, GetReply DEF HandleResponse, Reply
    <2>2. TypeClients'
      <3> DEFINE g == Head(resps).fd
      <3>1. CASE Head(resps).kind = "bye"
        BY <1>0, <1>5, <2>1, <3>1 DEF HandleResponse, CloseClint, TypeClients, Gone
      <3>2. CASE Head(resps).kind # "bye"
        <4>1. /\ client' = [h \in Fds |-> client'[h]]
              /\ client'[g] \in [st : {"off", "new", "joining", "asked", "in", "quitting"},
                                 user : Users \cup {Nobody}]
              /\ \A h \in Fds \ {g} : client'[h] = client[h]
              /\ UNCHANGED <<open, made>>
          BY <1>0, <1>5, <2>1, <3>2 DEF HandleResponse, Receives, TypeClients
        <4> QED  BY <1>0, <4>1 DEF TypeClients
      <3> QED  BY <3>1, <3>2
    <2>3. TypeReactor'
      BY <1>0, <1>5, <2>1 DEF HandleResponse, CloseClint, TypeReactor, Resting
    <2> QED  BY <1>5, <2>1, <2>2, <2>3, <1>a, <1>c, <1>d, <1>f DEF HandleResponse
  <1>6. CASE CloseMaps
    <2>1. reactor.fd \in Fds /\ fdName[reactor.fd] \in Users \cup {Nobody}
      BY <1>0, <1>6 DEF CloseMaps, TypeReactor, TypeRecords
    <2>2. TypeReactor'
      <3>1. CASE fdName[reactor.fd] = Nobody
        BY <1>0, <1>6, <3>1 DEF CloseMaps, TypeReactor, Resting
      <3>2. CASE fdName[reactor.fd] # Nobody
        BY <1>0, <1>6, <2>1, <3>2 DEF CloseMaps, TypeReactor
      <3> QED  BY <3>1, <3>2
    <2>3. TypeRecords'
      BY <1>0, <1>6, <2>1 DEF CloseMaps, TypeRecords
    <2> QED  BY <1>6, <2>2, <2>3, <1>a, <1>b, <1>c, <1>d, <1>g DEF CloseMaps
  <1>7. CASE CloseDb
    <2>1. TypeReactor'
      BY <1>0, <1>7 DEF CloseDb, TypeReactor
    <2>2. TypeStmts'
      <3>1. [do |-> "offline", user |-> reactor.user] \in Stmt
        BY <1>0, <1>7 DEF CloseDb, TypeReactor, Stmt
      <3> QED  BY <1>0, <1>7, <3>1, PutStmt DEF CloseDb
    <2> QED  BY <1>7, <2>1, <2>2, <1>a, <1>b, <1>d, <1>f, <1>g DEF CloseDb
  <1>8. CASE CloseCache \/ CloseUnsub
    <2>1. TypeReactor'
      BY <1>0, <1>8 DEF CloseCache, CloseUnsub, TypeReactor, Resting
    <2>2. TypeRecords'
      BY <1>0, <1>8 DEF CloseCache, CloseUnsub, TypeRecords
    <2> QED  BY <1>8, <2>1, <2>2, <1>a, <1>b, <1>c, <1>d, <1>g DEF CloseCache, CloseUnsub
  <1>9. ASSUME NEW w \in Workers, TakeTask(w) PROVE Typing'
    <2>1. TypeTasks' /\ Head(tasks) \in Task /\ (Head(tasks).cmd # "q" => Head(tasks).user \in Users)
      BY <1>0, <1>9, GetTask DEF TakeTask
    <2>2. TypeWorkers'
      BY <1>0, <1>9, <2>1 DEF TakeTask, TypeWorkers, Task, Work
    <2> QED  BY <1>9, <2>1, <2>2, <1>b, <1>c, <1>e, <1>f, <1>g DEF TakeTask
  <1>10. ASSUME NEW w \in Workers, SignUpInsert(w) PROVE Typing'
    <2>1. TypeWorkers' /\ TypeStmts' /\ TypeRecords'
      BY <1>0, <1>10 DEF SignUpInsert, At, TypeWorkers, TypeStmts, TypeRecords, Work
    <2> QED  BY <1>10, <2>1, <1>a, <1>b, <1>e, <1>g DEF SignUpInsert
  <1>11. ASSUME NEW w \in Workers, SignUpRow(w) \/ QuitDb(w) PROVE Typing'
    <2>1. TypeWorkers'
      <3>1. CASE SignUpRow(w)
        BY <1>0, <3>1 DEF SignUpRow, At, TypeWorkers, Work
      <3>2. CASE QuitDb(w)
        BY <1>0, <3>2 DEF QuitDb, At, TypeWorkers, Work
      <3> QED  BY <1>11, <3>1, <3>2
    <2>2. TypeStmts'
      <3>1. CASE SignUpRow(w)
        <4>1. /\ [do |-> "insert", user |-> worker[w].user] \in Stmt
              /\ worker[w].user \in accounts
          BY <1>0, <3>1 DEF SignUpRow, TypeWorkers, Stmt
        <4> QED  BY <1>0, <3>1, <4>1, PutStmt DEF SignUpRow
      <3>2. CASE QuitDb(w)
        <4>1. [do |-> "offline", user |-> worker[w].user] \in Stmt
          BY <1>0, <3>2 DEF QuitDb, TypeWorkers, Stmt
        <4> QED  BY <1>0, <3>2, <4>1, PutStmt DEF QuitDb
      <3> QED  BY <1>11, <3>1, <3>2
    <2> QED  BY <1>11, <2>1, <2>2, <1>a, <1>b, <1>e, <1>f, <1>g DEF SignUpRow, QuitDb
  <1>12. ASSUME NEW w \in Workers, SignUpOk(w) \/ Refuse(w) \/ QuitBye(w) PROVE Typing'
    <2>1. TypeWorkers'
      BY <1>0, <1>12 DEF SignUpOk, Refuse, QuitBye, Rest, TypeWorkers, Work, Resting
    <2>2. TypeReplies'
      <3>1. \A k \in {"welcome", "refused", "bye"} : [fd |-> worker[w].fd, kind |-> k] \in Reply
        BY <1>0, <1>12 DEF SignUpOk, Refuse, QuitBye, TypeWorkers, Reply
      <3> QED  BY <1>0, <1>12, <3>1, PutReply DEF SignUpOk, Refuse, QuitBye, EnResp
    <2> QED  BY <1>12, <2>1, <2>2, <1>a, <1>c, <1>e, <1>f, <1>g DEF SignUpOk, Refuse, QuitBye
  <1>13. ASSUME NEW w \in Workers, SignInSql(w) \/ SignInMaps(w) \/ SignInCache(w) \/ QuitUnsub(w)
         PROVE  Typing'
    <2>1. TypeWorkers'
      BY <1>0, <1>13 DEF SignInSql, SignInMaps, SignInCache, QuitUnsub, At, TypeWorkers, Work
    <2>2. TypeRecords'
      BY <1>0, <1>13 DEF SignInSql, SignInMaps, SignInCache, QuitUnsub, TypeWorkers, TypeRecords
    <2> QED  BY <1>13, <2>1, <2>2, <1>a, <1>b, <1>c, <1>e, <1>g
             DEF SignInSql, SignInMaps, SignInCache, QuitUnsub
  <1>14. ASSUME NEW w \in Workers, SignInOk(w) PROVE Typing'
    <2>1. TypeWorkers'
      BY <1>0, <1>14 DEF SignInOk, At, TypeWorkers, Work
    <2>2. TypeReplies'
      <3>1. [fd |-> worker[w].fd, kind |-> "ok"] \in Reply
        BY <1>0, <1>14 DEF SignInOk, TypeWorkers, Reply
      <3> QED  BY <1>0, <1>14, <3>1, PutReply DEF SignInOk, EnResp
    <2> QED  BY <1>14, <2>1, <2>2, <1>a, <1>c, <1>e, <1>f, <1>g DEF SignInOk
  <1>15. ASSUME NEW w \in Workers, SignInSubscribe(w) PROVE Typing'
    <2>1. TypeWorkers'
      BY <1>0, <1>15 DEF SignInSubscribe, Rest, TypeWorkers, Work, Resting
    <2>2. TypeRecords'
      BY <1>0, <1>15 DEF SignInSubscribe, TypeWorkers, TypeRecords
    <2> QED  BY <1>15, <2>1, <2>2, <1>a, <1>b, <1>c, <1>e, <1>g DEF SignInSubscribe
  <1>16. ASSUME NEW w \in Workers, QuitWho(w) PROVE Typing'
    <2>1. worker[w].fd \in Fds /\ fdName[worker[w].fd] \in Users \cup {Nobody}
      BY <1>0, <1>16 DEF QuitWho, TypeWorkers, TypeRecords
    <2>2. TypeWorkers'
      BY <1>0, <1>16, <2>1 DEF QuitWho, Rest, TypeWorkers, Work, Resting
    <2> QED  BY <1>16, <2>2, <1>a, <1>b, <1>c, <1>e, <1>f, <1>g DEF QuitWho
  <1>17. CASE HandleDb
    <2>1. /\ TypeStmts' /\ Head(dbq) \in Stmt
          /\ Head(dbq).do = "insert" => Head(dbq).user \in accounts
      BY <1>0, <1>17, GetStmt DEF HandleDb
    <2>2. TypeRecords'
      BY <1>0, <1>17, <2>1 DEF HandleDb, TypeStmts, TypeRecords, Stmt
    <2> QED  BY <1>17, <2>1, <2>2, <1>a, <1>b, <1>d, <1>e, <1>g DEF HandleDb
  <1>18. CASE UNCHANGED vars
    BY <1>18, <1>a, <1>b, <1>c, <1>d, <1>e, <1>f, <1>g DEF vars
  <1> QED
    BY <1>1, <1>2, <1>3, <1>4, <1>5, <1>6, <1>7, <1>8, <1>9, <1>10, <1>11, <1>12, <1>13,
       <1>14, <1>15, <1>16, <1>17, <1>18
    DEF Next, WorkerStep, CloseStep

(* Whatever the clients do: descriptors, names and queue entries are what    *)
(* they should be, and a user has a row in user_status only if she has an    *)
(* account, and is online only if she has a row.                             *)
THEOREM TypeCorrect == Spec => []TypeOK
  <1>1. Typing => TypeOK
    BY DEF Typing, TypeOK, TypeClients, TypeTasks, TypeReplies, TypeStmts, TypeWorkers,
           TypeReactor, TypeRecords, Task, Reply, Stmt
  <1> QED  BY <1>1, TypingInit, TypingNext, PTL DEF Spec

-----------------------------------------------------------------------------
Polite == {"patient", "one_session"} \subseteq Courtesies

LEMMA RoutingInit == Init => Routing
  BY SessionsAssumption
  DEF Init, Routing, Requests, Clients, Asked, InHand, Answered, Distinct, Single, OneEach,
      OneName, Left, Names, MapsInverse, Owned, ByPhase, ByTask, ByWorker, ByReply, Resting, Gone, ToSet

(* close_clint of a connection about which nothing is under way any more. *)
LEMMA CloseKeepsRouting ==
  ASSUME Typing, Routing, NEW f \in Fds, f \in open, reactor = Resting, CloseClint(f),
         \A w \in Workers : worker[w].fd # f, \A t \in ToSet(tasks) : t.fd # f,
         ToSet(resps)' \subseteq ToSet(resps), Distinct(resps)',
         \A r \in ToSet(resps)' : r.fd # f, UNCHANGED <<tasks, worker, fdName, nameFd>>
  PROVE  Routing'
  <1>0. /\ TypeClients /\ TypeTasks /\ TypeReplies /\ TypeStmts
        /\ TypeWorkers /\ TypeReactor /\ TypeRecords
    BY DEF Typing
  <1>a. /\ Distinct(tasks) /\ Distinct(resps)
        /\ Clients /\ Asked /\ InHand /\ Answered
        /\ OneEach /\ OneName /\ Left /\ MapsInverse /\ Owned /\ ByPhase /\ ByTask /\ ByWorker /\ ByReply
    BY DEF Routing, Requests, Single, Names
  <1>c. ToSet(tasks)' = ToSet(tasks)
    OBVIOUS
  <1>1. /\ open' = open \ {f} /\ reactor'.at = "maps" /\ reactor'.fd = f
        /\ client'[f].st = "off" /\ client'[f].user = Nobody
        /\ client' = [client EXCEPT ![f] = client'[f]] /\ reactor.at = "idle"
    <2>1. client' = [client EXCEPT ![f] = Gone] /\ client'[f] = Gone
      BY <1>0 DEF CloseClint, TypeClients
    <2>2. reactor' = [Resting EXCEPT !.at = "maps", !.fd = f] /\ open' = open \ {f}
      BY DEF CloseClint
    <2>3. reactor'.at = "maps" /\ reactor'.fd = f /\ reactor.at = "idle"
      BY <2>2 DEF Resting
    <2>4. client'[f].st = "off" /\ client'[f].user = Nobody
      BY <2>1 DEF Gone
    <2> QED  BY <2>1, <2>2, <2>3, <2>4
  <1> USE SessionsAssumption
  <1>10. Clients'
    BY <1>0, <1>a, <1>c, <1>1 DEF Clients, TypeClients, TypeWorkers
  <1>11. Asked'
    BY <1>0, <1>a, <1>c, <1>1 DEF Asked, TaskOK, TypeClients, TypeWorkers
  <1>12. InHand'
    BY <1>0, <1>a, <1>c, <1>1 DEF InHand, WorkerOK, TypeClients, TypeWorkers
  <1>13. Answered'
    BY <1>0, <1>a, <1>c, <1>1 DEF Answered, TypeClients, TypeWorkers
  <1>14. OneEach'
    BY <1>0, <1>a, <1>c, <1>1 DEF OneEach, TypeClients, TypeWorkers
  <1>15. OneName'
    BY <1>0, <1>a, <1>c, <1>1 DEF OneName, TypeClients, TypeWorkers
  <1>16. Left'
    BY <1>0, <1>a, <1>c, <1>1 DEF Left, TypeClients, TypeWorkers
  <1>17. MapsInverse'
    BY <1>0, <1>a, <1>c, <1>1 DEF MapsInverse, TypeClients, TypeWorkers
  <1>18. Owned'
    BY <1>0, <1>a, <1>c, <1>1 DEF Owned, ByPhase, ByTask, ByWorker, ByReply, Clients,
       TypeClients, TypeWorkers
  <1>19. ByPhase'
    BY <1>0, <1>a, <1>c, <1>1 DEF ByPhase, Owned, TypeClients, TypeWorkers
  <1>20. ByTask'
    BY <1>0, <1>a, <1>c, <1>1 DEF ByTask, Owned, TypeClients, TypeWorkers
  <1>21. ByWorker'
    BY <1>0, <1>a, <1>c, <1>1 DEF ByWorker, Owned, TypeClients, TypeWorkers
  <1>22. ByReply'
    BY <1>0, <1>a, <1>c, <1>1 DEF ByReply, Owned, TypeClients, TypeWorkers
  <1> QED  BY <1>a, <1>10, <1>11, <1>12, <1>13, <1>14, <1>15, <1>16, <1>17, <1>18, <1>19,
              <1>20, <1>21, <1>22 DEF Routing, Requests, Single, Names

(* A step within a handler changes nothing that others see of it. *)
LEMMA StepKeepsRouting ==
  ASSUME Typing, Routing, NEW w \in Workers, NEW l, At(w, l),
         UNCHANGED <<open, client, tasks, resps, reactor, fdName, nameFd>>,
         \/ worker[w].at = "sign_up" /\ l = "row"
         \/ worker[w].at = "row" /\ l = "welcome"
         \/ worker[w].at = "sign_in" /\ l = "maps"
         \/ worker[w].at = "cache" /\ l = "resp"
         \/ worker[w].at = "q_db" /\ l = "q_unsub"
         \/ worker[w].at = "q_unsub" /\ l = "q_bye"
  PROVE  Routing'
  <1>0. /\ TypeClients /\ TypeTasks /\ TypeReplies /\ TypeStmts
        /\ TypeWorkers /\ TypeReactor /\ TypeRecords
    BY DEF Typing
  <1>a. /\ Distinct(tasks) /\ Distinct(resps)
        /\ Clients /\ Asked /\ InHand /\ Answered
        /\ OneEach /\ OneName /\ Left /\ MapsInverse /\ Owned /\ ByPhase /\ ByTask /\ ByWorker /\ ByReply
    BY DEF Routing, Requests, Single, Names
  <1>c. ToSet(tasks)' = ToSet(tasks) /\ ToSet(resps)' = ToSet(resps)
    OBVIOUS
  <1>1. /\ worker' = [worker EXCEPT ![w] = worker'[w]] /\ worker'[w].at = l
        /\ worker'[w].fd = worker[w].fd /\ worker'[w].user = worker[w].user
    BY <1>0 DEF At, TypeWorkers
  <1> USE SessionsAssumption
  <1>10. Clients'
    BY <1>0, <1>a, <1>c, <1>1 DEF Clients, TypeClients, TypeWorkers
  <1>11. Asked'
    BY <1>0, <1>a, <1>c, <1>1 DEF Asked, TaskOK, TypeClients, TypeWorkers
  <1>12. InHand'
    BY <1>0, <1>a, <1>c, <1>1 DEF InHand, WorkerOK, Phase, TypeClients, TypeWorkers
  <1>13. Answered'
    BY <1>0, <1>a, <1>c, <1>1 DEF Answered, TypeClients, TypeWorkers
  <1>14. OneEach'
    BY <1>0, <1>a, <1>c, <1>1 DEF OneEach, TypeClients, TypeWorkers
  <1>15. OneName'
    BY <1>0, <1>a, <1>c, <1>1 DEF OneName, TypeClients, TypeWorkers
  <1>16. Left'
    BY <1>0, <1>a, <1>c, <1>1 DEF Left, TypeClients, TypeWorkers
  <1>17. MapsInverse'
    BY <1>0, <1>a, <1>c, <1>1 DEF MapsInverse, TypeClients, TypeWorkers
  <1>18. Owned'
    BY <1>0, <1>a, <1>c, <1>1 DEF Owned, ByPhase, ByTask, ByWorker, ByReply, Clients,
       TypeClients, TypeWorkers
  <1>19. ByPhase'
    BY <1>0, <1>a, <1>c, <1>1 DEF ByPhase, Owned, TypeClients, TypeWorkers
  <1>20. ByTask'
    BY <1>0, <1>a, <1>c, <1>1 DEF ByTask, Owned, TypeClients, TypeWorkers
  <1>21. ByWorker'
    BY <1>0, <1>a, <1>c, <1>1 DEF ByWorker, Owned, TypeClients, TypeWorkers
  <1>22. ByReply'
    BY <1>0, <1>a, <1>c, <1>1 DEF ByReply, Owned, TypeClients, TypeWorkers
  <1> QED  BY <1>a, <1>10, <1>11, <1>12, <1>13, <1>14, <1>15, <1>16, <1>17, <1>18, <1>19,
              <1>20, <1>21, <1>22 DEF Routing, Requests, Single, Names

LEMMA RoutingNext == Polite /\ Typing /\ Routing /\ [Next]_vars => Routing'
  <1> SUFFICES ASSUME Polite, Typing, Routing, [Next]_vars PROVE Routing'
    OBVIOUS
  <1>0. /\ TypeClients /\ TypeTasks /\ TypeReplies /\ TypeStmts
        /\ TypeWorkers /\ TypeReactor /\ TypeRecords
    BY DEF Typing
  <1>a. /\ Distinct(tasks) /\ Distinct(resps)
        /\ Clients /\ Asked /\ InHand /\ Answered
        /\ OneEach /\ OneName /\ Left /\ MapsInverse /\ Owned /\ ByPhase /\ ByTask /\ ByWorker /\ ByReply
    BY DEF Routing, Requests, Single, Names
  <1>b. /\ ToSet(tasks) \subseteq Task /\ ToSet(resps) \subseteq Reply
    BY <1>0, InSet DEF TypeTasks, TypeReplies
  <1>c. /\ UNCHANGED tasks => ToSet(tasks)' = ToSet(tasks) /\ Distinct(tasks)'
        /\ UNCHANGED resps => ToSet(resps)' = ToSet(resps) /\ Distinct(resps)'
    BY <1>a
  <1> USE SessionsAssumption DEF maps, status, signed, Polite, Routing, Requests, Single, Names
  <1>1. ASSUME NEW f \in Fds, HandleNewConnect(f) PROVE Routing'
    <2>1. /\ f \notin open /\ reactor.at = "idle" /\ open' = open \cup {f}
          /\ client'[f].st = "new" /\ client'[f].user = Nobody
          /\ client' = [client EXCEPT ![f] = client'[f]]
          /\ UNCHANGED <<tasks, worker, resps, reactor, fdName, nameFd>>
      BY <1>0, <1>1 DEF HandleNewConnect, Resting, TypeClients
    <2>10. Clients'
      BY <1>0, <1>a, <2>1, <1>c DEF Clients, TypeClients, TypeWorkers
    <2>11. Asked'
      BY <1>0, <1>a, <2>1, <1>c DEF Asked, TaskOK, TypeClients, TypeWorkers
    <2>12. InHand'
      BY <1>0, <1>a, <2>1, <1>c DEF InHand, WorkerOK, TypeClients, TypeWorkers
    <2>13. Answered'
      BY <1>0, <1>a, <2>1, <1>c DEF Answered, TypeClients, TypeWorkers
    <2>14. OneEach'
      BY <1>0, <1>a, <2>1, <1>c DEF OneEach, TypeClients, TypeWorkers
    <2>15. OneName'
      BY <1>0, <1>a, <2>1, <1>c DEF OneName, TypeClients, TypeWorkers
    <2>16. Left'
      BY <1>0, <1>a, <2>1, <1>c DEF Left, TypeClients, TypeWorkers
    <2>17. MapsInverse'
      BY <1>0, <1>a, <2>1, <1>c DEF MapsInverse, TypeClients, TypeWorkers
    <2>18. Owned'
      BY <1>0, <1>a, <2>1, <1>c DEF Owned, ByPhase, ByTask, ByWorker, ByReply, Clients,
         TypeClients, TypeWorkers
    <2>19. ByPhase'
      BY <1>0, <1>a, <2>1, <1>c DEF ByPhase, Owned, TypeClients, TypeWorkers
    <2>20. ByTask'
      BY <1>0, <1>a, <2>1, <1>c DEF ByTask, Owned, TypeClients, TypeWorkers
    <2>21. ByWorker'
      BY <1>0, <1>a, <2>1, <1>c DEF ByWorker, Owned, TypeClients, TypeWorkers
    <2>22. ByReply'
      BY <1>0, <1>a, <2>1, <1>c DEF ByReply, Owned, TypeClients, TypeWorkers
    <2> QED  BY <1>a, <2>1, <1>c, <2>10, <2>11, <2>12, <2>13, <2>14, <2>15, <2>16, <2>17,
                <2>18, <2>19, <2>20, <2>21, <2>22 DEF Asked, InHand
  <1>2. ASSUME NEW f \in Fds, HangUp(f) PROVE Routing'
    <2>1. /\ f \in open /\ reactor = Resting /\ CloseClint(f)
          /\ client[f].st \in {"new", "in"} /\ \A w \in Workers : worker[w].fd # f
          /\ UNCHANGED <<tasks, worker, resps, fdName, nameFd>>
      BY <1>2 DEF HangUp, Handled
    <2>2. /\ \A t \in ToSet(tasks) : t.fd # f
          /\ \A r \in ToSet(resps) : r.fd # f
      BY <1>a, <1>b, <2>1 DEF Asked, Answered, TaskOK, ReplyTo, Phase, Task
    <2> QED  BY <1>a, <1>c, <2>1, <2>2, CloseKeepsRouting
  <1>3. ASSUME NEW f \in Fds, SendQuit(f) PROVE Routing'
    <2> DEFINE e == [cmd |-> "q", fd |-> f, user |-> Nobody]
    <2>1. e \in Task /\ e.cmd = "q" /\ e.fd = f
      BY DEF Task
    <2>2. /\ client[f].st = "in" /\ client'[f].st = "quitting" /\ client'[f].user = client[f].user
          /\ client' = [client EXCEPT ![f] = client'[f]] /\ \A w \in Workers : worker[w].fd # f
          /\ tasks' = Append(tasks, e)
          /\ UNCHANGED <<open, worker, resps, reactor, fdName, nameFd>>
      BY <1>0, <1>3 DEF SendQuit, Handled, TypeClients
    <2>3. /\ \A t \in ToSet(tasks) : t.fd # f
          /\ \A r \in ToSet(resps) : r.fd # f
      BY <1>a, <1>b, <2>2 DEF Asked, Answered, TaskOK, ReplyTo, Phase, Task
    <2>4. ToSet(tasks)' = ToSet(tasks) \cup {e} /\ Distinct(tasks)'
      BY <1>0, <1>a, <2>1, <2>2, <2>3, PutTask
    <2> HIDE DEF e
    <2>10. Clients'
      BY <1>0, <1>a, <2>1, <2>2, <2>3, <2>4, <1>b, <1>c DEF Clients, TypeClients, TypeWorkers,
         Task
    <2>11. ASSUME NEW t \in ToSet(tasks)' PROVE TaskOK(t)'
      <3>1. CASE t = e
        <4>0. client[f].st = "in"
          BY <2>2
        <4>1. f \in open
          BY <1>a, <4>0 DEF Clients
        <4> QED  BY <1>c, <2>1, <2>2, <2>3, <3>1, <4>1 DEF TaskOK, Phase
      <3>2. CASE t # e
        <4>1. t \in ToSet(tasks) /\ TaskOK(t) /\ t.fd # f /\ t.fd \in Fds
          BY <1>a, <1>b, <2>3, <2>4, <3>2 DEF Asked, Task
        <4> QED  BY <1>0, <1>c, <2>2, <4>1 DEF TaskOK, TypeClients
      <3> QED  BY <3>1, <3>2
    <2>12. InHand'
      BY <1>0, <1>a, <2>1, <2>2, <2>3, <2>4, <1>b, <1>c DEF InHand, WorkerOK, Phase,
         TypeClients, TypeWorkers, Task
    <2>13. Answered'
      BY <1>0, <1>a, <2>1, <2>2, <2>3, <2>4, <1>b, <1>c DEF Answered, ReplyTo, TypeClients,
         TypeWorkers, Task
    <2>14. OneEach'
      BY <1>0, <1>a, <2>1, <2>2, <2>3, <2>4, <1>b, <1>c DEF OneEach, TypeClients, TypeWorkers,
         Task
    <2>15. OneName'
      BY <1>0, <1>a, <2>1, <2>2, <2>3, <2>4, <1>b, <1>c DEF OneName, TypeClients, TypeWorkers,
         Task
    <2>16. Left'
      BY <1>0, <1>a, <2>1, <2>2, <2>3, <2>4, <1>b, <1>c DEF Left, TypeClients, TypeWorkers, Task
    <2>17. MapsInverse'
      BY <1>0, <1>a, <2>1, <2>2, <2>3, <2>4, <1>b, <1>c DEF MapsInverse, TypeClients,
         TypeWorkers, Task
    <2>18. Owned'
      BY <1>0, <1>a, <2>1, <2>2, <2>3, <2>4, <1>b, <1>c DEF Owned, ByPhase, ByTask, ByWorker,
         ByReply, Clients, TypeClients, TypeWorkers, Task
    <2>19. ByPhase'
      BY <1>0, <1>a, <2>1, <2>2, <2>3, <2>4, <1>b, <1>c DEF ByPhase, Owned, TypeClients,
         TypeWorkers, Task
    <2>20. ByTask'
      BY <1>0, <1>a, <2>1, <2>2, <2>3, <2>4, <1>b, <1>c DEF ByTask, Owned, TypeClients,
         TypeWorkers, Task
    <2>21. ByWorker'
      BY <1>0, <1>a, <2>1, <2>2, <2>3, <2>4, <1>b, <1>c DEF ByWorker, Owned, TypeClients,
         TypeWorkers, Task
    <2>22. ByReply'
      BY <1>0, <1>a, <2>1, <2>2, <2>3, <2>4, <1>b, <1>c DEF ByReply, Owned, TypeClients,
         TypeWorkers, Task
    <2> QED  BY <1>a, <2>1, <2>2, <2>3, <2>4, <1>b, <1>c, <2>10, <2>11, <2>12, <2>13, <2>14,
                <2>15, <2>16, <2>17, <2>18, <2>19, <2>20, <2>21, <2>22 DEF Asked, InHand
  <1>4. ASSUME NEW f \in Fds, NEW u \in Users, NEW c \in {"sign_up", "sign_in"},
                \/ c = "sign_up" /\ SendSignUp(f, u)
                \/ c = "sign_in" /\ SendSignIn(f, u)
         PROVE  Routing'
    <2> DEFINE e == [cmd |-> c, fd |-> f, user |-> u]
    <2>1. e \in Task /\ e.cmd = c /\ e.fd = f /\ e.user = u
      BY DEF Task
    <2>2. /\ client[f].st = "new" /\ client'[f].user = u /\ Phase(c, client'[f].st)
          /\ client'[f].st \in {"joining", "asked"}
          /\ client' = [client EXCEPT ![f] = client'[f]] /\ \A w \in Workers : worker[w].fd # f
          /\ tasks' = Append(tasks, e) /\ ~ Lingers(u)
          /\ UNCHANGED <<open, worker, resps, reactor, fdName, nameFd>>
      BY <1>0, <1>4 DEF SendSignUp, SendSignIn, Handled, TypeClients, Phase
    <2>3. /\ \A t \in ToSet(tasks) : t.fd # f
          /\ \A r \in ToSet(resps) : r.fd # f
      BY <1>a, <1>b, <2>2 DEF Asked, Answered, TaskOK, ReplyTo, Phase, Task
    <2>4. ToSet(tasks)' = ToSet(tasks) \cup {e} /\ Distinct(tasks)'
      BY <1>0, <1>a, <2>1, <2>2, <2>3, PutTask
    <2>5. /\ \A g \in Fds : client[g].user # u /\ fdName[g] # u
          /\ reactor.user # u
      BY <2>2 DEF Lingers
    <2> HIDE DEF e
    <2>10. Clients'
      BY <1>0, <1>a, <2>1, <2>2, <2>3, <2>4, <2>5, <1>b, <1>c DEF Clients, TypeClients,
         TypeWorkers, Task
    <2>11. ASSUME NEW t \in ToSet(tasks)' PROVE TaskOK(t)'
      <3>1. CASE t = e
        BY <1>0, <1>a, <2>1, <2>2, <2>3, <1>c, <3>1 DEF TaskOK, Clients, TypeClients
      <3>2. CASE t # e
        <4>1. t \in ToSet(tasks) /\ TaskOK(t) /\ t.fd # f /\ t.fd \in Fds
          BY <1>a, <1>b, <2>3, <2>4, <3>2 DEF Asked, Task
        <4> QED  BY <1>0, <1>c, <2>2, <4>1 DEF TaskOK, TypeClients
      <3> QED  BY <3>1, <3>2
    <2>12. InHand'
      BY <1>0, <1>a, <2>1, <2>2, <2>3, <2>4, <2>5, <1>b, <1>c DEF InHand, WorkerOK,
         TypeClients, TypeWorkers, Task
    <2>13. Answered'
      BY <1>0, <1>a, <2>1, <2>2, <2>3, <2>4, <2>5, <1>b, <1>c DEF Answered, ReplyTo,
         TypeClients, TypeWorkers, Task
    <2>14. OneEach'
      BY <1>0, <1>a, <2>1, <2>2, <2>3, <2>4, <2>5, <1>b, <1>c DEF OneEach, TypeClients,
         TypeWorkers, Task
    <2>15. OneName'
      BY <1>0, <1>a, <2>1, <2>2, <2>3, <2>4, <2>5, <1>b, <1>c DEF OneName, TypeClients,
         TypeWorkers, Task
    <2>16. Left'
      BY <1>0, <1>a, <2>1, <2>2, <2>3, <2>4, <2>5, <1>b, <1>c DEF Left, TypeClients,
         TypeWorkers, Task
    <2>17. MapsInverse'
      BY <1>0, <1>a, <2>1, <2>2, <2>3, <2>4, <2>5, <1>b, <1>c DEF MapsInverse, TypeClients,
         TypeWorkers, Task
    <2>18. Owned'
      BY <1>0, <1>a, <2>1, <2>2, <2>3, <2>4, <2>5, <1>b, <1>c DEF Owned, ByPhase, ByTask,
         ByWorker, ByReply, Clients, TypeClients, TypeWorkers, Task
    <2>19. ByPhase'
      BY <1>0, <1>a, <2>1, <2>2, <2>3, <2>4, <2>5, <1>b, <1>c DEF ByPhase, Owned, TypeClients,
         TypeWorkers, Task
    <2>20. ByTask'
      <3>1. fdName[f] = Nobody
        BY <1>a, <2>2 DEF ByPhase
      <3> QED  BY <1>a, <2>1, <2>2, <2>4, <3>1 DEF ByTask
    <2>21. ByWorker'
      BY <1>0, <1>a, <2>1, <2>2, <2>3, <2>4, <2>5, <1>b, <1>c DEF ByWorker, Owned, TypeClients,
         TypeWorkers, Task
    <2>22. ByReply'
      BY <1>0, <1>a, <2>1, <2>2, <2>3, <2>4, <2>5, <1>b, <1>c DEF ByReply, Owned, TypeClients,
         TypeWorkers, Task
    <2> QED  BY <1>a, <2>1, <2>2, <2>3, <2>4, <2>5, <1>b, <1>c, <2>10, <2>11, <2>12, <2>13,
                <2>14, <2>15, <2>16, <2>17, <2>18, <2>19, <2>20, <2>21, <2>22 DEF Asked, InHand
  <1>5. CASE HandleResponse
    <2> DEFINE e == Head(resps)  g == Head(resps).fd
    <2>1. /\ e \in Reply /\ ToSet(resps) = ToSet(resps)' \cup {e} /\ Distinct(resps)'
          /\ \A r \in ToSet(resps)' : r.fd # g
      BY <1>0, <1>5, <1>a, GetReply DEF HandleResponse
    <2>2. /\ g \in open /\ g \in Fds /\ ReplyTo(e.kind, client[g].st)
          /\ reactor = Resting /\ reactor.at = "idle"
          /\ UNCHANGED <<tasks, worker, fdName, nameFd>>
      BY <1>5, <1>a, <2>1 DEF HandleResponse, Answered, Reply, Resting
    <2>3. /\ \A t \in ToSet(tasks) : t.fd # g
          /\ \A w \in Workers : worker[w].fd = g => worker[w].at = "sub" /\ e.kind = "ok"
      BY <1>0, <1>a, <2>1, <2>2 DEF Asked, TaskOK, InHand, WorkerOK, TypeWorkers, Resting
    <2>4. CASE e.kind = "bye"
      <3>1. CloseClint(g)
        BY <1>5, <2>4 DEF HandleResponse
      <3> QED  BY <1>a, <1>c, <2>1, <2>2, <2>3, <2>4, <3>1, CloseKeepsRouting
    <2>5. CASE e.kind # "bye"
      <3>1. /\ UNCHANGED <<open, reactor>> /\ client' = [client EXCEPT ![g] = client'[g]]
            /\ IF e.kind = "ok" THEN client'[g].st = "in" /\ client'[g].user = client[g].user
               ELSE client'[g].st = "new" /\ client'[g].user = Nobody
        BY <1>0, <1>5, <2>2, <2>5 DEF HandleResponse, Receives, ReplyTo, TypeClients
      <3>2. e.fd = g /\ IF e.kind = "ok" THEN fdName[g] # Nobody ELSE fdName[g] = Nobody
        BY <1>a, <2>1, <2>2, <2>5 DEF ByReply, ByPhase, ReplyTo, Reply
      <3>3. fdName[g] # Nobody => client[g].user = fdName[g]
        BY <1>a, <2>2 DEF Owned
      <3> HIDE DEF e, g
      <3>10. Clients'
        BY <1>0, <1>a, <2>1, <2>2, <2>3, <2>5, <3>1, <1>b, <1>c DEF Clients, ReplyTo,
           TypeClients, TypeWorkers, Reply
      <3>11. Asked'
        BY <1>0, <1>a, <2>1, <2>2, <2>3, <2>5, <3>1, <1>b, <1>c DEF Asked, TaskOK, Phase,
           TypeClients, TypeWorkers, Reply
      <3>12. InHand'
        BY <1>0, <1>a, <2>1, <2>2, <2>3, <2>5, <3>1, <1>b, <1>c DEF InHand, WorkerOK, Phase,
           TypeClients, TypeWorkers, Reply
      <3>13. Answered'
        BY <1>0, <1>a, <2>1, <2>2, <2>3, <2>5, <3>1, <1>b, <1>c DEF Answered, ReplyTo,
           TypeClients, TypeWorkers, Reply
      <3>14. OneEach'
        BY <1>0, <2>3, <2>5, <3>1 DEF OneEach, ReplyTo, TypeClients, TypeWorkers, Reply
      <3>15. OneName'
        BY <1>0, <1>a, <2>1, <2>2, <2>3, <2>5, <3>1, <1>b, <1>c DEF OneName, ReplyTo,
           TypeClients, TypeWorkers, Reply
      <3>16. Left'
        BY <1>0, <1>a, <2>1, <2>2, <2>3, <2>5, <3>1, <1>b, <1>c DEF Left, ReplyTo, TypeClients,
           TypeWorkers, Reply
      <3>17. MapsInverse'
        BY <1>0, <1>a, <2>1, <2>2, <2>3, <2>5, <3>1, <1>b, <1>c DEF MapsInverse, ReplyTo,
           TypeClients, TypeWorkers, Reply
      <3>18. Owned'
        BY <1>0, <1>a, <2>2, <3>1, <3>2, <3>3 DEF Owned, TypeClients
      <3>19. ByPhase'
        BY <1>0, <1>a, <2>2, <3>1, <3>2, <3>3 DEF ByPhase, TypeClients
      <3>20. ByTask'
        BY <1>0, <1>a, <2>1, <2>2, <2>3, <2>5, <3>1, <1>b, <1>c DEF ByTask, ReplyTo, Owned,
           TypeClients, TypeWorkers, Reply
      <3>21. ByWorker'
        BY <1>0, <1>a, <2>1, <2>2, <2>3, <2>5, <3>1, <1>b, <1>c DEF ByWorker, ReplyTo, Owned,
           TypeClients, TypeWorkers, Reply
      <3>22. ByReply'
        BY <1>a, <2>1, <2>2 DEF ByReply
      <3> QED  BY <1>a, <2>1, <2>2, <3>10, <3>11, <3>12, <3>13, <3>14, <3>15, <3>16, <3>17,
                  <3>18, <3>19, <3>20, <3>21, <3>22 DEF Asked, InHand
    <2> QED  BY <2>4, <2>5
  <1>6. CASE CloseMaps
    <2> DEFINE g == reactor.fd  u == fdName[reactor.fd]
    <2>1. /\ g \in Fds /\ g \notin open /\ reactor.at = "maps" /\ u \in Users \cup {Nobody}
          /\ UNCHANGED <<open, client, tasks, worker, resps>>
      BY <1>0, <1>6, <1>a DEF CloseMaps, Owned, TypeReactor, TypeRecords
    <2>2. \/ u = Nobody /\ reactor'.at = "idle" /\ reactor'.user = Nobody /\ UNCHANGED <<fdName, nameFd>>
          \/ /\ u # Nobody /\ reactor'.at = "db" /\ reactor'.user = u
             /\ nameFd' = [nameFd EXCEPT ![u] = NoFd] /\ fdName' = [fdName EXCEPT ![g] = Nobody]
      <3>1. CASE u = Nobody
        BY <1>6, <3>1 DEF CloseMaps, Resting
      <3>2. CASE u # Nobody
        BY <1>0, <1>6, <3>2 DEF CloseMaps, TypeReactor
      <3> QED  BY <3>1, <3>2
    <2>10. Clients'
      BY <1>0, <2>1 DEF Clients, TypeClients, TypeWorkers, TypeRecords
    <2>11. Asked'
      BY <1>0, <2>1 DEF Asked, TaskOK, TypeClients, TypeWorkers, TypeRecords
    <2>12. InHand'
      BY <1>0, <2>1 DEF InHand, WorkerOK, TypeClients, TypeWorkers, TypeRecords
    <2>13. Answered'
      BY <1>0, <2>1 DEF Answered, TypeClients, TypeWorkers, TypeRecords
    <2>14. OneEach'
      BY <1>0, <2>1 DEF OneEach, Clients, MapsInverse, TypeClients, TypeWorkers, TypeRecords
    <2>15. OneName'
      BY <1>0, <1>a, <2>1, <2>2, <1>b, <1>c DEF OneName, Clients, MapsInverse, TypeClients,
         TypeWorkers, TypeRecords
    <2>16. Left'
      <3>1. \A f \in Fds : u # Nobody => client[f].user # u /\ (f # g => fdName[f] # u)
        <4>1. client[g].user = Nobody
          BY <2>1 DEF Clients
        <4>2. ASSUME NEW f \in Fds, u # Nobody, fdName[f] = u PROVE f = g
          BY <1>0, <1>a, <2>1, <4>2 DEF MapsInverse, TypeRecords
        <4> QED  BY <1>a, <2>1, <4>1, <4>2 DEF OneName
      <3> QED  BY <1>0, <2>1, <2>2, <3>1 DEF Left, TypeRecords
    <2>17. MapsInverse'
      BY <1>0, <1>a, <2>1, <2>2, <1>b, <1>c DEF MapsInverse, TypeClients, TypeWorkers,
         TypeRecords
    <2>18. Owned'
      BY <1>0, <1>a, <2>1, <2>2, <1>b, <1>c DEF Owned, ByPhase, ByTask, ByWorker, ByReply,
         Clients, TypeClients, TypeWorkers, TypeRecords
    <2>19. ByPhase'
      BY <1>0, <1>a, <2>1, <2>2 DEF ByPhase, Clients, TypeRecords
    <2>20. ByTask'
      BY <1>0, <1>a, <1>b, <1>c, <2>1, <2>2 DEF ByTask, Asked, TaskOK, Task, TypeRecords
    <2>21. ByWorker'
      BY <1>0, <1>a, <2>1, <2>2 DEF ByWorker, InHand, WorkerOK, TypeWorkers, TypeRecords
    <2>22. ByReply'
      BY <1>0, <1>a, <1>b, <1>c, <2>1, <2>2 DEF ByReply, Answered, Reply, TypeRecords
    <2> QED  BY <1>a, <2>1, <2>2, <1>b, <1>c, <2>10, <2>11, <2>12, <2>13, <2>14, <2>15, <2>16,
                <2>17, <2>18, <2>19, <2>20, <2>21, <2>22 DEF Asked, InHand
  <1>7. CASE CloseDb \/ CloseCache \/ CloseUnsub
    <2>1. /\ reactor.at \in {"db", "cache", "unsub"} /\ reactor'.at \in {"idle", "cache", "unsub"}
          /\ reactor'.at # "idle" => reactor'.user = reactor.user
          /\ UNCHANGED <<open, client, tasks, worker, resps, fdName, nameFd>>
      BY <1>0, <1>7 DEF CloseDb, CloseCache, CloseUnsub, Resting, TypeReactor
    <2>10. Clients'
      BY <1>0, <1>a, <2>1, <1>b, <1>c DEF Clients, TypeClients, TypeWorkers
    <2>11. Asked'
      BY <2>1 DEF Asked, TaskOK, TypeClients, TypeWorkers
    <2>12. InHand'
      BY <2>1 DEF InHand, WorkerOK, TypeClients, TypeWorkers
    <2>13. Answered'
      BY <2>1 DEF Answered, TypeClients, TypeWorkers
    <2>14. OneEach'
      BY <2>1 DEF OneEach, TypeClients, TypeWorkers
    <2>15. OneName'
      BY <2>1 DEF OneName, TypeClients, TypeWorkers
    <2>16. Left'
      BY <2>1 DEF Left, TypeClients, TypeWorkers
    <2>17. MapsInverse'
      BY <2>1 DEF MapsInverse, TypeClients, TypeWorkers
    <2>18. Owned'
      BY <2>1 DEF Owned, ByPhase, ByTask, ByWorker, ByReply, Clients, TypeClients, TypeWorkers
    <2>19. ByPhase'
      BY <2>1 DEF ByPhase, Owned, TypeClients, TypeWorkers
    <2>20. ByTask'
      BY <2>1 DEF ByTask, Owned, TypeClients, TypeWorkers
    <2>21. ByWorker'
      BY <2>1 DEF ByWorker, Owned, TypeClients, TypeWorkers
    <2>22. ByReply'
      BY <1>0, <1>a, <2>1, <1>b, <1>c DEF ByReply, Owned, TypeClients, TypeWorkers
    <2> QED  BY <1>a, <2>1, <1>b, <1>c, <2>10, <2>11, <2>12, <2>13, <2>14, <2>15, <2>16, <2>17,
                <2>18, <2>19, <2>20, <2>21, <2>22 DEF Asked, InHand
  <1>8. ASSUME NEW w \in Workers, TakeTask(w) PROVE Routing'
    <2> DEFINE e == Head(tasks)
    <2>1. /\ e \in Task /\ ToSet(tasks) = ToSet(tasks)' \cup {e} /\ Distinct(tasks)'
          /\ \A t \in ToSet(tasks)' : t.fd # e.fd
      BY <1>0, <1>8, <1>a, GetTask DEF TakeTask
    <2>2. /\ worker[w].at = "idle" /\ worker[w].fd = NoFd
          /\ worker'[w].at = e.cmd /\ worker'[w].fd = e.fd /\ worker'[w].user = e.user
          /\ worker' = [worker EXCEPT ![w] = worker'[w]]
          /\ UNCHANGED <<open, client, resps, reactor, fdName, nameFd>>
      BY <1>0, <1>8 DEF TakeTask, TypeWorkers, Resting
    <2> HIDE DEF e
    <2>10. Clients'
      BY <1>0, <1>a, <2>1, <2>2, <1>b, <1>c DEF Clients, TypeClients, TypeWorkers, Task
    <2>11. Asked'
      BY <1>0, <1>a, <2>1, <2>2, <1>b, <1>c DEF Asked, TaskOK, TypeClients, TypeWorkers, Task
    <2>12. InHand'
      BY <1>0, <1>a, <2>1, <2>2, <1>b, <1>c DEF InHand, WorkerOK, Asked, TaskOK, TypeClients,
         TypeWorkers, Task
    <2>13. Answered'
      BY <1>0, <1>a, <2>1, <2>2, <1>b, <1>c DEF Answered, TypeClients, TypeWorkers, Task
    <2>14. OneEach'
      BY <1>0, <1>a, <2>1, <2>2, <1>b, <1>c DEF OneEach, TypeClients, TypeWorkers, Task
    <2>15. OneName'
      BY <1>0, <1>a, <2>1, <2>2, <1>b, <1>c DEF OneName, TypeClients, TypeWorkers, Task
    <2>16. Left'
      BY <1>0, <1>a, <2>1, <2>2, <1>b, <1>c DEF Left, TypeClients, TypeWorkers, Task
    <2>17. MapsInverse'
      BY <1>0, <1>a, <2>1, <2>2, <1>b, <1>c DEF MapsInverse, Asked, TaskOK, Clients, Phase,
         TypeClients, TypeWorkers, Task
    <2>18. Owned'
      BY <1>0, <1>a, <2>1, <2>2, <1>b, <1>c DEF Owned, Asked, TaskOK, Clients, Phase,
         TypeClients, TypeWorkers, Task
    <2>19. ByPhase'
      BY <1>0, <1>a, <2>1, <2>2, <1>b, <1>c DEF ByPhase, Asked, TaskOK, Clients, Phase,
         TypeClients, TypeWorkers, Task
    <2>20. ByTask'
      BY <1>0, <1>a, <2>1, <2>2, <1>b, <1>c DEF ByTask, Asked, TaskOK, Clients, Phase,
         TypeClients, TypeWorkers, Task
    <2>21. ByWorker'
      BY <1>0, <1>a, <2>1, <2>2 DEF ByWorker, ByTask, TypeWorkers, Task
    <2>22. ByReply'
      BY <1>0, <1>a, <2>1, <2>2, <1>b, <1>c DEF ByReply, Asked, TaskOK, Clients, Phase,
         TypeClients, TypeWorkers, Task
    <2> QED  BY <1>a, <2>1, <2>2, <1>b, <1>c, <2>10, <2>11, <2>12, <2>13, <2>14, <2>15, <2>16,
                <2>17, <2>18, <2>19, <2>20, <2>21, <2>22 DEF Asked, InHand
  <1>9. ASSUME NEW w \in Workers, SignUpInsert(w) PROVE Routing'
    <2>1. /\ worker[w].at = "sign_up" /\ At(w, "row")
          /\ UNCHANGED <<open, client, tasks, resps, reactor, fdName, nameFd>>
      BY <1>9 DEF SignUpInsert
    <2> QED  BY <2>1, StepKeepsRouting
  <1>10. ASSUME NEW w \in Workers, SignUpRow(w) PROVE Routing'
    <2>1. /\ worker[w].at = "row" /\ At(w, "welcome")
          /\ UNCHANGED <<open, client, tasks, resps, reactor, fdName, nameFd>>
      BY <1>10 DEF SignUpRow
    <2> QED  BY <2>1, StepKeepsRouting
  <1>11. ASSUME NEW w \in Workers, SignInSql(w) PROVE Routing'
    <2>1. /\ worker[w].at = "sign_in" /\ At(w, "maps")
          /\ UNCHANGED <<open, client, tasks, resps, reactor, fdName, nameFd>>
      BY <1>11 DEF SignInSql
    <2> QED  BY <2>1, StepKeepsRouting
  <1>12. ASSUME NEW w \in Workers, SignInCache(w) PROVE Routing'
    <2>1. /\ worker[w].at = "cache" /\ At(w, "resp")
          /\ UNCHANGED <<open, client, tasks, resps, reactor, fdName, nameFd>>
      BY <1>12 DEF SignInCache
    <2> QED  BY <2>1, StepKeepsRouting
  <1>13. ASSUME NEW w \in Workers, QuitDb(w) PROVE Routing'
    <2>1. /\ worker[w].at = "q_db" /\ At(w, "q_unsub")
          /\ UNCHANGED <<open, client, tasks, resps, reactor, fdName, nameFd>>
      BY <1>13 DEF QuitDb
    <2> QED  BY <2>1, StepKeepsRouting
  <1>14. ASSUME NEW w \in Workers, QuitUnsub(w) PROVE Routing'
    <2>1. /\ worker[w].at = "q_unsub" /\ At(w, "q_bye")
          /\ UNCHANGED <<open, client, tasks, resps, reactor, fdName, nameFd>>
      BY <1>14 DEF QuitUnsub
    <2> QED  BY <2>1, StepKeepsRouting
  <1>15. ASSUME NEW w \in Workers, NEW k \in {"welcome", "refused", "bye"},
                 \/ k = "welcome" /\ SignUpOk(w)
                 \/ k = "refused" /\ Refuse(w)
                 \/ k = "bye" /\ QuitBye(w)
          PROVE  Routing'
    <2> DEFINE e == [fd |-> worker[w].fd, kind |-> k]
    <2>1. /\ worker[w].at \in {"welcome", "sign_up", "sign_in", "q_bye"}
          /\ k = "welcome" <=> worker[w].at = "welcome"
          /\ k = "bye" <=> worker[w].at = "q_bye"
          /\ worker'[w].at = "idle" /\ worker'[w].fd = NoFd /\ worker'[w].user = Nobody
          /\ worker' = [worker EXCEPT ![w] = worker'[w]] /\ resps' = Append(resps, e)
          /\ UNCHANGED <<open, client, tasks, reactor, fdName, nameFd>>
      BY <1>0, <1>15 DEF SignUpOk, Refuse, QuitBye, Rest, EnResp, TypeWorkers, Resting
    <2>2. e \in Reply /\ e.fd = worker[w].fd /\ e.fd \in Fds /\ e.kind = k
      BY <1>0, <2>1 DEF TypeWorkers, Reply
    <2>3. WorkerOK(w) /\ \A r \in ToSet(resps) : r.fd # e.fd
      BY <2>1 DEF InHand, WorkerOK
    <2>4. ToSet(resps)' = ToSet(resps) \cup {e} /\ Distinct(resps)'
      BY <1>0, <1>a, <2>1, <2>2, <2>3, PutReply
    <2> HIDE DEF e
    <2>10. Clients'
      BY <1>0, <2>1, <2>3, <2>4 DEF Clients, TypeClients, TypeWorkers
    <2>11. Asked'
      BY <1>0, <1>a, <2>1, <2>2, <2>3, <2>4, <1>b, <1>c DEF Asked, TaskOK, WorkerOK,
         TypeClients, TypeWorkers
    <2>12. ASSUME NEW v \in Workers, worker'[v].at # "idle" PROVE WorkerOK(v)'
      <3>1. CASE v = w
        BY <1>0, <2>1, <2>3, <2>4, <2>12, <3>1 DEF InHand, WorkerOK, Phase, TypeClients,
           TypeWorkers
      <3>2. CASE v # w
        <4>1. worker'[v] = worker[v] /\ WorkerOK(v)
          BY <1>0, <2>1, <2>12, <3>2 DEF InHand, TypeWorkers
        <4>2. worker[v].fd # e.fd
          BY <2>2, <2>3, <3>2 DEF WorkerOK
        <4>3. /\ \A x \in Workers : worker'[x].fd = worker[v].fd => x = v
              /\ \A r \in ToSet(resps)' : r.fd = worker[v].fd => worker[v].at = "sub" /\ r.kind = "ok"
          BY <1>0, <2>1, <2>2, <2>4, <2>12, <4>1, <4>2 DEF WorkerOK, TypeWorkers
        <4> QED  BY <2>1, <4>1, <4>3 DEF WorkerOK
      <3> QED  BY <3>1, <3>2
    <2>13. Answered'
      BY <1>0, <1>a, <2>1, <2>2, <2>3, <2>4, <1>b, <1>c DEF Answered, ReplyTo, WorkerOK, Phase,
         TypeClients, TypeWorkers
    <2>14. OneEach'
      BY <1>0, <1>a, <2>1, <2>2, <2>3, <2>4, <1>b, <1>c DEF OneEach, TypeClients, TypeWorkers
    <2>15. OneName'
      BY <1>0, <2>1, <2>3, <2>4 DEF OneName, TypeClients, TypeWorkers
    <2>16. Left'
      BY <1>0, <2>1, <2>3, <2>4 DEF Left, TypeClients, TypeWorkers
    <2>17. MapsInverse'
      BY <1>0, <2>1, <2>3, <2>4 DEF MapsInverse, WorkerOK, Phase, TypeClients, TypeWorkers
    <2>18. Owned'
      BY <1>0, <2>1, <2>3, <2>4 DEF Owned, WorkerOK, Phase, TypeClients, TypeWorkers
    <2>19. ByPhase'
      BY <1>0, <2>1, <2>3, <2>4 DEF ByPhase, WorkerOK, Phase, TypeClients, TypeWorkers
    <2>20. ByTask'
      BY <1>0, <2>1, <2>3, <2>4 DEF ByTask, WorkerOK, Phase, TypeClients, TypeWorkers
    <2>21. ByWorker'
      BY <1>0, <2>1, <2>3, <2>4 DEF ByWorker, WorkerOK, Phase, TypeClients, TypeWorkers
    <2>22. ByReply'
      <3>1. k = "refused" => fdName[e.fd] = Nobody
        BY <1>a, <2>1, <2>2, <2>3 DEF ByPhase, ByWorker, WorkerOK, Phase
      <3>2. k # "ok"
        OBVIOUS
      <3> QED  BY <1>a, <2>1, <2>2, <2>4, <3>1, <3>2 DEF ByReply
    <2> QED  BY <1>a, <2>1, <2>2, <2>3, <2>4, <1>b, <1>c, <2>10, <2>11, <2>12, <2>13, <2>14,
                <2>15, <2>16, <2>17, <2>18, <2>19, <2>20, <2>21, <2>22 DEF Asked, InHand
  <1>16. ASSUME NEW w \in Workers, SignInMaps(w) PROVE Routing'
    <2> DEFINE g == worker[w].fd  u == worker[w].user
    <2>1. /\ worker[w].at = "maps" /\ g \in Fds /\ u \in Users
          /\ fdName' = [fdName EXCEPT ![g] = u] /\ nameFd' = [nameFd EXCEPT ![u] = g]
          /\ worker'[w].at = "cache" /\ worker'[w].fd = g /\ worker'[w].user = u
          /\ worker' = [worker EXCEPT ![w] = worker'[w]]
          /\ UNCHANGED <<open, client, tasks, resps, reactor>>
      BY <1>0, <1>16 DEF SignInMaps, At, TypeWorkers
    <2>2. /\ WorkerOK(w) /\ g \in open /\ client[g].user = u /\ client[g].st = "asked"
          /\ fdName[g] = Nobody /\ \A f \in Fds : fdName[f] # u
      BY <1>0, <1>a, <2>1 DEF InHand, WorkerOK, Phase, ByPhase, ByTask, ByWorker, ByReply,
         OneEach, OneName, TypeRecords
    <2>3. /\ nameFd[u] = NoFd /\ \A t \in ToSet(tasks) : t.fd # g
          /\ \A r \in ToSet(resps) : r.fd # g
          /\ \A v \in Workers : worker[v].fd = g => v = w
      BY <1>0, <1>a, <2>1, <2>2 DEF MapsInverse, TypeRecords, WorkerOK, Asked, TaskOK
    <2> HIDE DEF g, u
    <2>10. Clients'
      BY <1>0, <2>1, <2>3 DEF Clients, TypeClients, TypeWorkers, TypeRecords
    <2>11. Asked'
      BY <1>0, <2>1, <2>3 DEF Asked, TaskOK, TypeClients, TypeWorkers, TypeRecords
    <2>12. ASSUME NEW v \in Workers, worker'[v].at # "idle" PROVE WorkerOK(v)'
      <3>1. CASE v = w
        BY <1>0, <1>a, <2>1, <2>2, <2>3, <1>b, <1>c, <2>12, <3>1 DEF InHand, WorkerOK, Phase,
           TypeClients, TypeWorkers, TypeRecords
      <3>2. CASE v # w
        <4>1. worker'[v] = worker[v] /\ WorkerOK(v)
          BY <1>0, <1>a, <2>1, <2>2, <2>3, <2>12, <3>2 DEF InHand, TypeWorkers
        <4> QED  BY <1>0, <1>a, <2>1, <2>2, <2>3, <1>b, <1>c, <3>2, <4>1 DEF InHand, WorkerOK,
                    TypeClients, TypeWorkers, TypeRecords
      <3> QED  BY <3>1, <3>2
    <2>13. Answered'
      BY <1>0, <2>1, <2>3 DEF Answered, TypeClients, TypeWorkers, TypeRecords
    <2>14. OneEach'
      BY <1>0, <2>1, <2>3 DEF OneEach, TypeClients, TypeWorkers, TypeRecords
    <2>15. OneName'
      BY <2>1, <2>2 DEF OneEach, OneName, TypeClients, TypeRecords
    <2>16. Left'
      BY <1>0, <1>a, <2>1, <2>2, <2>3, <1>b, <1>c DEF Left, TypeClients, TypeWorkers,
         TypeRecords
    <2>17. MapsInverse'
      BY <1>0, <1>a, <2>1, <2>2, <2>3, <1>b, <1>c DEF MapsInverse, TypeClients, TypeWorkers,
         TypeRecords
    <2>18. Owned'
      BY <1>0, <1>a, <2>1, <2>2, <2>3, <1>b, <1>c DEF Owned, ByPhase, ByTask, ByWorker,
         ByReply, Clients, TypeClients, TypeWorkers, TypeRecords
    <2>19. ByPhase'
      BY <1>0, <1>a, <2>1, <2>2, <2>3, <1>b, <1>c DEF ByPhase, Owned, TypeClients, TypeWorkers,
         TypeRecords
    <2>20. ByTask'
      BY <1>0, <1>a, <2>1, <2>2, <2>3, <1>b, <1>c DEF ByTask, Owned, TypeClients, TypeWorkers,
         TypeRecords
    <2>21. ByWorker'
      BY <1>0, <2>1, <2>3 DEF ByWorker, Owned, TypeClients, TypeWorkers, TypeRecords
    <2>22. ByReply'
      BY <1>0, <2>1, <2>3 DEF ByReply, Owned, TypeClients, TypeWorkers, TypeRecords
    <2> QED  BY <2>1, <2>3, <2>10, <2>11, <2>12, <2>13, <2>14, <2>15, <2>16, <2>17, <2>18,
                <2>19, <2>20, <2>21, <2>22 DEF Asked, InHand
  <1>17. ASSUME NEW w \in Workers, SignInOk(w) PROVE Routing'
    <2> DEFINE e == [fd |-> worker[w].fd, kind |-> "ok"]
    <2>1. /\ worker[w].at = "resp" /\ worker'[w].at = "sub" /\ worker'[w].fd = worker[w].fd
          /\ worker'[w].user = worker[w].user /\ worker[w].user \in Users
          /\ worker' = [worker EXCEPT ![w] = worker'[w]] /\ resps' = Append(resps, e)
          /\ UNCHANGED <<open, client, tasks, reactor, fdName, nameFd>>
      BY <1>0, <1>17 DEF SignInOk, At, EnResp, TypeWorkers
    <2>2. e \in Reply /\ e.fd = worker[w].fd /\ e.fd \in Fds /\ e.kind = "ok"
      BY <1>0, <2>1 DEF TypeWorkers, Reply
    <2>3. WorkerOK(w) /\ \A r \in ToSet(resps) : r.fd # e.fd
      BY <2>1 DEF InHand, WorkerOK
    <2>4. ToSet(resps)' = ToSet(resps) \cup {e} /\ Distinct(resps)'
      BY <1>0, <1>a, <2>1, <2>2, <2>3, PutReply
    <2>5. \A t \in ToSet(tasks) : t.fd # e.fd
      BY <1>a, <2>2 DEF Asked, TaskOK
    <2> HIDE DEF e
    <2>10. Clients'
      BY <1>0, <2>1, <2>3, <2>4 DEF Clients, TypeClients, TypeWorkers
    <2>11. ASSUME NEW t \in ToSet(tasks)' PROVE TaskOK(t)'
      <3>1. t \in ToSet(tasks) /\ TaskOK(t) /\ t.fd # e.fd
        BY <1>a, <1>c, <2>1, <2>5 DEF Asked
      <3>2. \A v \in Workers : worker'[v].fd = worker[v].fd
        BY <1>0, <2>1 DEF TypeWorkers
      <3> QED  BY <2>1, <2>4, <3>1, <3>2 DEF TaskOK
    <2>12. ASSUME NEW v \in Workers, worker'[v].at # "idle" PROVE WorkerOK(v)'
      <3>1. CASE v = w
        BY <1>0, <1>a, <2>1, <2>2, <2>3, <2>4, <1>b, <1>c, <2>12, <3>1 DEF InHand, WorkerOK,
           Phase, TypeClients, TypeWorkers
      <3>2. CASE v # w
        <4>1. worker'[v] = worker[v] /\ WorkerOK(v)
          BY <1>0, <1>a, <2>1, <2>2, <2>3, <2>4, <2>12, <3>2 DEF InHand, TypeWorkers
        <4> QED  BY <1>0, <1>a, <2>1, <2>2, <2>3, <2>4, <1>b, <1>c, <3>2, <4>1 DEF InHand,
                    WorkerOK, TypeClients, TypeWorkers
      <3> QED  BY <3>1, <3>2
    <2>13. Answered'
      BY <1>0, <1>a, <2>1, <2>2, <2>3, <2>4, <1>b, <1>c DEF Answered, ReplyTo, WorkerOK, Phase,
         TypeClients, TypeWorkers
    <2>14. OneEach'
      BY <1>0, <1>a, <2>1, <2>2, <2>3, <2>4, <1>b, <1>c DEF OneEach, TypeClients, TypeWorkers
    <2>15. OneName'
      BY <1>0, <2>1, <2>3, <2>4 DEF OneName, TypeClients, TypeWorkers
    <2>16. Left'
      BY <1>0, <2>1, <2>3, <2>4 DEF Left, TypeClients, TypeWorkers
    <2>17. MapsInverse'
      BY <1>0, <2>1, <2>3, <2>4 DEF MapsInverse, WorkerOK, Phase, TypeClients, TypeWorkers
    <2>18. Owned'
      BY <1>0, <2>1, <2>3, <2>4 DEF Owned, WorkerOK, Phase, TypeClients, TypeWorkers
    <2>19. ByPhase'
      BY <1>0, <2>1, <2>3, <2>4 DEF ByPhase, WorkerOK, Phase, TypeClients, TypeWorkers
    <2>20. ByTask'
      BY <1>0, <2>1, <2>3, <2>4 DEF ByTask, WorkerOK, Phase, TypeClients, TypeWorkers
    <2>21. ByWorker'
      BY <1>0, <2>1, <2>3, <2>4 DEF ByWorker, WorkerOK, Phase, TypeClients, TypeWorkers
    <2>22. ByReply'
      BY <1>a, <1>c, <2>1, <2>2, <2>4 DEF ByReply, ByWorker
    <2> QED  BY <1>a, <2>1, <2>2, <2>3, <2>4, <1>b, <1>c, <2>10, <2>11, <2>12, <2>13, <2>14,
                <2>15, <2>16, <2>17, <2>18, <2>19, <2>20, <2>21, <2>22 DEF Asked, InHand
  <1>18. ASSUME NEW w \in Workers, SignInSubscribe(w) PROVE Routing'
    <2>1. /\ worker'[w].at = "idle" /\ worker'[w].fd = NoFd
          /\ worker' = [worker EXCEPT ![w] = worker'[w]]
          /\ UNCHANGED <<open, client, tasks, resps, reactor, fdName, nameFd>>
      BY <1>0, <1>18 DEF SignInSubscribe, Rest, TypeWorkers, Resting
    <2>10. Clients'
      BY <1>0, <1>a, <2>1, <1>b, <1>c DEF Clients, TypeClients, TypeWorkers, Task
    <2>11. Asked'
      BY <1>0, <1>a, <2>1, <1>b, <1>c DEF Asked, TaskOK, TypeClients, TypeWorkers, Task
    <2>12. ASSUME NEW v \in Workers, worker'[v].at # "idle" PROVE WorkerOK(v)'
      <3>1. CASE v = w
        BY <1>0, <1>a, <2>1, <1>b, <1>c, <2>12, <3>1 DEF InHand, WorkerOK, Phase, TypeClients,
           TypeWorkers, Task
      <3>2. CASE v # w
        <4>1. worker'[v] = worker[v] /\ WorkerOK(v)
          BY <1>0, <1>a, <2>1, <2>12, <3>2 DEF InHand, TypeWorkers
        <4> QED  BY <1>0, <1>a, <2>1, <1>b, <1>c, <3>2, <4>1 DEF InHand, WorkerOK, TypeClients,
                    TypeWorkers, Task
      <3> QED  BY <3>1, <3>2
    <2>13. Answered'
      BY <2>1 DEF Answered, TypeClients, TypeWorkers, Task
    <2>14. OneEach'
      BY <2>1 DEF OneEach, TypeClients, TypeWorkers, Task
    <2>15. OneName'
      BY <2>1 DEF OneName, TypeClients, TypeWorkers, Task
    <2>16. Left'
      BY <2>1 DEF Left, TypeClients, TypeWorkers, Task
    <2>17. MapsInverse'
      BY <2>1 DEF MapsInverse, TypeClients, TypeWorkers, Task
    <2>18. Owned'
      BY <2>1 DEF Owned, ByPhase, ByTask, ByWorker, ByReply, Clients, TypeClients, TypeWorkers,
         Task
    <2>19. ByPhase'
      BY <2>1 DEF ByPhase, Owned, TypeClients, TypeWorkers, Task
    <2>20. ByTask'
      BY <2>1 DEF ByTask, Owned, TypeClients, TypeWorkers, Task
    <2>21. ByWorker'
      BY <1>0, <1>a, <2>1, <1>b, <1>c DEF ByWorker, Owned, TypeClients, TypeWorkers, Task
    <2>22. ByReply'
      BY <1>0, <1>a, <2>1, <1>b, <1>c DEF ByReply, Owned, TypeClients, TypeWorkers, Task
    <2> QED  BY <1>a, <2>1, <1>b, <1>c, <2>10, <2>11, <2>12, <2>13, <2>14, <2>15, <2>16, <2>17,
                <2>18, <2>19, <2>20, <2>21, <2>22 DEF Asked, InHand
  <1>19. ASSUME NEW w \in Workers, QuitWho(w) PROVE Routing'
    <2> DEFINE g == worker[w].fd
    <2>1. worker[w].at = "q" /\ g \in Fds /\ WorkerOK(w)
      BY <1>0, <1>19, <1>a DEF QuitWho, TypeWorkers, InHand
    <2>2. fdName[g] = client[g].user /\ client[g].user # Nobody
      BY <1>a, <2>1 DEF WorkerOK, Phase, ByPhase, ByTask, ByWorker, ByReply, Clients
    <2>3. /\ worker'[w].at = "q_db" /\ worker'[w].fd = g /\ worker'[w].user = client[g].user
          /\ worker' = [worker EXCEPT ![w] = worker'[w]]
          /\ UNCHANGED <<open, client, tasks, resps, reactor, fdName, nameFd>>
      BY <1>0, <1>19, <2>1, <2>2 DEF QuitWho, TypeWorkers
    <2>10. Clients'
      BY <1>0, <1>a, <2>1, <2>2, <2>3, <1>b, <1>c DEF Clients, TypeClients, TypeWorkers
    <2>11. Asked'
      BY <1>0, <2>3 DEF Asked, TaskOK, TypeClients, TypeWorkers
    <2>12. ASSUME NEW v \in Workers, worker'[v].at # "idle" PROVE WorkerOK(v)'
      <3>1. CASE v = w
        BY <1>0, <2>1, <2>3, <2>12, <3>1 DEF InHand, WorkerOK, Phase, TypeClients, TypeWorkers
      <3>2. CASE v # w
        <4>1. worker'[v] = worker[v] /\ WorkerOK(v)
          BY <1>0, <1>a, <2>1, <2>2, <2>3, <2>12, <3>2 DEF InHand, TypeWorkers
        <4> QED  BY <1>0, <1>a, <2>1, <2>2, <2>3, <1>b, <1>c, <3>2, <4>1 DEF InHand, WorkerOK,
                    TypeClients, TypeWorkers
      <3> QED  BY <3>1, <3>2
    <2>13. Answered'
      BY <1>0, <2>3 DEF Answered, TypeClients, TypeWorkers
    <2>14. OneEach'
      BY <1>0, <2>3 DEF OneEach, TypeClients, TypeWorkers
    <2>15. OneName'
      BY <1>0, <2>3 DEF OneName, TypeClients, TypeWorkers
    <2>16. Left'
      BY <1>0, <2>3 DEF Left, TypeClients, TypeWorkers
    <2>17. MapsInverse'
      BY <1>0, <2>3 DEF MapsInverse, TypeClients, TypeWorkers
    <2>18. Owned'
      BY <1>0, <2>3 DEF Owned, ByPhase, ByTask, ByWorker, ByReply, Clients, TypeClients,
         TypeWorkers
    <2>19. ByPhase'
      BY <1>0, <2>3 DEF ByPhase, Owned, TypeClients, TypeWorkers
    <2>20. ByTask'
      BY <1>0, <2>3 DEF ByTask, Owned, TypeClients, TypeWorkers
    <2>21. ByWorker'
      BY <1>0, <2>3 DEF ByWorker, Owned, TypeClients, TypeWorkers
    <2>22. ByReply'
      BY <1>0, <2>3 DEF ByReply, Owned, TypeClients, TypeWorkers
    <2> QED  BY <2>3, <2>10, <2>11, <2>12, <2>13, <2>14, <2>15, <2>16, <2>17, <2>18, <2>19,
                <2>20, <2>21, <2>22 DEF Asked, InHand
  <1>20. CASE HandleDb \/ UNCHANGED vars
    <2>1. UNCHANGED <<open, client, tasks, worker, resps, reactor, fdName, nameFd>>
      BY <1>20 DEF HandleDb, vars
    <2> QED
      BY <1>a, <2>1, <1>c DEF Clients, Asked, TaskOK, InHand, WorkerOK, Answered, OneEach,
         OneName,
                              Left, MapsInverse, Owned, ByPhase, ByTask, ByWorker, ByReply
  <1> QED
    <2>1. ASSUME NEW w \in Workers, WorkerStep(w) PROVE Routing'
      BY <2>1, <1>8, <1>9, <1>10, <1>11, <1>12, <1>13, <1>14, <1>15, <1>16, <1>17, <1>18, <1>19
      DEF WorkerStep
    <2>2. ASSUME NEW f \in Fds, NEW u \in Users, SendSignUp(f, u) \/ SendSignIn(f, u)
          PROVE  Routing'
      BY <2>2, <1>4
    <2> QED
      BY <2>1, <2>2, <1>1, <1>2, <1>3, <1>5, <1>6, <1>7, <1>20 DEF Next, CloseStep

-----------------------------------------------------------------------------
(* RoutedToOwner for every number of users, descriptors and workers: with     *)
(* clients that wait for their answers and users of one session at a time, a  *)
(* message that the map names routes to u's descriptor finds u there.         *)
THEOREM RoutedToOwnerHolds == ASSUME Polite PROVE Spec => []RoutedToOwner
  <1>1. Typing /\ Routing => RoutedToOwner
    <2> SUFFICES ASSUME Typing, Routing, NEW u \in Users, nameFd[u] \in open
                 PROVE  client[nameFd[u]].user = u
      BY DEF RoutedToOwner
    <2>1. nameFd[u] \in Fds /\ MapsInverse /\ Owned
      BY DEF Typing, TypeClients, Routing, Names
    <2>2. fdName[nameFd[u]] = u
      BY <2>1 DEF MapsInverse
    <2> QED  BY <2>1, <2>2, SessionsAssumption DEF Owned
  <1>2. Init => Typing /\ Routing
    BY TypingInit, RoutingInit
  <1>3. Typing /\ Routing /\ [Next]_vars => (Typing /\ Routing)'
    BY TypingNext, RoutingNext
  <1> QED  BY <1>1, <1>2, <1>3, PTL DEF Spec

(* MapsInverse, under the same courtesies: clint_fdtoname and clint_nametofd  *)
(* stay inverse to each other through every overlap of sign_in, q and         *)
(* close_clint.                                                               *)
THEOREM MapsInverseHolds == ASSUME Polite PROVE Spec => []MapsInverse
  <1>1. Routing => MapsInverse
    BY DEF Routing, Names
  <1>2. Init => Typing /\ Routing
    BY TypingInit, RoutingInit
  <1>3. Typing /\ Routing /\ [Next]_vars => (Typing /\ Routing)'
    BY TypingNext, RoutingNext
  <1> QED  BY <1>1, <1>2, <1>3, PTL DEF Spec

-----------------------------------------------------------------------------
(* What a worker's step leaves of the records of the workers. *)

LEMMA AtStep ==
  ASSUME TypeWorkers, NEW w \in Workers, NEW l, At(w, l)
  PROVE  /\ worker'[w].at = l /\ worker'[w].fd = worker[w].fd /\ worker'[w].user = worker[w].user
         /\ \A v \in Workers : v # w => worker'[v] = worker[v]
  BY DEF At, TypeWorkers

LEMMA RestStep ==
  ASSUME TypeWorkers, NEW w \in Workers, Rest(w)
  PROVE  worker'[w] = Resting /\ \A v \in Workers : v # w => worker'[v] = worker[v]
  BY DEF Rest, TypeWorkers

(* Under the courtesies, q always finds a name on its descriptor. *)
LEMMA QuitFinds ==
  ASSUME Typing, Routing, NEW w \in Workers, QuitWho(w)
  PROVE  /\ worker'[w].at = "q_db" /\ worker'[w].fd = worker[w].fd
         /\ worker'[w].user = client[worker[w].fd].user
         /\ \A v \in Workers : v # w => worker'[v] = worker[v]
  <1>1. worker[w].at = "q" /\ TypeWorkers /\ worker[w].fd \in Fds /\ WorkerOK(w)
    BY DEF QuitWho, Typing, TypeWorkers, Routing, Requests, InHand
  <1>2. fdName[worker[w].fd] = client[worker[w].fd].user /\ client[worker[w].fd].user # Nobody
    BY <1>1 DEF WorkerOK, Phase, Routing, Requests, Names, ByPhase, Clients
  <1> QED  BY <1>1, <1>2 DEF QuitWho, TypeWorkers

-----------------------------------------------------------------------------
(* A client that waits has its request or its answer somewhere. *)

Waits(f) == client[f].st \in {"joining", "asked", "quitting"}
Somewhere(f) ==
    \/ \E t \in ToSet(tasks) : t.fd = f
    \/ \E w \in Workers : worker[w].fd = f /\ worker[w].at # "sub"
    \/ \E r \in ToSet(resps) : r.fd = f

LEMMA PendingNext == Typing /\ Routing /\ Pending /\ [Next]_vars => Pending'
  <1> SUFFICES ASSUME Typing, Routing, Pending, [Next]_vars PROVE Pending'
    OBVIOUS
  <1>0. /\ TypeClients /\ TypeTasks /\ TypeReplies /\ TypeWorkers
        /\ \A f \in Fds : Waits(f) => Somewhere(f)
    BY DEF Typing, Pending, Waits, Somewhere
  <1> USE SessionsAssumption
  <1> SUFFICES ASSUME NEW f \in Fds, Waits(f)' PROVE Somewhere(f)'
    BY DEF Pending, Waits, Somewhere
  <1>1. ASSUME NEW g \in Fds, \/ HandleNewConnect(g) \/ HangUp(g) \/ SendQuit(g)
                              \/ \E u \in Users : SendSignUp(g, u) \/ SendSignIn(g, u)
        PROVE  Somewhere(f)'
    <2>1. /\ UNCHANGED <<worker, resps>>
          /\ client' = [client EXCEPT ![g] = client'[g]] \/ UNCHANGED client
      BY <1>0, <1>1 DEF HandleNewConnect, HangUp, CloseClint, SendQuit, SendSignUp, SendSignIn,
         TypeClients
    <2>2. CASE HandleNewConnect(g) \/ HangUp(g)
      <3>1. \/ UNCHANGED tasks /\ client'[g].st \in {"new", "off"}
            \/ UNCHANGED <<tasks, client>>
        BY <1>0, <2>2 DEF HandleNewConnect, HangUp, CloseClint, TypeClients, Gone
      <3> QED  BY <1>0, <2>1, <3>1 DEF Waits, Somewhere, TypeClients
    <2>3. CASE SendQuit(g) \/ \E u \in Users : SendSignUp(g, u) \/ SendSignIn(g, u)
      <3>1. PICK e \in Task : e.fd = g /\ (e.cmd # "q" => e.user \in Users) /\ tasks' = Append(tasks, e)
        <4>1. CASE SendQuit(g)
          <5>1. [cmd |-> "q", fd |-> g, user |-> Nobody] \in Task
            BY DEF Task
          <5> QED  BY <4>1, <5>1 DEF SendQuit
        <4>2. ASSUME NEW u \in Users, SendSignUp(g, u)
              PROVE  \E e \in Task : e.fd = g /\ (e.cmd # "q" => e.user \in Users) /\ tasks' = Append(tasks, e)
          <5>1. [cmd |-> "sign_up", fd |-> g, user |-> u] \in Task
            BY DEF Task
          <5> QED  BY <4>2, <5>1 DEF SendSignUp
        <4>3. ASSUME NEW u \in Users, SendSignIn(g, u)
              PROVE  \E e \in Task : e.fd = g /\ (e.cmd # "q" => e.user \in Users) /\ tasks' = Append(tasks, e)
          <5>1. [cmd |-> "sign_in", fd |-> g, user |-> u] \in Task
            BY DEF Task
          <5> QED  BY <4>3, <5>1 DEF SendSignIn
        <4> QED  BY <2>3, <4>1, <4>2, <4>3
      <3>2. ToSet(tasks)' = ToSet(tasks) \cup {e}
        BY <1>0, <3>1, PutTask
      <3> QED  BY <1>0, <2>1, <3>1, <3>2 DEF Waits, Somewhere, TypeClients
    <2> QED  BY <1>1, <2>2, <2>3
  <1>2. CASE HandleResponse
    <2>1. /\ ToSet(resps) = ToSet(resps)' \cup {Head(resps)} /\ Head(resps) \in Reply
          /\ UNCHANGED <<tasks, worker>>
      BY <1>0, <1>2, GetReply DEF HandleResponse
    <2> DEFINE e == Head(resps)
    <2>2. e.fd \in open /\ ReplyTo(e.kind, client[e.fd].st)
      BY <2>1 DEF Routing, Requests, Answered
    <2>3. /\ client' = [client EXCEPT ![e.fd] = client'[e.fd]]
          /\ client'[e.fd].st \in {"off", "in", "new"}
      BY <1>0, <1>2, <2>1, <2>2 DEF HandleResponse, CloseClint, Receives, ReplyTo, TypeClients,
         Gone, Reply
    <2>4. f # e.fd /\ Waits(f)
      BY <1>0, <2>3 DEF Waits, TypeClients
    <2> QED  BY <1>0, <2>1, <2>4 DEF Somewhere
  <1>3. CASE CloseStep \/ HandleDb \/ UNCHANGED vars
    BY <1>0, <1>3 DEF CloseStep, CloseMaps, CloseDb, CloseCache, CloseUnsub, HandleDb, vars,
                      Waits, Somewhere
  <1>4. ASSUME NEW w \in Workers, WorkerStep(w) PROVE Somewhere(f)'
    <2>1. UNCHANGED client /\ Somewhere(f)
      BY <1>0, <1>4 DEF WorkerStep, TakeTask, SignUpInsert, SignUpRow, SignUpOk, Refuse,
         SignInSql,
           SignInMaps, SignInCache, SignInOk, SignInSubscribe, QuitWho, QuitDb, QuitUnsub, QuitBye, Waits
    <2>2. CASE TakeTask(w)
      <3>1. /\ ToSet(tasks) = ToSet(tasks)' \cup {Head(tasks)} /\ Head(tasks) \in Task
            /\ UNCHANGED resps
        BY <1>0, <2>2, GetTask DEF TakeTask
      <3>2. /\ worker[w].fd = NoFd /\ worker'[w].at # "sub" /\ worker'[w].fd = Head(tasks).fd
            /\ \A v \in Workers : v # w => worker'[v] = worker[v]
        BY <1>0, <2>2, <3>1 DEF TakeTask, TypeWorkers, Resting, Task
      <3> QED  BY <2>1, <3>1, <3>2 DEF Somewhere
    <2>3. CASE \E l \in Work \ {"sub"} : At(w, l) /\ UNCHANGED <<tasks, resps>>
      BY <1>0, <2>1, <2>3, AtStep DEF Somewhere
    <2>4. CASE \E k \in {"welcome", "refused", "bye", "ok"} :
                  EnResp(worker[w].fd, k) /\ UNCHANGED tasks /\ (Rest(w) \/ At(w, "sub"))
                  /\ worker[w].fd \in Fds
      <3>1. PICK e \in Reply : e.fd = worker[w].fd /\ resps' = Append(resps, e)
        <4>1. \A k \in {"welcome", "refused", "bye", "ok"} :
                [fd |-> worker[w].fd, kind |-> k] \in Reply
          BY <2>4 DEF Reply
        <4> QED  BY <2>4, <4>1 DEF EnResp
      <3>2. ToSet(resps)' = ToSet(resps) \cup {e}
        BY <1>0, <3>1, PutReply
      <3>3. UNCHANGED tasks /\ \A v \in Workers : v # w => worker'[v] = worker[v]
        BY <1>0, <2>4, AtStep, RestStep
      <3> QED  BY <2>1, <3>1, <3>2, <3>3 DEF Somewhere
    <2>5. CASE SignInSubscribe(w)
      BY <1>0, <2>1, <2>5, RestStep DEF SignInSubscribe, Somewhere
    <2>6. CASE QuitWho(w)
      <3>1. UNCHANGED <<tasks, resps>>
        BY <2>6 DEF QuitWho
      <3> QED  BY <2>1, <2>6, <3>1, QuitFinds DEF Somewhere
    <2>7. worker[w].at # "idle" => worker[w].fd \in Fds
      BY <1>0 DEF TypeWorkers
    <2> QED
      BY <1>4, <2>2, <2>3, <2>4, <2>5, <2>6, <2>7
      DEF WorkerStep, Work, SignUpInsert, SignUpRow, SignUpOk, Refuse, SignInSql,
          SignInMaps, SignInCache, SignInOk, QuitDb, QuitUnsub, QuitBye
  <1> QED  BY <1>1, <1>2, <1>3, <1>4 DEF Next

(* What clients and connections do touches no record. *)
Outside(f) == \/ HandleNewConnect(f) \/ HangUp(f) \/ SendQuit(f)
              \/ \E u \in Users : SendSignUp(f, u) \/ SendSignIn(f, u)

LEMMA OutsideLeaves ==
  ASSUME NEW f, Outside(f)
  PROVE  /\ UNCHANGED <<worker, fdName, nameFd, accounts, rows, online, cached, subs, dbq>>
         /\ UNCHANGED reactor \/ reactor.at = "idle"
  <1> USE DEF status, signed, maps
  <1>1. CASE HandleNewConnect(f)
    BY <1>1 DEF HandleNewConnect
  <1>2. CASE HangUp(f)
    BY <1>2 DEF HangUp, Resting
  <1>3. CASE SendQuit(f)
    BY <1>3 DEF SendQuit
  <1>4. ASSUME NEW u \in Users, SendSignUp(f, u) \/ SendSignIn(f, u)
        PROVE  UNCHANGED <<worker, reactor, fdName, nameFd, accounts, rows, online, cached, subs, dbq>>
    BY <1>4 DEF SendSignUp, SendSignIn
  <1> QED  BY <1>1, <1>2, <1>3, <1>4 DEF Outside

-----------------------------------------------------------------------------
(* The cache holds who is in the maps, but for the moment between. *)

LEMMA CachedNext == Typing /\ Routing /\ Cached /\ [Next]_vars => Cached'
  <1> SUFFICES ASSUME Typing, Routing, Cached, [Next]_vars PROVE Cached'
    OBVIOUS
  <1>0. TypeWorkers /\ TypeRecords /\ TypeReactor /\ MapsInverse /\ ByWorker /\ Left /\ InHand
    BY DEF Typing, Routing, Requests, Names, Single
  <1> USE SessionsAssumption DEF status, signed, maps
  <1>1. ASSUME UNCHANGED <<cached, nameFd>>, UNCHANGED reactor \/ reactor.at = "idle",
               \A w \in Workers : worker[w].at = "cache" => worker'[w] = worker[w]
        PROVE  Cached'
    BY <1>1 DEF Cached, Present, Doing, Closing
  <1>2. CASE CloseMaps
    <2>1. reactor.at = "maps" /\ reactor.fd \in Fds /\ UNCHANGED <<cached, worker>>
      BY <1>0, <1>2 DEF CloseMaps, TypeReactor
    <2>2. CASE fdName[reactor.fd] = Nobody
      BY <1>2, <2>1, <2>2 DEF CloseMaps, Cached, Present, Doing, Closing
    <2>3. CASE fdName[reactor.fd] # Nobody
      <3>1. /\ nameFd' = [nameFd EXCEPT ![fdName[reactor.fd]] = NoFd]
            /\ reactor'.at = "db" /\ reactor'.user = fdName[reactor.fd]
        BY <1>0, <1>2, <2>3 DEF CloseMaps, TypeReactor
      <3> QED  BY <1>0, <2>1, <3>1 DEF Cached, Present, Doing, Closing, TypeRecords
    <2> QED  BY <2>2, <2>3
  <1>3. CASE CloseDb \/ CloseUnsub
    <2>1. /\ UNCHANGED <<cached, nameFd, worker>>
          /\ \/ reactor.at = "db" /\ reactor'.at = "cache" /\ reactor'.user = reactor.user
             \/ reactor.at = "unsub"
      BY <1>0, <1>3 DEF CloseDb, CloseUnsub, TypeReactor
    <2> QED  BY <2>1 DEF Cached, Present, Doing, Closing
  <1>4. CASE CloseCache
    <2>1. /\ reactor.at = "cache" /\ cached' = cached \ {reactor.user} /\ UNCHANGED <<nameFd, worker>>
      BY <1>4 DEF CloseCache
    <2>2. \A u \in Users : Present(u) => u # reactor.user
      BY <1>0, <2>1 DEF Left, MapsInverse, Present, TypeRecords
    <2> QED  BY <2>1, <2>2 DEF Cached, Present, Doing, Closing
  <1>5. ASSUME NEW w \in Workers, SignInMaps(w) PROVE Cached'
    <2>1. /\ worker[w].at = "maps" /\ worker[w].fd \in Fds /\ worker[w].user \in Users
          /\ worker'[w].at = "cache" /\ worker'[w].user = worker[w].user
          /\ \A v \in Workers : v # w => worker'[v] = worker[v]
          /\ nameFd' = [nameFd EXCEPT ![worker[w].user] = worker[w].fd]
          /\ UNCHANGED <<cached, reactor>>
      BY <1>0, <1>5, AtStep DEF SignInMaps, TypeWorkers
    <2> QED  BY <1>0, <2>1 DEF Cached, Present, Doing, Closing, TypeRecords
  <1>6. ASSUME NEW w \in Workers, SignInCache(w) PROVE Cached'
    <2>1. /\ worker[w].at = "cache" /\ worker[w].fd \in Fds /\ worker[w].user \in Users
          /\ \A v \in Workers : v # w => worker'[v] = worker[v]
          /\ cached' = cached \cup {worker[w].user}
          /\ UNCHANGED <<nameFd, reactor>>
      BY <1>0, <1>6, AtStep DEF SignInCache, TypeWorkers
    <2>2. Present(worker[w].user)
      BY <1>0, <2>1 DEF Present, ByWorker, MapsInverse
    <2> QED  BY <1>0, <2>1, <2>2 DEF Cached, Present, Doing, Closing
  <1>7. ASSUME NEW w \in Workers, WorkerStep(w), ~ SignInMaps(w), ~ SignInCache(w) PROVE Cached'
    <2>1. /\ UNCHANGED <<cached, nameFd, reactor>> /\ worker[w].at # "cache"
          /\ \A v \in Workers : v # w => worker'[v] = worker[v]
      BY <1>0, <1>7, AtStep, RestStep, QuitFinds
      DEF WorkerStep, TakeTask, SignUpInsert, SignUpRow, SignUpOk, Refuse, SignInSql, SignInOk,
          SignInSubscribe, QuitWho, QuitDb, QuitUnsub, QuitBye, Resting, TypeWorkers
    <2> QED  BY <1>1, <2>1
  <1>8. CASE HandleResponse \/ HandleDb \/ UNCHANGED vars
    <2>1. UNCHANGED <<cached, nameFd, worker>> /\ (UNCHANGED reactor \/ reactor.at = "idle")
      BY <1>8 DEF HandleResponse, HandleDb, vars, Resting
    <2> QED  BY <1>1, <2>1
  <1>9. ASSUME NEW f \in Fds, Outside(f) PROVE Cached'
    BY <1>1, <1>9, OutsideLeaves
  <1> QED  BY <1>2, <1>3, <1>4, <1>5, <1>6, <1>7, <1>8, <1>9 DEF Next, CloseStep, Outside

-----------------------------------------------------------------------------
(* Two descriptors have two users; so a handler is about one client only. *)

LEMMA OfOne ==
  ASSUME Typing, Routing, NEW w \in Workers, worker[w].at \notin {"idle", "q"},
         NEW f \in Fds, client[f].user = worker[w].user
  PROVE  f = worker[w].fd /\ worker[w].fd \in open /\ Phase(worker[w].at, client[f].st)
  <1>1. /\ WorkerOK(w) /\ worker[w].fd \in Fds /\ worker[w].user \in Users
        /\ worker[w].user = client[worker[w].fd].user /\ OneEach
    BY DEF Typing, TypeWorkers, Routing, Requests, InHand, WorkerOK, Single
  <1>2. f = worker[w].fd
    BY <1>1, SessionsAssumption DEF OneEach
  <1> QED  BY <1>1, <1>2 DEF WorkerOK

(* The name is where the client is, and no name is in two places. *)
LEMMA NamedIs ==
  ASSUME Typing, Routing
  PROVE  /\ \A u \in Users : Present(u) <=> \E f \in Fds : fdName[f] = u
         /\ \A f \in Fds : f \in open /\ fdName[f] # Nobody => fdName[f] = client[f].user
  BY SessionsAssumption DEF Present, Typing, TypeRecords, Routing, Names, MapsInverse, Owned

-----------------------------------------------------------------------------
(* The channels subscribed to are those of the users in the maps. *)

LEMMA SubscribedNext == Typing /\ Routing /\ Subscribed /\ [Next]_vars => Subscribed'
  <1> SUFFICES ASSUME Typing, Routing, Subscribed, [Next]_vars PROVE Subscribed'
    OBVIOUS
  <1>0. TypeClients /\ TypeWorkers /\ TypeRecords /\ TypeReactor /\ MapsInverse /\ ByWorker /\ ByPhase /\ Left
    BY DEF Typing, Routing, Names, Single
  <1> USE SessionsAssumption DEF status, signed, maps
  <1> DEFINE Signing(w) == worker[w].at \in {"cache", "resp", "sub"}
  <1>2. CASE CloseMaps
    <2>1. reactor.at = "maps" /\ reactor.fd \in Fds /\ UNCHANGED <<subs, worker, client>>
      BY <1>0, <1>2 DEF CloseMaps, TypeReactor
    <2>2. CASE fdName[reactor.fd] = Nobody
      BY <1>2, <2>1, <2>2 DEF CloseMaps, Subscribed, Present, Doing, Closing
    <2>3. CASE fdName[reactor.fd] # Nobody
      <3>1. /\ nameFd' = [nameFd EXCEPT ![fdName[reactor.fd]] = NoFd]
            /\ fdName' = [fdName EXCEPT ![reactor.fd] = Nobody]
            /\ reactor'.at = "db" /\ reactor'.user = fdName[reactor.fd]
        BY <1>0, <1>2, <2>3 DEF CloseMaps, TypeReactor
      <3> QED  BY <1>0, <2>1, <3>1 DEF Subscribed, Present, Doing, Closing, TypeRecords
    <2> QED  BY <2>2, <2>3
  <1>3. CASE CloseDb \/ CloseCache
    <2>1. /\ UNCHANGED <<subs, fdName, nameFd, worker, client>>
          /\ reactor.at \in {"db", "cache"} /\ reactor'.at \in {"cache", "unsub"}
          /\ reactor'.user = reactor.user
      BY <1>0, <1>3 DEF CloseDb, CloseCache, TypeReactor
    <2> QED  BY <2>1 DEF Subscribed, Present, Doing, Closing
  <1>4. CASE CloseUnsub
    <2>1. /\ reactor.at = "unsub" /\ subs' = subs \ {reactor.user}
          /\ UNCHANGED <<fdName, nameFd, worker, client>>
      BY <1>4 DEF CloseUnsub
    <2>2. \A f \in Fds : client[f].user # reactor.user
      BY <1>0, <2>1 DEF Left
    <2> QED  BY <2>1, <2>2 DEF Subscribed, Present, Doing, Closing
  <1>5. ASSUME NEW w \in Workers, SignInMaps(w) PROVE Subscribed'
    <2>1. /\ worker[w].at = "maps" /\ worker[w].fd \in Fds /\ worker[w].user \in Users
          /\ worker'[w].at = "cache" /\ worker'[w].user = worker[w].user
          /\ \A v \in Workers : v # w => worker'[v] = worker[v]
          /\ nameFd' = [nameFd EXCEPT ![worker[w].user] = worker[w].fd]
          /\ fdName' = [fdName EXCEPT ![worker[w].fd] = worker[w].user]
          /\ UNCHANGED <<subs, reactor, client>>
      BY <1>0, <1>5, AtStep DEF SignInMaps, TypeWorkers
    <2>2. client[worker[w].fd].user = worker[w].user
      BY <2>1 DEF Routing, Requests, InHand, WorkerOK
    <2> QED  BY <1>0, <2>1, <2>2 DEF Subscribed, Present, Doing, Closing, TypeRecords
  <1>6. ASSUME NEW w \in Workers, SignInSubscribe(w) PROVE Subscribed'
    <2>1. /\ worker[w].at = "sub" /\ worker[w].fd \in Fds /\ worker[w].user \in Users
          /\ \A v \in Workers : v # w => worker'[v] = worker[v]
          /\ subs' = subs \cup {worker[w].user}
          /\ UNCHANGED <<fdName, nameFd, reactor, client>>
      BY <1>0, <1>6, RestStep DEF SignInSubscribe, TypeWorkers
    <2>2. Present(worker[w].user)
      BY <1>0, <2>1 DEF Present, ByWorker, MapsInverse
    <2> QED  BY <1>0, <2>1, <2>2 DEF Subscribed, Present, Doing, Closing
  <1>7. ASSUME NEW w \in Workers, QuitUnsub(w) PROVE Subscribed'
    <2>1. /\ worker[w].at = "q_unsub" /\ subs' = subs \ {worker[w].user}
          /\ \A v \in Workers : v # w => worker'[v] = worker[v]
          /\ UNCHANGED <<fdName, nameFd, reactor, client>>
      BY <1>0, <1>7, AtStep DEF QuitUnsub
    <2>2. \A f \in Fds : client[f].user = worker[w].user => client[f].st = "quitting"
      BY <2>1, OfOne DEF Phase
    <2> QED  BY <2>1, <2>2 DEF Subscribed, Present, Doing, Closing
  <1>8. ASSUME NEW w \in Workers, WorkerStep(w),
               ~ SignInMaps(w), ~ SignInSubscribe(w), ~ QuitUnsub(w)
        PROVE  Subscribed'
    <2>1. UNCHANGED <<subs, fdName, nameFd, reactor, client>>
      BY <1>8
      DEF WorkerStep, TakeTask, SignUpInsert, SignUpRow, SignUpOk, Refuse, SignInSql, SignInOk,
          SignInCache, QuitWho, QuitDb, QuitBye
    <2>2. \/ ~ Signing(w)
          \/ Signing(w) /\ Signing(w)' /\ worker'[w].user = worker[w].user
      BY <1>0, <1>8, AtStep
      DEF WorkerStep, TakeTask, SignUpInsert, SignUpRow, SignUpOk, Refuse, SignInSql, SignInOk,
          SignInCache, QuitWho, QuitDb, QuitBye, Resting
    <2>3. \A v \in Workers : v # w => worker'[v] = worker[v]
      BY <1>0, <1>8, AtStep, RestStep, QuitFinds
      DEF WorkerStep, TakeTask, SignUpInsert, SignUpRow, SignUpOk, Refuse, SignInSql, SignInOk,
          SignInCache, QuitDb, QuitBye, TypeWorkers
    <2> QED  BY <2>1, <2>2, <2>3 DEF Subscribed, Present, Doing, Closing
  <1>9. CASE HandleResponse
    <2>1. /\ reactor.at = "idle" /\ UNCHANGED <<subs, fdName, nameFd, worker>>
          /\ Head(resps) \in Reply /\ Head(resps) \in ToSet(resps)
      BY <1>9, GetReply DEF HandleResponse, Resting, Typing
    <2> DEFINE e == Head(resps)
    <2>2. e.fd \in open /\ e.fd \in Fds /\ ReplyTo(e.kind, client[e.fd].st)
      BY <2>1 DEF Routing, Requests, Answered, Reply
    <2>3. /\ client' = [client EXCEPT ![e.fd] = client'[e.fd]]
          /\ \/ client'[e.fd].st \notin {"asked", "in"}
             \/ client[e.fd].st = "asked" /\ client'[e.fd].user = client[e.fd].user
      BY <1>0, <1>9, <2>1, <2>2 DEF HandleResponse, CloseClint, Receives, ReplyTo, TypeClients,
         Gone, Reply
    <2> QED  BY <1>0, <2>1, <2>2, <2>3 DEF Subscribed, Present, Doing, Closing, TypeClients
  <1>10. CASE HandleDb \/ UNCHANGED vars
    BY <1>10 DEF HandleDb, vars, Subscribed, Present, Doing, Closing
  <1>11. ASSUME NEW f \in Fds, Outside(f) PROVE Subscribed'
    <2>1. /\ UNCHANGED <<subs, fdName, nameFd, worker>>
          /\ UNCHANGED reactor \/ reactor.at = "idle"
      BY <1>11, OutsideLeaves
    <2>2. fdName[f] # Nobody => client'[f].st \notin {"asked", "in"} \/ UNCHANGED client
      <3>1. CASE HandleNewConnect(f) \/ HangUp(f)
        BY <1>0, <3>1 DEF HandleNewConnect, HangUp, CloseClint, TypeClients, Gone
      <3>2. CASE SendQuit(f)
        BY <1>0, <3>2 DEF SendQuit, TypeClients
      <3>3. ASSUME NEW u \in Users, SendSignUp(f, u) \/ SendSignIn(f, u) PROVE fdName[f] = Nobody
        BY <1>0, <3>3 DEF SendSignUp, SendSignIn, ByPhase
      <3> QED  BY <1>11, <3>1, <3>2, <3>3 DEF Outside
    <2>3. \A g \in Fds : g # f => client'[g] = client[g]
      BY <1>0, <1>11 DEF Outside, HandleNewConnect, HangUp, CloseClint, SendQuit, SendSignUp,
         SendSignIn,
                         TypeClients
    <2> QED  BY <2>1, <2>2, <2>3 DEF Subscribed, Present, Doing, Closing
  <1> QED
    BY <1>2, <1>3, <1>4, <1>5, <1>6, <1>7, <1>8, <1>9, <1>10, <1>11 DEF Next, CloseStep, Outside

-----------------------------------------------------------------------------
(* A row says online for who is in the maps, or is about to be or to have    *)
(* been; the statements still queued concern nobody who is signing in.       *)

Unhurried == Polite /\ "unhurried" \in Courtesies

LEMMA OnlineNext == Unhurried /\ Typing /\ Routing /\ Online /\ [Next]_vars => Online'
  <1> SUFFICES ASSUME Unhurried, Typing, Routing, Online, [Next]_vars PROVE Online'
    OBVIOUS
  <1>0. /\ TypeClients /\ TypeWorkers /\ TypeRecords /\ TypeReactor /\ TypeStmts
        /\ MapsInverse /\ ByWorker /\ ByPhase /\ Left /\ OneEach
        /\ ToSet(dbq) \subseteq Stmt
    <2>1. TypeStmts
      BY DEF Typing
    <2> QED  BY <2>1, InSet DEF Typing, Routing, Names, Single, TypeStmts
  <1> USE SessionsAssumption DEF status, signed, maps
  <1>1. CASE CloseMaps
    <2>1. reactor.at = "maps" /\ reactor.fd \in Fds
          /\ UNCHANGED <<online, rows, accounts, dbq, worker, client>>
      BY <1>0, <1>1 DEF CloseMaps, TypeReactor
    <2>2. CASE fdName[reactor.fd] = Nobody
      BY <1>1, <2>1, <2>2 DEF CloseMaps, Online, Present, Doing, Closing
    <2>3. CASE fdName[reactor.fd] # Nobody
      <3>1. /\ nameFd' = [nameFd EXCEPT ![fdName[reactor.fd]] = NoFd]
            /\ fdName' = [fdName EXCEPT ![reactor.fd] = Nobody]
            /\ reactor'.at = "db" /\ reactor'.user = fdName[reactor.fd]
        BY <1>0, <1>1, <2>3 DEF CloseMaps, TypeReactor
      <3> QED  BY <1>0, <2>1, <3>1 DEF Online, Present, Doing, Closing, TypeRecords
    <2> QED  BY <2>2, <2>3
  <1>2. CASE CloseDb
    <2> DEFINE e == [do |-> "offline", user |-> reactor.user]
    <2>1. /\ reactor.at = "db" /\ reactor.user \in Users /\ dbq' = Append(dbq, e) /\ e \in Stmt
          /\ e.do = "offline" /\ e.user = reactor.user
          /\ UNCHANGED <<online, rows, accounts, fdName, nameFd, worker, client>>
      BY <1>0, <1>2 DEF CloseDb, TypeReactor, Stmt
    <2>2. ToSet(dbq)' = ToSet(dbq) \cup {e}
      BY <1>0, <2>1, PutStmt
    <2>3. \A f \in Fds : client[f].user # reactor.user
      BY <1>0, <2>1 DEF Left
    <2> HIDE DEF e
    <2> QED  BY <2>1, <2>2, <2>3 DEF Online, Present, Doing, Closing
  <1>3. CASE CloseCache \/ CloseUnsub
    <2>1. /\ reactor.at # "db"
          /\ UNCHANGED <<online, rows, accounts, fdName, nameFd, dbq, worker, client>>
      BY <1>3 DEF CloseCache, CloseUnsub
    <2> QED  BY <2>1 DEF Online, Present, Doing, Closing
  <1>4. ASSUME NEW w \in Workers, SignUpInsert(w) PROVE Online'
    <2>1. /\ worker[w].at = "sign_up" /\ worker'[w].at = "row" /\ worker'[w].user = worker[w].user
          /\ \A v \in Workers : v # w => worker'[v] = worker[v]
          /\ accounts' = accounts \cup {worker[w].user}
          /\ UNCHANGED <<online, rows, fdName, nameFd, dbq, reactor, client>>
      BY <1>0, <1>4, AtStep DEF SignUpInsert
    <2> QED  BY <2>1 DEF Online, Present, Doing, Closing
  <1>5. ASSUME NEW w \in Workers, NEW a \in {"insert", "offline"},
               \/ a = "insert" /\ SignUpRow(w)
               \/ a = "offline" /\ QuitDb(w)
        PROVE  Online'
    <2> DEFINE e == [do |-> a, user |-> worker[w].user]
    <2>1. /\ worker[w].at = IF a = "insert" THEN "row" ELSE "q_db"
          /\ worker'[w].at \in {"welcome", "q_unsub"} /\ worker[w].user \in Users
          /\ \A v \in Workers : v # w => worker'[v] = worker[v]
          /\ dbq' = Append(dbq, e) /\ e \in Stmt /\ e.do = a /\ e.user = worker[w].user
          /\ a = "insert" => worker[w].user \in accounts
          /\ UNCHANGED <<online, rows, accounts, fdName, nameFd, reactor, client>>
      <3>1. CASE a = "insert"
        BY <1>0, <1>5, <3>1, AtStep DEF SignUpRow, TypeWorkers, Stmt
      <3>2. CASE a = "offline"
        BY <1>0, <1>5, <3>2, AtStep DEF QuitDb, TypeWorkers, Stmt
      <3> QED  BY <3>1, <3>2
    <2>2. ToSet(dbq)' = ToSet(dbq) \cup {e}
      BY <1>0, <2>1, PutStmt
    <2>3. \A f \in Fds : client[f].user = worker[w].user => client[f].st \in {"joining", "quitting"}
      BY <2>1, OfOne DEF Phase
    <2> HIDE DEF e
    <2> QED  BY <2>1, <2>2, <2>3 DEF Online, Present, Doing, Closing
  <1>6. ASSUME NEW w \in Workers, SignInSql(w) PROVE Online'
    <2> DEFINE u == worker[w].user
    <2>1. /\ worker[w].at = "sign_in" /\ worker[w].fd \in Fds /\ u \in accounts
          /\ worker'[w].at = "maps" /\ worker'[w].user = u
          /\ \A v \in Workers : v # w => worker'[v] = worker[v]
          /\ online' = online \cup ({u} \cap rows)
          /\ UNCHANGED <<rows, accounts, fdName, nameFd, dbq, reactor, client>>
      BY <1>0, <1>6, AtStep DEF SignInSql, TypeWorkers
    <2>2. client[worker[w].fd].user = u /\ client[worker[w].fd].st = "asked"
      BY <2>1 DEF Routing, Requests, InHand, WorkerOK, Phase
    <2>3. ~ Doing(u, "row")
      BY <2>1, <2>2, OfOne DEF Doing, Phase
    <2>4. u \in rows
      BY <2>1, <2>2, <2>3 DEF Online
    <2> HIDE DEF u
    <2> QED  BY <2>1, <2>4 DEF Online, Present, Doing, Closing
  <1>7. ASSUME NEW w \in Workers, SignInMaps(w) PROVE Online'
    <2>1. /\ worker[w].at = "maps" /\ worker[w].fd \in Fds /\ worker[w].user \in Users
          /\ worker'[w].at = "cache"
          /\ \A v \in Workers : v # w => worker'[v] = worker[v]
          /\ nameFd' = [nameFd EXCEPT ![worker[w].user] = worker[w].fd]
          /\ fdName' = [fdName EXCEPT ![worker[w].fd] = worker[w].user]
          /\ UNCHANGED <<online, rows, accounts, dbq, reactor, client>>
      BY <1>0, <1>7, AtStep DEF SignInMaps, TypeWorkers
    <2>2. client[worker[w].fd].user = worker[w].user
      BY <2>1 DEF Routing, Requests, InHand, WorkerOK
    <2> QED  BY <1>0, <2>1, <2>2 DEF Online, Present, Doing, Closing, TypeRecords
  <1>8. ASSUME NEW w \in Workers, WorkerStep(w), ~ SignUpInsert(w), ~ SignUpRow(w),
               ~ SignInSql(w), ~ SignInMaps(w), ~ QuitDb(w)
        PROVE  Online'
    <2>1. UNCHANGED <<online, rows, accounts, fdName, nameFd, dbq, reactor, client>>
      BY <1>8
      DEF WorkerStep, TakeTask, SignUpOk, Refuse, SignInOk, SignInCache, SignInSubscribe,
          QuitWho, QuitUnsub, QuitBye
    <2>2. /\ worker[w].at \notin {"maps", "row"} /\ worker'[w].at \notin {"maps", "row"}
          /\ \A v \in Workers : v # w => worker'[v] = worker[v]
      <3>1. CASE TakeTask(w)
        <4>1. Head(tasks) \in Task
          BY <3>1, GetTask DEF TakeTask, Typing
        <4> QED  BY <1>0, <3>1, <4>1 DEF TakeTask, Task, TypeWorkers, Resting
      <3>2. CASE QuitWho(w)
        BY <3>2, QuitFinds DEF QuitWho
      <3> QED
        BY <1>0, <1>8, <3>1, <3>2, AtStep, RestStep
        DEF WorkerStep, SignUpOk, Refuse, SignInOk, SignInCache, SignInSubscribe,
            QuitUnsub, QuitBye, Resting
    <2> QED  BY <2>1, <2>2 DEF Online, Present, Doing, Closing
  <1>9. CASE HandleResponse
    <2>1. /\ reactor.at = "idle"
          /\ UNCHANGED <<online, rows, accounts, fdName, nameFd, dbq, worker>>
          /\ Head(resps) \in Reply /\ Head(resps) \in ToSet(resps)
      BY <1>9, GetReply DEF HandleResponse, Resting, Typing
    <2> DEFINE e == Head(resps)
    <2>2. e.fd \in open /\ e.fd \in Fds /\ ReplyTo(e.kind, client[e.fd].st)
      BY <2>1 DEF Routing, Requests, Answered, Reply
    <2>3. /\ client' = [client EXCEPT ![e.fd] = client'[e.fd]]
          /\ \/ client'[e.fd].st \notin {"asked", "in"}
             \/ client[e.fd].st = "asked" /\ client'[e.fd].user = client[e.fd].user
      BY <1>0, <1>9, <2>1, <2>2 DEF HandleResponse, CloseClint, Receives, ReplyTo, TypeClients,
         Gone, Reply
    <2> QED  BY <1>0, <2>1, <2>2, <2>3 DEF Online, Present, Doing, Closing, TypeClients
  <1>10. CASE HandleDb
    <2> DEFINE e == Head(dbq)
    <2>1. /\ ToSet(dbq) = ToSet(dbq)' \cup {e} /\ e \in Stmt
          /\ UNCHANGED <<accounts, fdName, nameFd, reactor, worker, client>>
      BY <1>0, <1>10, GetStmt DEF HandleDb
    <2>2. \/ e.do = "insert" /\ rows' = rows \cup {e.user} /\ UNCHANGED online
          \/ e.do = "offline" /\ online' = online \ {e.user} /\ UNCHANGED rows
      BY <1>10, <2>1 DEF HandleDb, Stmt
    <2> HIDE DEF e
    <2> QED  BY <2>1, <2>2 DEF Online, Present, Doing, Closing
  <1>11. ASSUME NEW f \in Fds, Outside(f) PROVE Online'
    <2>1. /\ UNCHANGED <<online, rows, accounts, fdName, nameFd, dbq, worker>>
          /\ UNCHANGED reactor \/ reactor.at = "idle"
      BY <1>11, OutsideLeaves
    <2>2. \/ client'[f].st \notin {"asked", "in"} \/ UNCHANGED client
          \/ /\ fdName[f] = Nobody /\ ~ Doing(client'[f].user, "maps")
             /\ \A d \in ToSet(dbq) : d.user # client'[f].user
      <3>1. CASE HandleNewConnect(f) \/ HangUp(f)
        BY <1>0, <3>1 DEF HandleNewConnect, HangUp, CloseClint, TypeClients, Gone
      <3>2. CASE SendQuit(f)
        BY <1>0, <3>2 DEF SendQuit, TypeClients
      <3>3. ASSUME NEW u \in Users, SendSignUp(f, u) PROVE client'[f].st = "joining"
        BY <1>0, <3>3 DEF SendSignUp, TypeClients
      <3>4. ASSUME NEW u \in Users, SendSignIn(f, u)
            PROVE  /\ fdName[f] = Nobody /\ ~ Doing(client'[f].user, "maps")
                   /\ \A d \in ToSet(dbq) : d.user # client'[f].user
        <4>1. /\ client'[f].user = u /\ fdName[f] = Nobody /\ ~ Lingers(u)
              /\ \A i \in 1..Len(dbq) : dbq[i].user # u
          BY <1>0, <3>4 DEF SendSignIn, ByPhase, Unhurried, Polite, TypeClients
        <4>2. DOMAIN dbq = 1..Len(dbq)
          BY <1>0 DEF TypeStmts
        <4> QED  BY <4>1, <4>2 DEF Lingers, Doing, ToSet
      <3> QED  BY <1>11, <3>1, <3>2, <3>3, <3>4 DEF Outside
    <2>3. \A g \in Fds : g # f => client'[g] = client[g]
      BY <1>0, <1>11 DEF Outside, HandleNewConnect, HangUp, CloseClint, SendQuit, SendSignUp,
         SendSignIn,
                         TypeClients
    <2> QED  BY <2>1, <2>2, <2>3 DEF Online, Present, Doing, Closing
  <1>12. CASE UNCHANGED vars
    BY <1>12 DEF vars, Online, Present, Doing, Closing
  <1> QED
    BY <1>1, <1>2, <1>3, <1>4, <1>5, <1>6, <1>7, <1>8, <1>9, <1>10, <1>11, <1>12
    DEF Next, CloseStep, Outside

(* RecordsAgree for every number of users, descriptors and workers, with     *)
(* clients that keep the three courtesies: whenever the server has nothing   *)
(* left to do, the maps, user_status, online_users and the subscribed        *)
(* channels name exactly the users who are logged in.                        *)
THEOREM RecordsAgreeHolds == ASSUME Unhurried PROVE Spec => []RecordsAgree
  <1> DEFINE Inv == Typing /\ Routing /\ Pending /\ Cached /\ Subscribed /\ Online
  <1>1. Inv => RecordsAgree
    <2> SUFFICES ASSUME Inv, Settled
                 PROVE  /\ Named = LoggedIn /\ online = LoggedIn
                        /\ cached = LoggedIn /\ subs = LoggedIn
      BY DEF RecordsAgree
    <2> USE SessionsAssumption
    <2>1. /\ ToSet(tasks) = {} /\ ToSet(resps) = {} /\ ToSet(dbq) = {} /\ reactor.at = "idle"
          /\ \A w \in Workers : worker[w].at = "idle" /\ worker[w].fd = NoFd
      BY DEF Settled, Resting, ToSet
    <2>2. \A f \in Fds : client[f].st \notin {"joining", "asked", "quitting"}
      BY <2>1 DEF Pending
    <2>3. ASSUME NEW u \in Users, Present(u) PROVE u \in LoggedIn
      <3>1. PICK f \in Fds : fdName[f] = u
        BY <2>3, NamedIs
      <3>2. f \in open /\ client[f].user = u
        BY <2>1, <3>1 DEF Routing, Names, Owned
      <3>3. client[f].st = "in"
        BY <2>2, <3>2 DEF Routing, Requests, Clients, Typing, TypeClients
      <3> QED  BY <3>2, <3>3 DEF LoggedIn
    <2>4. ASSUME NEW f \in open, client[f].st = "in" PROVE Present(client[f].user) /\ client[f].user \in Users
      <3>1. f \in Fds /\ client[f].user \in Users
        BY <2>4 DEF Typing, TypeClients, Routing, Requests, Clients
      <3>2. fdName[f] = client[f].user
        BY <2>4, <3>1 DEF Routing, Names, ByPhase
      <3> QED  BY <3>1, <3>2, NamedIs
    <2>5. Named = LoggedIn
      BY <2>3, <2>4 DEF Named, LoggedIn, Present
    <2>6. cached = LoggedIn
      BY <2>1, <2>3, <2>4 DEF Cached, Doing, Closing, LoggedIn, Typing, TypeRecords
    <2>7. subs = LoggedIn
      <3>1. \A u \in subs : u \in LoggedIn
        BY <2>1, <2>3 DEF Subscribed, Closing, Typing, TypeRecords
      <3>2. ASSUME NEW f \in open, client[f].st = "in" PROVE client[f].user \in subs
        <4>1. f \in Fds /\ fdName[f] # Nobody
          BY <2>4, <3>2 DEF Routing, Names, ByPhase, Typing, TypeClients
        <4> QED  BY <2>1, <3>2, <4>1 DEF Subscribed, Doing
      <3> QED  BY <3>1, <3>2 DEF LoggedIn
    <2>8. online = LoggedIn
      <3>1. \A u \in online : u \in LoggedIn
        BY <2>1, <2>3 DEF Online, Doing, Closing, Typing, TypeRecords
      <3>2. ASSUME NEW f \in open, client[f].st = "in" PROVE client[f].user \in online
        <4>1. f \in Fds /\ fdName[f] # Nobody
          BY <2>4, <3>2 DEF Routing, Names, ByPhase, Typing, TypeClients
        <4> QED  BY <3>2, <4>1 DEF Online
      <3> QED  BY <3>1, <3>2 DEF LoggedIn
    <2> QED  BY <2>5, <2>6, <2>7, <2>8
  <1>2. Init => Inv
    <2>1. Init => Pending /\ Cached /\ Subscribed /\ Online
      BY SessionsAssumption DEF Init, Pending, Cached, Subscribed, Online, Present, Gone, ToSet
    <2> QED  BY <2>1, TypingInit, RoutingInit
  <1>3. Inv /\ [Next]_vars => Inv'
    BY TypingNext, RoutingNext, PendingNext, CachedNext, SubscribedNext, OnlineNext
       DEF Unhurried
  <1> QED  BY <1>1, <1>2, <1>3, PTL DEF Spec

=============================================================================
