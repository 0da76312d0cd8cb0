---------------------------- MODULE Friends_proofs ----------------------------
(***************************************************************************)
(* Theorems about module Friends, for any users, groups, workers, lives of *)
(* keys and bounds.  The typing invariant says whom a handler has in hand  *)
(* at each place.  Mutual is not inductive: it says nothing of a pair with *)
(* a request under way.  Orderly adds what holds then: an orderly pair has *)
(* one such request at most (Alone), whose handler finds the rows its      *)
(* sender saw (Seen), and two rows of a pair are either both accepted or   *)
(* not both there, except between the two statements of an acceptance      *)
(* (Rows).                                                                 *)
(***************************************************************************)
EXTENDS Friends, TLAPS

InvitePlaces == {"invite_group", "invite_role", "invite_friend", "invite_new", "invite_insert"}
ChatPlaces   == {"is_friend", "select", "sadd", "expire"}

InHand(job) ==
    /\ job.at # "idle" => job.me \in Users
    /\ job.at \in FriendChanges \cup ChatPlaces \cup InvitePlaces => job.you \in Users
    /\ job.at \in FriendChanges => job.me # job.you /\ {job.me, job.you} \in Acquainted
    /\ job.at \in GroupChanges \cup {"founder"} \cup InvitePlaces => job.group \in Groups

Typed == TypeOK /\ \A w \in Workers : InHand(worker[w])

-----------------------------------------------------------------------------
(* Typing.  A worker's step gives it a job of the right kind ... *)
LEMMA JobTyped ==
    ASSUME Typed, NEW w \in Workers, NEW job \in Jobs, InHand(job),
           worker' = [worker EXCEPT ![w] = job]
    PROVE  worker' \in [Workers -> Jobs] /\ \A o \in Workers : InHand(worker'[o])
BY DEF Typed, TypeOK

LEMMA RestTyped ==
    ASSUME Typed, NEW w \in Workers, Rest(w)
    PROVE  worker' \in [Workers -> Jobs] /\ \A o \in Workers : InHand(worker'[o])
<1>1. Resting \in Jobs /\ Resting.at = "idle"  BY DEF Resting, Job, Jobs, Places
<1>2. InHand(Resting)
  BY <1>1 DEF InHand, FriendChanges, GroupChanges, ChatPlaces, InvitePlaces
<1>3. QED BY <1>1, <1>2, JobTyped DEF Rest

(* Where a handler may go with what it has in hand. *)
Onward(from, to) ==
    \/ to \in {"let", "shown", "set", "groups"}
    \/ from = "accept" /\ to = "mutual"
    \/ from \in ChatPlaces /\ to \in ChatPlaces
    \/ from \in InvitePlaces /\ to \in InvitePlaces
    \/ from = "create_group" /\ to = "founder"

LEMMA OnwardInHand ==
    ASSUME NEW old, NEW new, InHand(old), old.at # "idle", Onward(old.at, new.at),
           new.me = old.me, new.you = old.you, new.group = old.group
    PROVE  InHand(new)
BY DEF InHand, Onward, FriendChanges, GroupChanges, ChatPlaces, InvitePlaces

LEMMA GotoTyped ==
    ASSUME Typed, NEW w \in Workers, NEW l \in Places, Goto(w, l),
           worker[w].at # "idle", Onward(worker[w].at, l)
    PROVE  worker' \in [Workers -> Jobs] /\ \A o \in Workers : InHand(worker'[o])
<1> DEFINE job == [worker[w] EXCEPT !.at = l]
<1>1. worker[w] \in Jobs /\ InHand(worker[w])  BY DEF Typed, TypeOK
<1>2. job \in Jobs /\ job.at = l /\ job.me = worker[w].me /\ job.you = worker[w].you
      /\ job.group = worker[w].group
  BY <1>1 DEF Jobs, Places
<1>3. worker' = [worker EXCEPT ![w] = job]  BY DEF Goto
<1> HIDE DEF job
<1>4. InHand(job)  BY <1>1, <1>2, OnwardInHand
<1>5. QED BY <1>2, <1>3, <1>4, JobTyped

LEMMA ListTyped ==
    ASSUME Typed, NEW w \in Workers, NEW l \in {"shown", "set"}, NEW s \in SUBSET Groups,
           worker[w].at # "idle",
           worker' = [worker EXCEPT ![w] = [worker[w] EXCEPT !.at = l, !.list = s]]
    PROVE  worker' \in [Workers -> Jobs] /\ \A o \in Workers : InHand(worker'[o])
<1> DEFINE job == [worker[w] EXCEPT !.at = l, !.list = s]
<1>1. worker[w] \in Jobs /\ InHand(worker[w])  BY DEF Typed, TypeOK
<1>2. job \in Jobs /\ job.at = l /\ job.me = worker[w].me /\ job.you = worker[w].you
      /\ job.group = worker[w].group
  BY <1>1 DEF Jobs, Places
<1>3. worker' = [worker EXCEPT ![w] = job]  OBVIOUS
<1> HIDE DEF job
<1>4. Onward(worker[w].at, l)  BY DEF Onward
<1>5. InHand(job)  BY <1>1, <1>2, <1>4, OnwardInHand
<1>6. QED BY <1>2, <1>3, <1>5, JobTyped

LEMMA HandleTyped ==
    ASSUME Typed, NEW w \in Workers, Handle(w)
    PROVE  worker' \in [Workers -> Jobs] /\ \A o \in Workers : InHand(worker'[o])
<1>0. worker[w] \in Jobs /\ InHand(worker[w])  BY DEF Typed, TypeOK
<1>1. CASE \/ AddFriend(w) \/ Reject(w) \/ MakeMutual(w) \/ DeleteFriend(w) \/ Reply(w)
           \/ NoNumber(w) \/ AddFounder(w) \/ JoinGroup(w) \/ QuitGroup(w) \/ InviteInsert(w)
  BY <1>1, RestTyped DEF AddFriend, Reject, MakeMutual, DeleteFriend, Reply, NoNumber, AddFounder,
                         JoinGroup, QuitGroup, InviteInsert
<1>2. CASE Accept(w)       BY <1>2, GotoTyped DEF Accept, Onward, Places
<1>3. CASE IsMember(w)     BY <1>3, GotoTyped DEF IsMember, Onward, ChatPlaces, Places
<1>4. CASE SelectFriend(w) BY <1>4, RestTyped, GotoTyped DEF SelectFriend, Onward, ChatPlaces, Places
<1>5. CASE AddMember(w)    BY <1>5, GotoTyped DEF AddMember, Onward, ChatPlaces, Places
<1>6. CASE SetExpire(w)    BY <1>6, GotoTyped DEF SetExpire, Onward, Places
<1>7. CASE CreateGroup(w)  BY <1>7, GotoTyped DEF CreateGroup, Onward, Places
<1>8. CASE InviteGroup(w)  BY <1>8, RestTyped, GotoTyped DEF InviteGroup, Onward, InvitePlaces, Places
<1>9. CASE InviteRole(w)   BY <1>9, RestTyped, GotoTyped DEF InviteRole, Onward, InvitePlaces, Places
<1>10. CASE InviteFriend(w) BY <1>10, RestTyped, GotoTyped DEF InviteFriend, Onward, InvitePlaces, Places
<1>11. CASE InviteNew(w)    BY <1>11, RestTyped, GotoTyped DEF InviteNew, Onward, InvitePlaces, Places
<1>12. CASE SetGroups(w)    BY <1>12, GotoTyped DEF SetGroups, Onward, Places
<1>13. CASE GetGroups(w)
  <2>1. worker[w].me \in Users  BY <1>0, <1>13 DEF GetGroups, InHand
  <2>2. listed[worker[w].me] \in SUBSET Groups  BY <2>1 DEF Typed, TypeOK
  <2>3. CASE listed[Me(w)] = {}
    <3>1. Goto(w, "groups") /\ worker[w].at = "show_groups"  BY <1>13, <2>3 DEF GetGroups, Goto
    <3>2. QED BY <3>1, GotoTyped DEF Onward, Places
  <2>4. CASE listed[Me(w)] # {}
    <3>1. worker' = [worker EXCEPT ![w] = [worker[w] EXCEPT !.at = "shown", !.list = listed[Me(w)]]]
      BY <1>0, <1>13, <2>4 DEF GetGroups, Jobs
    <3>2. QED BY <1>13, <2>2, <3>1, ListTyped DEF GetGroups, Me
  <2>5. QED BY <2>3, <2>4
<1>14. CASE SelectGroups(w)
  <2> DEFINE s == GroupsOf(Me(w))
  <2>1. worker' = [worker EXCEPT ![w] = [worker[w] EXCEPT !.at = "set", !.list = s]]
    BY <1>0, <1>14 DEF SelectGroups, Jobs
  <2>2. s \in SUBSET Groups /\ worker[w].at # "idle"
    BY <1>14 DEF GroupsOf, SelectGroups
  <2> HIDE DEF s
  <2>3. QED BY <2>1, <2>2, ListTyped
<1>15. QED BY <1>1, <1>2, <1>3, <1>4, <1>5, <1>6, <1>7, <1>8, <1>9, <1>10, <1>11, <1>12,
              <1>13, <1>14 DEF Handle

LEMMA AskTyped ==
    ASSUME Typed, NEW w \in Workers, Ask(w)
    PROVE  worker' \in [Workers -> Jobs] /\ \A o \in Workers : InHand(worker'[o])
<1>1. ASSUME NEW at \in Places, NEW u \in Users, NEW v \in Users \cup {Unset}, NEW g \in Groups \cup {Unset},
             worker' = [worker EXCEPT ![w] = Job(at, u, v, g)],
             at \in FriendChanges \cup ChatPlaces \cup InvitePlaces => v \in Users,
             at \in FriendChanges => u # v /\ {u, v} \in Acquainted,
             at \in GroupChanges \cup {"founder"} \cup InvitePlaces => g \in Groups
      PROVE  worker' \in [Workers -> Jobs] /\ \A o \in Workers : InHand(worker'[o])
  <2>1. Job(at, u, v, g) \in Jobs  BY <1>1 DEF Jobs, Job
  <2>2. InHand(Job(at, u, v, g))  BY <1>1 DEF InHand, Job
  <2>3. QED BY <1>1, <2>1, <2>2, JobTyped
<1>3. ASSUME NEW u \in Users, NEW v \in Users, AskAboutFriend(w, u, v)
      PROVE  worker' \in [Workers -> Jobs] /\ \A o \in Workers : InHand(worker'[o])
  <2>1. PICK at \in FriendChanges \ {"mutual"} :
            worker' = [worker EXCEPT ![w] = Job(at, u, v, Unset)]
    BY <1>3 DEF AskAboutFriend
  <2>2. at \in Places /\ at \notin GroupChanges \cup {"founder"} \cup InvitePlaces
    BY DEF FriendChanges, Places, GroupChanges, InvitePlaces
  <2>3. u # v /\ {u, v} \in Acquainted  BY <1>3 DEF AskAboutFriend
  <2>4. QED BY <1>1, <2>1, <2>2, <2>3
<1>4. ASSUME NEW u \in Users, NEW g \in Groups, AskAboutGroup(w, u, g)
      PROVE  worker' \in [Workers -> Jobs] /\ \A o \in Workers : InHand(worker'[o])
  <2>1. PICK at \in GroupChanges : worker' = [worker EXCEPT ![w] = Job(at, u, Unset, g)]
    BY <1>4 DEF AskAboutGroup
  <2>2. at \in Places /\ at \notin FriendChanges \cup ChatPlaces \cup InvitePlaces
    BY DEF FriendChanges, Places, GroupChanges, InvitePlaces, ChatPlaces
  <2>3. QED BY <1>1, <2>1, <2>2
<1>5. ASSUME NEW u \in Users, NEW v \in Users, NEW g \in Groups, AskToInvite(w, u, v, g)
      PROVE  worker' \in [Workers -> Jobs] /\ \A o \in Workers : InHand(worker'[o])
  <2>1. worker' = [worker EXCEPT ![w] = Job("invite_group", u, v, g)]
    BY <1>5 DEF AskToInvite
  <2>2. "invite_group" \in Places /\ "invite_group" \notin FriendChanges
    BY DEF FriendChanges, Places
  <2>3. QED BY <1>1, <2>1, <2>2
<1>6. ASSUME NEW u \in Users, NEW v \in Users, AskToChat(w, u, v)
      PROVE  worker' \in [Workers -> Jobs] /\ \A o \in Workers : InHand(worker'[o])
  <2>1. worker' = [worker EXCEPT ![w] = Job("is_friend", u, v, Unset)]
    BY <1>6 DEF AskToChat
  <2>2. "is_friend" \in Places /\ "is_friend" \notin FriendChanges \cup GroupChanges \cup {"founder"} \cup InvitePlaces
    BY DEF FriendChanges, Places, GroupChanges, InvitePlaces
  <2>3. QED BY <1>1, <2>1, <2>2
<1>7. ASSUME NEW u \in Users, AskForGroups(w, u)
      PROVE  worker' \in [Workers -> Jobs] /\ \A o \in Workers : InHand(worker'[o])
  <2>1. worker' = [worker EXCEPT ![w] = Job("show_groups", u, Unset, Unset)]
    BY <1>7 DEF AskForGroups
  <2>2. /\ "show_groups" \in Places
        /\ "show_groups" \notin FriendChanges \cup ChatPlaces \cup GroupChanges \cup {"founder"} \cup InvitePlaces
    BY DEF FriendChanges, Places, GroupChanges, InvitePlaces, ChatPlaces
  <2>3. QED BY <1>1, <2>1, <2>2
<1>8. QED BY <1>3, <1>4, <1>5, <1>6, <1>7 DEF Ask

(* ... and leaves the tables and the cache typed. *)
LEMMA TablesTyped ==
    ASSUME Typed, NEW w \in Workers, Handle(w)
    PROVE  /\ relation' \in [Users -> [Users -> {"none", "pending", "accepted", "rejected"}]]
           /\ role' \in [Groups -> [Users -> {"none", "member", "admin"}]] /\ founded' \subseteq Groups
           /\ changes' \in 0..MaxChanges /\ orderly' \subseteq Acquainted
<1>0. worker[w] \in Jobs /\ InHand(worker[w])  BY DEF Typed, TypeOK
<1> USE DEF TypeOK, Typed, tables, Me, You, GroupOf
<1>r. ASSUME NEW g \in Groups, NEW u \in Users, NEW r \in {"none", "member", "admin"}, SetRole(g, u, r)
      PROVE  role' \in [Groups -> [Users -> {"none", "member", "admin"}]]
  BY <1>r DEF SetRole
<1>1. CASE AddFriend(w)     BY <1>0, <1>1 DEF AddFriend, InHand, FriendChanges
<1>2. CASE Accept(w)        BY <1>0, <1>2 DEF Accept, Answer, InHand, FriendChanges
<1>3. CASE Reject(w)        BY <1>0, <1>3 DEF Reject, Answer, InHand, FriendChanges
<1>4. CASE MakeMutual(w)    BY <1>0, <1>4 DEF MakeMutual, InHand, FriendChanges
<1>5. CASE DeleteFriend(w)  BY <1>0, <1>5 DEF DeleteFriend, InHand, FriendChanges
<1>6. CASE CreateGroup(w)   BY <1>0, <1>6 DEF CreateGroup, InHand, GroupChanges
<1>7. CASE AddFounder(w)
  <2>1. worker[w].group \in Groups /\ worker[w].me \in Users  BY <1>0, <1>7 DEF AddFounder, InHand
  <2>2. QED BY <1>r, <1>7, <2>1 DEF AddFounder
<1>8. CASE JoinGroup(w)
  <2>1. worker[w].group \in Groups /\ worker[w].me \in Users  BY <1>0, <1>8 DEF JoinGroup, InHand, GroupChanges
  <2>2. QED BY <1>r, <1>8, <2>1 DEF JoinGroup
<1>9. CASE QuitGroup(w)
  <2>1. worker[w].group \in Groups /\ worker[w].me \in Users  BY <1>0, <1>9 DEF QuitGroup, InHand, GroupChanges
  <2>2. QED BY <1>r, <1>9, <2>1 DEF QuitGroup
<1>10. CASE InviteInsert(w)
  <2>1. worker[w].group \in Groups /\ worker[w].you \in Users  BY <1>0, <1>10 DEF InviteInsert, InHand, InvitePlaces
  <2>2. QED BY <1>r, <1>10, <2>1 DEF InviteInsert
<1>11. CASE \/ IsMember(w) \/ SelectFriend(w) \/ AddMember(w) \/ SetExpire(w) \/ Reply(w)
            \/ NoNumber(w) \/ InviteGroup(w) \/ InviteRole(w) \/ InviteFriend(w) \/ InviteNew(w)
            \/ GetGroups(w) \/ SelectGroups(w) \/ SetGroups(w)
  BY <1>11 DEF IsMember, SelectFriend, AddMember, SetExpire, Reply, NoNumber, InviteGroup,
               InviteRole, InviteFriend, InviteNew, GetGroups, SelectGroups, SetGroups
<1>12. QED BY <1>1, <1>2, <1>3, <1>4, <1>5, <1>6, <1>7, <1>8, <1>9, <1>10, <1>11 DEF Handle

CacheTyped ==
    /\ friends \in [Users -> SUBSET Users] /\ listed \in [Users -> SUBSET Groups]
    /\ friendsLife \in [Users -> 0..FriendsExpire \cup {Unset}]
    /\ listedLife \in [Users -> 0..GroupsExpire]

LEMMA CacheStaysTyped ==
    ASSUME Typed, NEW w \in Workers, Handle(w)
    PROVE  CacheTyped'
<1>0. worker[w] \in Jobs /\ InHand(worker[w]) /\ CacheTyped  BY DEF Typed, TypeOK, CacheTyped
<1>1. CASE AddMember(w)
  <2>1. worker[w].me \in Users /\ worker[w].you \in Users
    BY <1>0, <1>1 DEF AddMember, InHand, ChatPlaces
  <2>2. QED BY <1>0, <1>1, <2>1 DEF AddMember, CacheTyped, Me, You
<1>2. CASE SetExpire(w)
  <2>1. FriendsExpire \in 0..FriendsExpire  BY FriendsAssumption
  <2>2. QED BY <1>0, <1>2, <2>1 DEF SetExpire, CacheTyped
<1>3. CASE SetGroups(w)
  <2>1. 0 \in 0..GroupsExpire /\ GroupsExpire \in 0..GroupsExpire /\ worker[w].list \in SUBSET Groups
    BY <1>0, FriendsAssumption DEF Jobs
  <2>2. QED BY <1>0, <1>3, <2>1 DEF SetGroups, CacheTyped
<1>4. CASE UNCHANGED cache  BY <1>0, <1>4 DEF cache, CacheTyped
<1>5. QED BY <1>1, <1>2, <1>3, <1>4
  DEF Handle, AddFriend, Accept, Reject, MakeMutual, DeleteFriend, IsMember, SelectFriend, Reply,
      CreateGroup, NoNumber, AddFounder, JoinGroup, QuitGroup, InviteGroup, InviteRole,
      InviteFriend, InviteNew, InviteInsert, GetGroups, SelectGroups

LEMMA TickTyped ==
    ASSUME Typed, Tick
    PROVE  CacheTyped'
<1>1. CacheTyped  BY DEF Typed, TypeOK, CacheTyped
<1>2. \A u \in Users : Older(friendsLife[u]) \in 0..FriendsExpire \cup {Unset}
                        /\ Older(listedLife[u]) \in 0..GroupsExpire
  BY <1>1, FriendsAssumption DEF Older, CacheTyped
<1>3. QED BY <1>1, <1>2 DEF Tick, CacheTyped

LEMMA TypedInit == Init => Typed
<1> SUFFICES ASSUME Init PROVE Typed  OBVIOUS
<1>1. Resting \in Jobs /\ Resting.at = "idle"  BY DEF Resting, Job, Jobs, Places
<1>2. InHand(Resting)
  BY <1>1 DEF InHand, FriendChanges, GroupChanges, ChatPlaces, InvitePlaces
<1>3. CacheTyped  BY FriendsAssumption DEF Init, CacheTyped
<1>4. 0 \in 0..MaxChanges  BY FriendsAssumption
<1>5. QED BY <1>1, <1>2, <1>3, <1>4 DEF Init, Typed, TypeOK, CacheTyped

LEMMA TypedNext == Typed /\ [Next]_vars => Typed'
<1> SUFFICES ASSUME Typed, [Next]_vars PROVE Typed'  OBVIOUS
<1>1. CASE UNCHANGED vars  BY <1>1 DEF vars, tables, cache, Typed, TypeOK
<1>2. ASSUME NEW w \in Workers, Handle(w) PROVE Typed'
  BY <1>2, HandleTyped, TablesTyped, CacheStaysTyped DEF Typed, TypeOK, CacheTyped
<1>3. ASSUME NEW w \in Workers, Ask(w) PROVE Typed'
  <2>1. UNCHANGED <<tables, cache>>
    BY <1>3 DEF Ask, AskAboutFriend, AskAboutGroup, AskToInvite, AskToChat, AskForGroups
  <2>2. changes' \in 0..MaxChanges
    <3>1. changes' = changes \/ (changes < MaxChanges /\ changes' = changes + 1)
      BY <1>3 DEF Ask, AskAboutFriend, AskAboutGroup, AskToInvite, AskToChat, AskForGroups
    <3>2. changes \in 0..MaxChanges /\ MaxChanges \in Nat  BY FriendsAssumption DEF Typed, TypeOK
    <3>3. QED BY <3>1, <3>2
  <2>3. orderly' \subseteq Acquainted
    BY <1>3 DEF Ask, AskAboutFriend, AskAboutGroup, AskToInvite, AskToChat, AskForGroups, Typed, TypeOK
  <2>4. QED BY <1>3, <2>1, <2>2, <2>3, AskTyped DEF Typed, TypeOK, tables, cache
<1>4. CASE Tick
  BY <1>4, TickTyped DEF Tick, Typed, TypeOK, CacheTyped, tables
<1>5. QED BY <1>1, <1>2, <1>3, <1>4 DEF Next

LEMMA TypedAlways == Spec => []Typed
BY TypedInit, TypedNext, PTL DEF Spec

(* Types: whoever is in hand at each place is a user or a group, no key      *)
(* outlives its lifetime, a pair is orderly only if it may change.           *)
THEOREM TypeCorrect == Spec => []TypeOK
<1>1. Typed => TypeOK  BY DEF Typed
<1>2. QED BY <1>1, TypedAlways, PTL

-----------------------------------------------------------------------------
(* Friendship is mutual. *)

(* An orderly pair has one request at most. *)
Alone == \A w, o \in Workers, u, v \in Users :
    {u, v} \in orderly /\ Changes(w, u, v) /\ Changes(o, u, v) => w = o

Agree(u, v) == \/ relation[u][v] = "none" /\ relation[v][u] # "accepted"
               \/ relation[v][u] = "none" /\ relation[u][v] # "accepted"
               \/ relation[u][v] = "accepted" /\ relation[v][u] = "accepted"

Rows == \A u, v \in Users : {u, v} \in orderly =>
    Agree(u, v) \/ \E w \in Workers : worker[w].at = "mutual" /\ Changes(w, u, v)

(* The rows that the handler of an orderly pair's request finds. *)
Finds(job) ==
    /\ job.at = "add_friend" => relation[job.you][job.me] = "none"
    /\ job.at \in {"accept", "reject"} =>
           relation[job.you][job.me] = "pending" /\ relation[job.me][job.you] = "none"
    /\ job.at = "mutual" =>
           relation[job.you][job.me] = "accepted" /\ relation[job.me][job.you] = "none"
    /\ job.at # "mutual" => Agree(job.me, job.you)

Seen == \A w \in Workers :
    worker[w].at \in FriendChanges /\ {worker[w].me, worker[w].you} \in orderly => Finds(worker[w])

Orderly == Alone /\ Rows /\ Seen

(* A step of worker w that is not about a pair's rows ... *)
Elsewhere(w) ==
    /\ UNCHANGED <<relation, orderly>>
    /\ \A o \in Workers \ {w} : worker'[o] = worker[o]
    /\ worker[w].at \notin FriendChanges /\ worker'[w].at \notin FriendChanges

(* ... as most of them are, keeps the invariant. *)
LEMMA ElsewhereKeeps ==
    ASSUME NEW w \in Workers, Orderly, Elsewhere(w)
    PROVE  Orderly'
<1>1. \A o \in Workers, u, v \in Users : Changes(o, u, v)' = Changes(o, u, v)
  BY DEF Changes, Elsewhere
<1>2. \A o \in Workers : worker[o].at \in FriendChanges \/ worker'[o].at \in FriendChanges
                          => worker'[o] = worker[o]
  BY DEF Elsewhere
<1>3. orderly' = orderly /\ relation' = relation  BY DEF Elsewhere
<1>4. Alone'  BY <1>1, <1>3 DEF Orderly, Alone
<1>5. Rows'   BY <1>1, <1>2, <1>3 DEF Orderly, Rows, Agree, FriendChanges
<1>6. Seen'   BY <1>2, <1>3 DEF Orderly, Seen, Finds, Agree
<1>7. QED BY <1>4, <1>5, <1>6 DEF Orderly

LEMMA OtherHandlers ==
    ASSUME NEW w \in Workers, Typed,
           \/ IsMember(w) \/ SelectFriend(w) \/ AddMember(w) \/ SetExpire(w) \/ Reply(w)
           \/ CreateGroup(w) \/ NoNumber(w) \/ AddFounder(w) \/ JoinGroup(w) \/ QuitGroup(w)
           \/ InviteGroup(w) \/ InviteRole(w) \/ InviteFriend(w) \/ InviteNew(w) \/ InviteInsert(w)
           \/ GetGroups(w) \/ SelectGroups(w) \/ SetGroups(w)
    PROVE  Elsewhere(w)
<1>0. worker \in [Workers -> Jobs] /\ worker[w] \in Jobs /\ Resting.at = "idle"
  BY DEF Typed, TypeOK, Resting, Job
<1>r. Rest(w) => (\A o \in Workers \ {w} : worker'[o] = worker[o]) /\ worker'[w].at = "idle"
  BY <1>0 DEF Rest
<1>g. ASSUME NEW l, Goto(w, l)
      PROVE  (\A o \in Workers \ {w} : worker'[o] = worker[o]) /\ worker'[w].at = l
  BY <1>0, <1>g DEF Goto, Jobs
<1> USE DEF Elsewhere, FriendChanges, tables
<1>1. CASE IsMember(w)      BY <1>g, <1>1 DEF IsMember
<1>2. CASE SelectFriend(w)  BY <1>r, <1>g, <1>2 DEF SelectFriend
<1>3. CASE AddMember(w)     BY <1>g, <1>3 DEF AddMember
<1>4. CASE SetExpire(w)     BY <1>g, <1>4 DEF SetExpire
<1>5. CASE Reply(w)         BY <1>r, <1>5 DEF Reply
<1>6. CASE CreateGroup(w)   BY <1>g, <1>6 DEF CreateGroup
<1>7. CASE NoNumber(w)      BY <1>r, <1>7 DEF NoNumber
<1>8. CASE AddFounder(w)    BY <1>r, <1>8 DEF AddFounder
<1>9. CASE JoinGroup(w)     BY <1>r, <1>9 DEF JoinGroup
<1>10. CASE QuitGroup(w)    BY <1>r, <1>10 DEF QuitGroup
<1>11. CASE InviteGroup(w)  BY <1>r, <1>g, <1>11 DEF InviteGroup
<1>12. CASE InviteRole(w)   BY <1>r, <1>g, <1>12 DEF InviteRole
<1>13. CASE InviteFriend(w) BY <1>r, <1>g, <1>13 DEF InviteFriend
<1>14. CASE InviteNew(w)    BY <1>r, <1>g, <1>14 DEF InviteNew
<1>15. CASE InviteInsert(w) BY <1>r, <1>15 DEF InviteInsert
<1>16. CASE GetGroups(w)
  <2>1. \A o \in Workers \ {w} : worker'[o] = worker[o]  BY <1>0, <1>16 DEF GetGroups
  <2>2. worker'[w].at \in {"groups", "shown"}  BY <1>0, <1>16 DEF GetGroups, Jobs
  <2>3. QED BY <1>16, <2>1, <2>2 DEF GetGroups
<1>17. CASE SelectGroups(w)
  <2>1. \A o \in Workers \ {w} : worker'[o] = worker[o]  BY <1>0, <1>17 DEF SelectGroups
  <2>2. worker'[w].at \in {"set", "shown"}  BY <1>0, <1>17 DEF SelectGroups, Jobs
  <2>3. QED BY <1>17, <2>1, <2>2 DEF SelectGroups
<1>18. CASE SetGroups(w)    BY <1>g, <1>18 DEF SetGroups
<1>19. QED BY <1>1, <1>2, <1>3, <1>4, <1>5, <1>6, <1>7, <1>8, <1>9, <1>10, <1>11, <1>12,
              <1>13, <1>14, <1>15, <1>16, <1>17, <1>18

LEMMA OtherRequests ==
    ASSUME NEW w \in Workers, Typed, NEW u \in Users, NEW v \in Users, NEW g \in Groups,
           AskAboutGroup(w, u, g) \/ AskToInvite(w, u, v, g)
    PROVE  Elsewhere(w)
<1>0. worker \in [Workers -> Jobs] /\ Resting.at = "idle"  BY DEF Typed, TypeOK, Resting, Job
<1> USE DEF Elsewhere, FriendChanges, GroupChanges, tables, Job
<1>1. CASE AskAboutGroup(w, u, g)  BY <1>0, <1>1 DEF AskAboutGroup
<1>2. CASE AskToInvite(w, u, v, g) BY <1>0, <1>2 DEF AskToInvite
<1>3. QED BY <1>1, <1>2

LEMMA ReadingRequests ==
    ASSUME NEW w \in Workers, Typed, NEW u \in Users, NEW v \in Users,
           AskToChat(w, u, v) \/ AskForGroups(w, u)
    PROVE  Elsewhere(w)
<1>0. worker \in [Workers -> Jobs] /\ Resting.at = "idle"  BY DEF Typed, TypeOK, Resting, Job
<1> USE DEF Elsewhere, FriendChanges, tables, Job
<1>1. CASE AskToChat(w, u, v)      BY <1>0, <1>1 DEF AskToChat
<1>2. CASE AskForGroups(w, u)      BY <1>0, <1>2 DEF AskForGroups
<1>3. QED BY <1>1, <1>2

(* A step of worker w about the pair {a, b}. *)
About(w, a, b) ==
    /\ \A u, v \in Users : {u, v} # {a, b} => relation'[u][v] = relation[u][v]
    /\ \A q \in Acquainted : q # {a, b} => (q \in orderly' <=> q \in orderly)
    /\ \A o \in Workers \ {w} : worker'[o] = worker[o]
    /\ \A u, v \in Users : Changes(w, u, v) \/ Changes(w, u, v)' => {u, v} = {a, b}
    /\ {a, b} \in orderly' =>
           /\ \A o \in Workers \ {w} : ~ Changes(o, a, b)
           /\ worker'[w].at \in FriendChanges => Finds(worker[w])'
           /\ Agree(a, b)' \/ (worker'[w].at = "mutual" /\ Changes(w, a, b)')

LEMMA AboutKeeps ==
    ASSUME Typed, Orderly, NEW w \in Workers, NEW a \in Users, NEW b \in Users, a # b,
           About(w, a, b), orderly' \subseteq Acquainted
    PROVE  Orderly'
<1>0. orderly \subseteq Acquainted  BY DEF Typed, TypeOK
<1>1. \A o \in Workers \ {w}, u, v \in Users : Changes(o, u, v)' <=> Changes(o, u, v)
  BY DEF About, Changes
<1>2. \A u, v \in Users : {u, v} # {a, b} => ({u, v} \in orderly' <=> {u, v} \in orderly)
  BY <1>0 DEF About
<1>3. Alone'
  <2>1. SUFFICES ASSUME NEW o \in Workers, NEW p \in Workers, NEW u \in Users, NEW v \in Users,
                        {u, v} \in orderly', Changes(o, u, v)', Changes(p, u, v)'
                 PROVE  o = p
    BY DEF Alone
  <2>2. CASE {u, v} = {a, b}
    <3>1. \A q \in Workers \ {w} : ~ Changes(q, u, v)
      BY <2>1, <2>2 DEF About, Changes
    <3>2. QED BY <1>1, <2>1, <3>1
  <2>3. CASE {u, v} # {a, b}
    <3>1. o # w /\ p # w  BY <2>1, <2>3 DEF About
    <3>2. QED BY <1>1, <1>2, <2>1, <2>3, <3>1 DEF Orderly, Alone
  <2>4. QED BY <2>2, <2>3
<1>4. ASSUME NEW u \in Users, NEW v \in Users, {u, v} # {a, b}
      PROVE  relation'[u][v] = relation[u][v] /\ relation'[v][u] = relation[v][u]
  <2>1. {v, u} = {u, v}  OBVIOUS
  <2>2. QED BY <1>4, <2>1 DEF About
<1>5. Rows'
  <2>1. SUFFICES ASSUME NEW u \in Users, NEW v \in Users, {u, v} \in orderly'
                 PROVE  Agree(u, v)' \/ \E o \in Workers : worker'[o].at = "mutual" /\ Changes(o, u, v)'
    BY DEF Rows
  <2>2. CASE {u, v} = {a, b}
    <3>1. (u = a /\ v = b) \/ (u = b /\ v = a)  BY <2>2
    <3>2. Agree(a, b)' <=> Agree(b, a)'  BY DEF Agree
    <3>3. Changes(w, a, b)' <=> Changes(w, u, v)'  BY <2>2 DEF Changes
    <3>4. QED BY <2>1, <2>2, <3>1, <3>2, <3>3 DEF About
  <2>3. CASE {u, v} # {a, b}
    <3>1. {u, v} \in orderly  BY <1>2, <2>1, <2>3
    <3>2. CASE Agree(u, v)
      <4>1. relation'[u][v] = relation[u][v] /\ relation'[v][u] = relation[v][u]  BY <1>4, <2>3
      <4>2. QED BY <3>2, <4>1 DEF Agree
    <3>3. ASSUME NEW o \in Workers, worker[o].at = "mutual", Changes(o, u, v)
          PROVE  worker'[o].at = "mutual" /\ Changes(o, u, v)'
      BY <1>1, <2>3, <3>3 DEF About
    <3>4. QED BY <3>1, <3>2, <3>3 DEF Orderly, Rows
  <2>4. QED BY <2>2, <2>3
<1>6. Seen'
  <2>1. SUFFICES ASSUME NEW o \in Workers, worker'[o].at \in FriendChanges,
                        {worker'[o].me, worker'[o].you} \in orderly'
                 PROVE  Finds(worker[o])'
    BY DEF Seen
  <2>2. CASE o = w
    <3>1. PICK u \in Users, v \in Users : {worker'[w].me, worker'[w].you} = {u, v}
      BY <2>1, <2>2, FriendsAssumption
    <3>2. Changes(w, u, v)'  BY <2>1, <2>2, <3>1 DEF Changes
    <3>3. {u, v} = {a, b}  BY <3>2 DEF About
    <3>4. QED BY <2>1, <2>2, <3>1, <3>3 DEF About
  <2>3. CASE o # w
    <3>1. worker'[o] = worker[o]  BY <2>3 DEF About
    <3>2. worker[o].me \in Users /\ worker[o].you \in Users
      BY <2>1, <3>1 DEF Typed, InHand, FriendChanges
    <3>3. Changes(o, worker[o].me, worker[o].you)  BY <2>1, <3>1 DEF Changes
    <3>4. {worker[o].me, worker[o].you} # {a, b}
      BY <2>1, <2>3, <3>1, <3>3 DEF About, Changes
    <3>5. Finds(worker[o])  BY <1>2, <2>1, <3>1, <3>2, <3>4 DEF Orderly, Seen
    <3>6. /\ relation'[worker[o].me][worker[o].you] = relation[worker[o].me][worker[o].you]
          /\ relation'[worker[o].you][worker[o].me] = relation[worker[o].you][worker[o].me]
      BY <1>4, <3>2, <3>4
    <3>7. QED BY <3>1, <3>5, <3>6 DEF Finds, Agree
  <2>4. QED BY <2>2, <2>3
<1>7. QED BY <1>3, <1>5, <1>6 DEF Orderly

LEMMA AskAboutFriendKeeps ==
    ASSUME Typed, Orderly, NEW w \in Workers, NEW u \in Users, NEW v \in Users,
           AskAboutFriend(w, u, v)
    PROVE  Orderly'
<1>1. PICK cmd \in FriendChanges \ {"mutual"} :
        /\ worker[w] = Resting /\ {u, v} \in Acquainted /\ u # v
        /\ worker' = [worker EXCEPT ![w] = Job(cmd, u, v, Unset)]
        /\ orderly' = IF Proper(cmd, u, v) THEN orderly ELSE orderly \ {{u, v}}
        /\ relation' = relation
  BY DEF AskAboutFriend, tables
<1>2. worker \in [Workers -> Jobs] /\ orderly \subseteq Acquainted  BY DEF Typed, TypeOK
<1>3. /\ \A o \in Workers \ {w} : worker'[o] = worker[o]
      /\ worker'[w].at = cmd /\ worker'[w].me = u /\ worker'[w].you = v
  BY <1>1, <1>2 DEF Job
<1>4. \A x, y \in Users : ~ Changes(w, x, y) /\ (Changes(w, x, y)' => {x, y} = {u, v})
  BY <1>1, <1>3 DEF Changes, Resting, Job, FriendChanges
<1>5. ASSUME {u, v} \in orderly'
      PROVE  /\ \A o \in Workers \ {w} : ~ Changes(o, u, v)
             /\ Finds(worker[w])' /\ Agree(u, v)'
  <2>1. Proper(cmd, u, v) /\ {u, v} \in orderly  BY <1>1, <1>5
  <2>2. \A o \in Workers : ~ Changes(o, u, v)  BY <2>1 DEF Proper, UnderWay
  <2>3. Agree(u, v)  BY <2>1, <2>2 DEF Orderly, Rows
  <2>4. Agree(u, v)'  BY <1>1, <2>3 DEF Agree
  <2>5. Finds(worker[w])'
    BY <1>1, <1>3, <2>1, <2>3, <2>4 DEF Finds, Proper, Agree, FriendChanges
  <2>6. QED BY <2>2, <2>4, <2>5
<1>6. About(w, u, v)  BY <1>1, <1>3, <1>4, <1>5 DEF About
<1>7. QED BY <1>1, <1>2, <1>6, AboutKeeps

(* The statements of an orderly pair's request. *)
LEMMA StatementKeeps ==
    ASSUME Typed, Orderly, NEW w \in Workers,
           AddFriend(w) \/ Accept(w) \/ Reject(w) \/ MakeMutual(w) \/ DeleteFriend(w)
    PROVE  Orderly'
<1>1. /\ worker \in [Workers -> Jobs] /\ orderly \subseteq Acquainted
      /\ relation \in [Users -> [Users -> {"none", "pending", "accepted", "rejected"}]]
  BY DEF Typed, TypeOK
<1>2. worker[w].at \in FriendChanges
  BY DEF AddFriend, Accept, Reject, MakeMutual, DeleteFriend, FriendChanges
<1>3. PICK a \in Users, b \in Users :
        a = worker[w].me /\ b = worker[w].you /\ a # b /\ {a, b} \in Acquainted
  BY <1>2 DEF Typed, InHand, FriendChanges
<1>4. /\ \A o \in Workers \ {w} : worker'[o] = worker[o]
      /\ worker'[w].at = (IF worker[w].at = "accept" THEN "mutual" ELSE "idle")
      /\ worker[w].at = "accept" => worker'[w].me = a /\ worker'[w].you = b
  BY <1>1, <1>3 DEF AddFriend, Accept, Reject, MakeMutual, DeleteFriend, Rest, Goto, Resting, Job, Jobs
<1>5. \A u, v \in Users : Changes(w, u, v) \/ Changes(w, u, v)' => {u, v} = {a, b}
  BY <1>3, <1>4 DEF Changes, FriendChanges
<1>6. \A u, v \in Users : {u, v} # {a, b} => relation'[u][v] = relation[u][v]
  BY <1>1, <1>3 DEF AddFriend, Accept, Reject, MakeMutual, DeleteFriend, Answer, Me, You
<1>7. orderly' \subseteq Acquainted
      /\ \A q \in Acquainted : q # {a, b} => (q \in orderly' <=> q \in orderly)
  BY <1>1, <1>3 DEF AddFriend, Accept, Reject, MakeMutual, DeleteFriend, Me, You
<1>8. ASSUME {a, b} \in orderly'
      PROVE  \A o \in Workers \ {w} : ~ Changes(o, a, b)
  <2>1. CASE {a, b} \in orderly
    <3>1. Changes(w, a, b)  BY <1>2, <1>3 DEF Changes
    <3>2. QED BY <1>3, <2>1, <3>1 DEF Orderly, Alone
  <2>2. CASE {a, b} \notin orderly
    BY <1>3, <1>8, <2>2 DEF AddFriend, Accept, Reject, MakeMutual, DeleteFriend, Me, You
  <2>3. QED BY <2>1, <2>2
<1>9. {a, b} \in orderly /\ worker[w].at # "delete_friend" => Finds(worker[w])
  BY <1>2, <1>3 DEF Orderly, Seen
<1>10. ASSUME {a, b} \in orderly'
       PROVE  /\ worker'[w].at \in FriendChanges => Finds(worker[w])'
              /\ Agree(a, b)' \/ (worker'[w].at = "mutual" /\ Changes(w, a, b)')
  <2>1. CASE AddFriend(w)
    <3>1. Finds(worker[w]) /\ worker[w].at = "add_friend"
      BY <1>9, <1>10, <2>1 DEF AddFriend
    <3>2. relation'[b][a] = "none" /\ relation'[a][b] # "accepted"
      BY <1>1, <1>3, <2>1, <3>1 DEF AddFriend, Finds, Agree, Me, You
    <3>3. QED BY <1>4, <3>1, <3>2 DEF Agree, FriendChanges
  <2>2. CASE Accept(w)
    <3>1. Finds(worker[w]) /\ worker[w].at = "accept"
      BY <1>9, <1>10, <2>2 DEF Accept
    <3>2. relation'[b][a] = "accepted" /\ relation'[a][b] = "none"
      BY <1>1, <1>3, <2>2, <3>1 DEF Accept, Answer, Finds, Me, You
    <3>3. QED BY <1>4, <3>1, <3>2 DEF Finds, Changes, FriendChanges
  <2>3. CASE Reject(w)
    <3>1. Finds(worker[w]) /\ worker[w].at = "reject"
      BY <1>9, <1>10, <2>3 DEF Reject
    <3>2. relation'[b][a] = "rejected" /\ relation'[a][b] = "none"
      BY <1>1, <1>3, <2>3, <3>1 DEF Reject, Answer, Finds, Me, You
    <3>3. QED BY <1>4, <3>1, <3>2 DEF Agree, FriendChanges
  <2>4. CASE MakeMutual(w)
    <3>1. Finds(worker[w]) /\ worker[w].at = "mutual"
      BY <1>9, <1>10, <2>4 DEF MakeMutual
    <3>2. relation'[b][a] = "accepted" /\ relation'[a][b] = "accepted"
      BY <1>1, <1>3, <2>4, <3>1 DEF MakeMutual, Finds, Me, You
    <3>3. QED BY <1>4, <3>1, <3>2 DEF Agree, FriendChanges
  <2>5. CASE DeleteFriend(w)
    <3>1. relation'[a][b] = "none" /\ relation'[b][a] = "none" /\ worker[w].at = "delete_friend"
      BY <1>1, <1>3, <2>5 DEF DeleteFriend, Me, You
    <3>2. QED BY <1>4, <3>1 DEF Agree, FriendChanges
  <2>6. QED BY <2>1, <2>2, <2>3, <2>4, <2>5
<1>11. About(w, a, b)  BY <1>4, <1>5, <1>6, <1>7, <1>8, <1>10 DEF About
<1>12. QED BY <1>3, <1>7, <1>11, AboutKeeps

LEMMA OrderlyInit == Init => Orderly
<1> SUFFICES ASSUME Init PROVE Orderly  OBVIOUS
<1>1. \A w \in Workers : worker[w].at \notin FriendChanges
  BY DEF Init, Resting, Job, FriendChanges
<1>2. Alone /\ Seen  BY <1>1 DEF Alone, Seen, Changes
<1>3. Rows
  <2>1. SUFFICES ASSUME NEW u \in Users, NEW v \in Users, {u, v} \in orderly
                 PROVE  Agree(u, v)
    BY DEF Rows
  <2>2. {u, v} \notin Old /\ {v, u} = {u, v}  BY <2>1, FriendsAssumption DEF Init
  <2>3. relation[u][v] = "none" /\ relation[v][u] = "none"  BY <2>2 DEF Init
  <2>4. QED BY <2>3 DEF Agree
<1>4. QED BY <1>2, <1>3 DEF Orderly

LEMMA OrderlyNext == Typed /\ Orderly /\ [Next]_vars => Orderly'
<1> SUFFICES ASSUME Typed, Orderly, [Next]_vars PROVE Orderly'  OBVIOUS
<1>1. CASE UNCHANGED <<relation, worker, orderly>>
  BY <1>1 DEF Orderly, Alone, Rows, Seen, Changes, Finds, Agree
<1>2. CASE Tick \/ UNCHANGED vars  BY <1>1, <1>2 DEF Tick, vars, tables
<1>3. ASSUME NEW w \in Workers, Handle(w) PROVE Orderly'
  BY <1>3, OtherHandlers, ElsewhereKeeps, StatementKeeps DEF Handle
<1>4. ASSUME NEW w \in Workers, Ask(w) PROVE Orderly'
  BY <1>4, OtherRequests, ReadingRequests, ElsewhereKeeps, AskAboutFriendKeeps DEF Ask
<1>5. QED BY <1>2, <1>3, <1>4 DEF Next

(* However many workers handle the requests of however many users, and with  *)
(* other pairs breaking the rules: users who keep them are friends of each   *)
(* other or not at all when no request of theirs is under way.               *)
THEOREM MutualHolds == Spec => []Mutual
<1>1. Orderly => Mutual
  <2>1. SUFFICES ASSUME Orderly, NEW u \in Users, NEW v \in Users,
                        {u, v} \in orderly, ~ UnderWay(u, v)
                 PROVE  relation[u][v] = "accepted" <=> relation[v][u] = "accepted"
    BY DEF Mutual
  <2>2. Agree(u, v)  BY <2>1 DEF Orderly, Rows, UnderWay
  <2>3. QED BY <2>2 DEF Agree
<1>2. Typed /\ Orderly /\ [Next]_vars => (Typed /\ Orderly)'  BY TypedNext, OrderlyNext
<1>3. Init => Typed /\ Orderly  BY TypedInit, OrderlyInit
<1>4. QED BY <1>1, <1>2, <1>3, PTL DEF Spec

-----------------------------------------------------------------------------
(* Keys without a lifetime. *)

(* Only an existing key can be without one. *)
Watched == \A u \in Users : friendsLife[u] = Unset =>
    friends[u] # {} /\ \E w \in Workers : worker[w].at = "expire" /\ worker[w].me = u

(* A step that leaves the friends in Redis alone, of a worker that has no    *)
(* lifetime to set, endangers none.                                          *)
LEMMA WatchedElsewhere ==
    ASSUME Watched, NEW w \in Workers, UNCHANGED <<friends, friendsLife>>,
           worker[w].at # "expire", \A o \in Workers \ {w} : worker'[o] = worker[o]
    PROVE  Watched'
BY DEF Watched

LEMMA WatchedNext == Typed /\ Watched /\ [Next]_vars => Watched'
<1> SUFFICES ASSUME Typed, Watched, [Next]_vars PROVE Watched'  OBVIOUS
<1>0. /\ worker \in [Workers -> Jobs] /\ friends \in [Users -> SUBSET Users]
      /\ friendsLife \in [Users -> 0..FriendsExpire \cup {Unset}]
  BY DEF Typed, TypeOK
<1>1. CASE UNCHANGED vars  BY <1>1 DEF vars, cache, Watched
<1>2. CASE Tick
  <2>1. SUFFICES ASSUME NEW u \in Users, friendsLife'[u] = Unset
                 PROVE  /\ friends'[u] # {}
                        /\ \E w \in Workers : worker'[w].at = "expire" /\ worker'[w].me = u
    BY DEF Watched
  <2>2. friendsLife[u] = Unset
    BY <1>0, <1>2, <2>1, FriendsAssumption DEF Tick, Older
  <2>3. friends'[u] = friends[u] /\ worker' = worker
    BY <1>2, <2>2, FriendsAssumption DEF Tick
  <2>4. QED BY <2>2, <2>3 DEF Watched
<1>3. ASSUME NEW w \in Workers, Ask(w) PROVE Watched'
  <2>1. UNCHANGED <<friends, friendsLife>> /\ worker[w] = Resting
    BY <1>3 DEF Ask, AskAboutFriend, AskAboutGroup, AskToInvite, AskToChat, AskForGroups, cache
  <2>2. \A o \in Workers \ {w} : worker'[o] = worker[o]
    BY <1>0, <1>3 DEF Ask, AskAboutFriend, AskAboutGroup, AskToInvite, AskToChat, AskForGroups
  <2>3. QED BY <2>1, <2>2, WatchedElsewhere DEF Resting, Job
<1>4. ASSUME NEW w \in Workers, Handle(w) PROVE Watched'
  <2>0. InHand(worker[w]) /\ worker[w] \in Jobs  BY DEF Typed, TypeOK
  <2>1. \A o \in Workers \ {w} : worker'[o] = worker[o]
    BY <1>0, <1>4 DEF Handle, AddFriend, Accept, Reject, MakeMutual, DeleteFriend, IsMember,
       SelectFriend, AddMember, SetExpire, Reply, CreateGroup, NoNumber, AddFounder, JoinGroup,
       QuitGroup, InviteGroup, InviteRole, InviteFriend, InviteNew, InviteInsert, GetGroups,
       SelectGroups, SetGroups, Rest, Goto
  <2>2. CASE AddMember(w)
    <3>1. worker[w].me \in Users /\ worker[w].you \in Users /\ worker[w].at = "sadd"
      BY <2>0, <2>2 DEF AddMember, InHand, ChatPlaces
    <3>2. worker'[w].at = "expire" /\ worker'[w].me = worker[w].me
      BY <1>0, <2>0, <2>2 DEF AddMember, Goto, Jobs
    <3>3. \A u \in Users : u # worker[w].me =>
             friends'[u] = friends[u] /\ friendsLife'[u] = friendsLife[u]
      BY <1>0, <2>2, <3>1 DEF AddMember, Me
    <3>4. friends'[worker[w].me] # {}  BY <1>0, <2>2, <3>1 DEF AddMember, Me, You
    <3>5. QED BY <2>1, <3>1, <3>2, <3>3, <3>4 DEF Watched
  <2>3. CASE SetExpire(w)
    <3>1. worker[w].me \in Users  BY <2>0, <2>3 DEF SetExpire, InHand, ChatPlaces
    <3>2. friends' = friends /\ \A u \in Users : u # worker[w].me =>
             friendsLife'[u] = friendsLife[u]
      BY <1>0, <2>3, <3>1 DEF SetExpire, Me
    <3>3. friendsLife'[worker[w].me] # Unset
      BY <1>0, <2>3, <3>1, FriendsAssumption DEF SetExpire, Me, Watched
    <3>4. QED BY <2>1, <3>1, <3>2, <3>3 DEF Watched
  <2>4. CASE ~ AddMember(w) /\ ~ SetExpire(w)
    <3>1. UNCHANGED <<friends, friendsLife>> /\ worker[w].at # "expire"
      BY <1>4, <2>4 DEF Handle, AddFriend, Accept, Reject, MakeMutual, DeleteFriend, IsMember,
         SelectFriend, Reply, CreateGroup, NoNumber, AddFounder, JoinGroup,
         QuitGroup, InviteGroup, InviteRole, InviteFriend, InviteNew, InviteInsert, GetGroups,
         SelectGroups, SetGroups, cache
    <3>2. QED BY <2>1, <3>1, WatchedElsewhere
  <2>5. QED BY <2>2, <2>3, <2>4
<1>5. QED BY <1>1, <1>2, <1>3, <1>4 DEF Next

(* With any number of workers extending one user's set at once, and the key  *)
(* running out between their statements, a key without a lifetime always has *)
(* a handler about to give it one.                                           *)
THEOREM NoImmortalKeyHolds == Spec => []NoImmortalKey
<1>1. Init => Watched  BY FriendsAssumption DEF Init, Watched
<1>2. Watched => NoImmortalKey  BY DEF Watched, NoImmortalKey
<1>3. QED BY <1>1, <1>2, WatchedNext, TypedAlways, PTL DEF Spec
===============================================================================
