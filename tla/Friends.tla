-------------------------------- MODULE Friends --------------------------------
(***************************************************************************)
(* Friends, groups and what Redis remembers of them: the commands          *)
(* add_friend, handle_friend, delete_friend, create_group, join_group,     *)
(* quit_group, invite_group and show_groups, and single_chat's question    *)
(* whether sender and receiver are friends.  Workers execute them one      *)
(* statement at a time, several at once also for one user.                 *)
(*                                                                         *)
(* The rows are in MySQL.  Two keys per user are in Redis: the friends     *)
(* some single_chat found (a set), and the list show_groups sent.  Nobody  *)
(* deletes them when a row changes (the cache_invalidate_ functions have   *)
(* no caller), so it is only the lifetime of a key that ends a wrong       *)
(* answer.  Redis and MySQL are up; the requests come from signed-in users *)
(* and name existing ones; a user does not befriend or invite herself.     *)
(***************************************************************************)
EXTENDS Integers, FiniteSets

CONSTANTS Users, Groups, Workers,
          Acquainted,       \* bound: the pairs {u, v} whose friendship may change;
                            \* only they change groups
          Old,              \* bound: pairs that have long been friends and stay so
          Readers,          \* bound: who sends chats and asks for her groups
          FriendsExpire,    \* CACHE_FRIENDS_EXPIRE in ticks
          GroupsExpire,     \* CACHE_USER_GROUPS_EXPIRE in ticks
          MaxChanges,       \* bound: requests that may change a row
          Unset             \* lifetime of a key that will not expire; no value

ASSUME FriendsAssumption ==
    /\ \A p \in Acquainted \cup Old : \E u, v \in Users : u # v /\ p = {u, v}
    /\ Acquainted \cap Old = {} /\ Readers \subseteq Users
    /\ FriendsExpire \in Nat \ {0} /\ GroupsExpire \in Nat \ {0} /\ MaxChanges \in Nat
    /\ Unset \notin Nat /\ Unset \notin Users /\ Unset \notin Groups

VARIABLES
    relation,    \* friend_relation: status of row (user, friend), or "none"
    role,        \* conversation_member: role of user in group, or "none"
    founded,     \* conversation: the groups that exist
    friends,     \* Redis, friends:<user>
    friendsLife, \* ticks until it expires; 0 if there is no such key
    listed,      \* Redis, the groups of a user
    listedLife,
    worker,      \* what each worker is doing
    changes,     \* requests that change a row so far
    orderly      \* ghost: pairs that have kept the rules of Proper below

tables == <<relation, role, founded>>
cache  == <<friends, friendsLife, listed, listedLife>>
vars   == <<tables, cache, worker, changes, orderly>>

Job(at, u, v, g) == [at |-> at, me |-> u, you |-> v, group |-> g, list |-> {}]
Resting == Job("idle", Unset, Unset, Unset)

Init ==
    /\ relation = [u \in Users |-> [v \in Users |-> IF {u, v} \in Old THEN "accepted" ELSE "none"]]
    /\ role = [g \in Groups |-> [u \in Users |-> "none"]] /\ founded = {}
    /\ friends = [u \in Users |-> {}] /\ friendsLife = [u \in Users |-> 0]
    /\ listed = [u \in Users |-> {}] /\ listedLife = [u \in Users |-> 0]
    /\ worker = [w \in Workers |-> Resting]
    /\ changes = 0 /\ orderly = Acquainted

-----------------------------------------------------------------------------
(* Requests.  A worker takes one up whenever it rests. *)

FriendChanges == {"add_friend", "accept", "reject", "mutual", "delete_friend"}
GroupChanges  == {"create_group", "join_group", "quit_group"}

(* A request that changes the rows of the pair is being handled. *)
Changes(w, u, v) == worker[w].at \in FriendChanges /\ {worker[w].me, worker[w].you} = {u, v}
UnderWay(u, v)   == \E w \in Workers : Changes(w, u, v)

(* Proper requests of u about v: one at a time per pair; to ask only someone *)
(* who has not asked, and to answer only who asks.  The server enforces none *)
(* of it.                                                                    *)
Proper(cmd, u, v) ==
    /\ ~ UnderWay(u, v)
    /\ cmd = "add_friend" => relation[v][u] = "none"
    /\ cmd \in {"accept", "reject"} => relation[v][u] = "pending"

(* A handler of add_friend, handle_friend or delete_friend, up to its first  *)
(* statement: they begin alike, with two names to look up.                   *)
AskAboutFriend(w, u, v) == \E cmd \in FriendChanges \ {"mutual"} :
    /\ worker[w] = Resting /\ {u, v} \in Acquainted /\ u # v
    /\ changes < MaxChanges /\ changes' = changes + 1
    /\ worker' = [worker EXCEPT ![w] = Job(cmd, u, v, Unset)]
    /\ orderly' = IF Proper(cmd, u, v) THEN orderly ELSE orderly \ {{u, v}}
    /\ UNCHANGED <<tables, cache>>

AskAboutGroup(w, u, g) == \E cmd \in GroupChanges :
    /\ worker[w] = Resting /\ u \in UNION Acquainted
    /\ changes < MaxChanges /\ changes' = changes + 1
    /\ worker' = [worker EXCEPT ![w] = Job(cmd, u, Unset, g)]
    /\ UNCHANGED <<tables, cache, orderly>>

AskToInvite(w, u, v, g) ==
    /\ worker[w] = Resting /\ {u, v} \in Acquainted /\ u # v
    /\ changes < MaxChanges /\ changes' = changes + 1
    /\ worker' = [worker EXCEPT ![w] = Job("invite_group", u, v, g)]
    /\ UNCHANGED <<tables, cache, orderly>>

(* Requests that only read may come without end. *)
AskToChat(w, u, v) ==
    /\ worker[w] = Resting /\ u \in Readers /\ {u, v} \in Acquainted \cup Old /\ u # v
    /\ worker' = [worker EXCEPT ![w] = Job("is_friend", u, v, Unset)]
    /\ UNCHANGED <<tables, cache, changes, orderly>>

AskForGroups(w, u) ==
    /\ worker[w] = Resting /\ u \in Readers
    /\ worker' = [worker EXCEPT ![w] = Job("show_groups", u, Unset, Unset)]
    /\ UNCHANGED <<tables, cache, changes, orderly>>

-----------------------------------------------------------------------------
(* Statements about friends. *)

Me(w)  == worker[w].me
You(w) == worker[w].you
Rest(w)   == worker' = [worker EXCEPT ![w] = Resting]
Goto(w, l) == worker' = [worker EXCEPT ![w].at = l]

(* INSERT: refused if there is a row, whatever its status. *)
AddFriend(w) ==
    /\ worker[w].at = "add_friend"
    /\ relation' = IF relation[Me(w)][You(w)] # "none" THEN relation
                   ELSE [relation EXCEPT ![Me(w)][You(w)] = "pending"]
    /\ Rest(w)
    /\ UNCHANGED <<role, founded, cache, changes, orderly>>

(* UPDATE of the other's row; it succeeds also if there is none. *)
Answer(w, status) ==
    relation' = IF relation[You(w)][Me(w)] = "none" THEN relation
                ELSE [relation EXCEPT ![You(w)][Me(w)] = status]

Accept(w) ==
    /\ worker[w].at = "accept"
    /\ Answer(w, "accepted")
    /\ Goto(w, "mutual")
    /\ UNCHANGED <<role, founded, cache, changes, orderly>>

Reject(w) ==
    /\ worker[w].at = "reject"
    /\ Answer(w, "rejected")
    /\ Rest(w)
    /\ UNCHANGED <<role, founded, cache, changes, orderly>>

(* "Friends of each other": INSERT IGNORE, which leaves an existing row.     *)
MakeMutual(w) ==
    /\ worker[w].at = "mutual"
    /\ relation' = IF relation[Me(w)][You(w)] # "none" THEN relation
                   ELSE [relation EXCEPT ![Me(w)][You(w)] = "accepted"]
    /\ Rest(w)
    /\ UNCHANGED <<role, founded, cache, changes, orderly>>

DeleteFriendHalf(w) ==   \* mutant: only one's own row goes
    /\ worker[w].at = "delete_friend"
    /\ relation' = [relation EXCEPT ![Me(w)][You(w)] = "none"]
    /\ Rest(w)
    /\ orderly' = IF \E o \in Workers \ {w} : Changes(o, Me(w), You(w)) THEN orderly
                  ELSE orderly \cup {{Me(w), You(w)}}
    /\ UNCHANGED <<role, founded, cache, changes>>

(* Both rows go.  If nothing else about the pair is under way it is as new. *)
DeleteFriend(w) ==
    /\ worker[w].at = "delete_friend"
    /\ relation' = [relation EXCEPT ![Me(w)][You(w)] = "none", ![You(w)][Me(w)] = "none"]
    /\ Rest(w)
    /\ orderly' = IF \E o \in Workers \ {w} : Changes(o, Me(w), You(w)) THEN orderly
                  ELSE orderly \cup {{Me(w), You(w)}}
    /\ UNCHANGED <<role, founded, cache, changes>>

-----------------------------------------------------------------------------
(* cache_is_friend, for single_chat: SISMEMBER, on a miss SELECT, and on a   *)
(* hit there SADD and then EXPIRE of the whole set.  At "let" the message    *)
(* goes its way (module Delivery).                                           *)

IsMemberRefreshing(w) ==   \* mutant: a hit prolongs the key's life
    /\ worker[w].at = "is_friend"
    /\ Goto(w, IF You(w) \in friends[Me(w)] THEN "expire" ELSE "select")
    /\ UNCHANGED <<tables, cache, changes, orderly>>

IsMember(w) ==
    /\ worker[w].at = "is_friend"
    /\ Goto(w, IF You(w) \in friends[Me(w)] THEN "let" ELSE "select")
    /\ UNCHANGED <<tables, cache, changes, orderly>>

SelectFriend(w) ==
    /\ worker[w].at = "select"
    /\ IF relation[Me(w)][You(w)] = "accepted" THEN Goto(w, "sadd") ELSE Rest(w)
    /\ UNCHANGED <<tables, cache, changes, orderly>>

AddMemberOnly(w) ==   \* mutant: the new set is given no lifetime
    /\ worker[w].at = "sadd"
    /\ friends' = [friends EXCEPT ![Me(w)] = @ \cup {You(w)}]
    /\ friendsLife' = [friendsLife EXCEPT ![Me(w)] = IF friends[Me(w)] = {} THEN Unset ELSE @]
    /\ Goto(w, "let")
    /\ UNCHANGED <<tables, listed, listedLife, changes, orderly>>

(* A key that SADD creates has no lifetime yet. *)
AddMember(w) ==
    /\ worker[w].at = "sadd"
    /\ friends' = [friends EXCEPT ![Me(w)] = @ \cup {You(w)}]
    /\ friendsLife' = [friendsLife EXCEPT ![Me(w)] = IF friends[Me(w)] = {} THEN Unset ELSE @]
    /\ Goto(w, "expire")
    /\ UNCHANGED <<tables, listed, listedLife, changes, orderly>>

(* EXPIRE does nothing if there is no key. *)
SetExpire(w) ==
    /\ worker[w].at = "expire"
    /\ friendsLife' = [friendsLife EXCEPT ![Me(w)] = IF friends[Me(w)] = {} THEN @ ELSE FriendsExpire]
    /\ Goto(w, "let")
    /\ UNCHANGED <<tables, friends, listed, listedLife, changes, orderly>>

(* What a handler does with what it read changes nothing here: single_chat   *)
(* refuses or goes on (module Delivery), show_groups answers.                *)
Reply(w) ==
    /\ worker[w].at \in {"let", "shown"}
    /\ Rest(w)
    /\ UNCHANGED <<tables, cache, changes, orderly>>

-----------------------------------------------------------------------------
(* Groups. *)

GroupOf(w)   == worker[w].group
GroupsOf(u)  == {g \in Groups : role[g][u] # "none"}
SetRole(g, u, r) == role' = [role EXCEPT ![g][u] = r]

(* The row of the group, then that of its founder. *)
CreateGroup(w) ==
    /\ worker[w].at = "create_group"
    /\ GroupOf(w) \notin founded    \* the number is a new one
    /\ founded' = founded \cup {GroupOf(w)}
    /\ Goto(w, "founder")
    /\ UNCHANGED <<relation, role, cache, changes, orderly>>

NoNumber(w) ==   \* bound: no group number left
    /\ worker[w].at = "create_group" /\ GroupOf(w) \in founded
    /\ Rest(w)
    /\ UNCHANGED <<tables, cache, changes, orderly>>

(* Somebody may have joined as a member meanwhile, even the founder: the     *)
(* INSERT then fails, which nobody looks at.                                 *)
AddFounder(w) ==
    /\ worker[w].at = "founder"
    /\ IF role[GroupOf(w)][Me(w)] = "none" THEN SetRole(GroupOf(w), Me(w), "admin")
       ELSE UNCHANGED role
    /\ Rest(w)
    /\ UNCHANGED <<relation, founded, cache, changes, orderly>>

(* INSERT: refused by the foreign key, or if there is a row. *)
JoinGroup(w) ==
    /\ worker[w].at = "join_group"
    /\ IF GroupOf(w) \in founded /\ role[GroupOf(w)][Me(w)] = "none"
       THEN SetRole(GroupOf(w), Me(w), "member") ELSE UNCHANGED role
    /\ Rest(w)
    /\ UNCHANGED <<relation, founded, cache, changes, orderly>>

QuitGroup(w) ==
    /\ worker[w].at = "quit_group"
    /\ SetRole(GroupOf(w), Me(w), "none")
    /\ Rest(w)
    /\ UNCHANGED <<relation, founded, cache, changes, orderly>>

(* invite_group: the group exists, an administrator invites, a friend, who   *)
(* is no member yet; and the INSERT.                                         *)
InviteGroup(w) ==
    /\ worker[w].at = "invite_group"
    /\ IF GroupOf(w) \in founded THEN Goto(w, "invite_role") ELSE Rest(w)
    /\ UNCHANGED <<tables, cache, changes, orderly>>

InviteRole(w) ==
    /\ worker[w].at = "invite_role"
    /\ IF role[GroupOf(w)][Me(w)] = "admin" THEN Goto(w, "invite_friend") ELSE Rest(w)
    /\ UNCHANGED <<tables, cache, changes, orderly>>

InviteFriend(w) ==
    /\ worker[w].at = "invite_friend"
    /\ IF relation[Me(w)][You(w)] = "accepted" THEN Goto(w, "invite_new") ELSE Rest(w)
    /\ UNCHANGED <<tables, cache, changes, orderly>>

InviteNew(w) ==
    /\ worker[w].at = "invite_new"
    /\ IF role[GroupOf(w)][You(w)] = "none" THEN Goto(w, "invite_insert") ELSE Rest(w)
    /\ UNCHANGED <<tables, cache, changes, orderly>>

InviteInsert(w) ==
    /\ worker[w].at = "invite_insert"
    /\ IF role[GroupOf(w)][You(w)] = "none" THEN SetRole(GroupOf(w), You(w), "member")
       ELSE UNCHANGED role
    /\ Rest(w)
    /\ UNCHANGED <<relation, founded, cache, changes, orderly>>

(* cache_get_user_groups: GET; on a miss SELECT, and SET with its lifetime.  *)
(* The empty list is stored too; to GET it is the same as no key, which is   *)
(* what the model makes of it.                                               *)
GetGroups(w) ==
    /\ worker[w].at = "show_groups"
    /\ worker' = IF listed[Me(w)] = {} THEN [worker EXCEPT ![w].at = "groups"]
                 ELSE [worker EXCEPT ![w].at = "shown", ![w].list = listed[Me(w)]]
    /\ UNCHANGED <<tables, cache, changes, orderly>>

SelectGroups(w) ==
    /\ worker[w].at = "groups"
    /\ worker' = [worker EXCEPT ![w].at = "set", ![w].list = GroupsOf(Me(w))]
    /\ UNCHANGED <<tables, cache, changes, orderly>>

SetGroups(w) ==
    /\ worker[w].at = "set"
    /\ listed' = [listed EXCEPT ![Me(w)] = worker[w].list]
    /\ listedLife' = [listedLife EXCEPT ![Me(w)] = IF worker[w].list = {} THEN 0 ELSE GroupsExpire]
    /\ Goto(w, "shown")
    /\ UNCHANGED <<tables, friends, friendsLife, changes, orderly>>

-----------------------------------------------------------------------------
(* Redis: time passes, and a key whose lifetime is over is gone. *)
Older(life) == IF life \in {0, Unset} THEN life ELSE life - 1

Tick ==
    /\ friendsLife' = [u \in Users |-> Older(friendsLife[u])]
    /\ listedLife'  = [u \in Users |-> Older(listedLife[u])]
    /\ friends' = [u \in Users |-> IF friendsLife[u] = 1 THEN {} ELSE friends[u]]
    /\ listed'  = [u \in Users |-> IF listedLife[u] = 1 THEN {} ELSE listed[u]]
    /\ UNCHANGED <<tables, worker, changes, orderly>>

-----------------------------------------------------------------------------
Handle(w) ==
    \/ AddFriend(w) \/ Accept(w) \/ Reject(w) \/ MakeMutual(w) \/ DeleteFriend(w)
    \/ IsMember(w) \/ SelectFriend(w) \/ AddMember(w) \/ SetExpire(w) \/ Reply(w)
    \/ CreateGroup(w) \/ NoNumber(w) \/ AddFounder(w) \/ JoinGroup(w) \/ QuitGroup(w)
    \/ InviteGroup(w) \/ InviteRole(w) \/ InviteFriend(w) \/ InviteNew(w) \/ InviteInsert(w)
    \/ GetGroups(w) \/ SelectGroups(w) \/ SetGroups(w)

Ask(w) ==
    \/ \E u, v \in Users : AskAboutFriend(w, u, v) \/ AskToChat(w, u, v)
                           \/ \E g \in Groups : AskToInvite(w, u, v, g)
    \/ \E u \in Users : AskForGroups(w, u) \/ \E g \in Groups : AskAboutGroup(w, u, g)

Next == Tick \/ \E w \in Workers : Ask(w) \/ Handle(w)

(* Handlers go on and time passes; nobody has to ask for anything. *)
Fairness == WF_vars(Tick) /\ \A w \in Workers : WF_vars(Handle(w))

Spec == Init /\ [][Next]_vars
FairSpec == Spec /\ Fairness

-----------------------------------------------------------------------------
Places == {"idle", "add_friend", "accept", "reject", "mutual", "delete_friend",
           "is_friend", "select", "sadd", "expire", "let",
           "create_group", "founder", "join_group", "quit_group", "invite_group",
           "invite_role", "invite_friend", "invite_new", "invite_insert",
           "show_groups", "groups", "set", "shown"}

Jobs == [at : Places, me : Users \cup {Unset}, you : Users \cup {Unset},
         group : Groups \cup {Unset}, list : SUBSET Groups]

TypeOK ==
    /\ relation \in [Users -> [Users -> {"none", "pending", "accepted", "rejected"}]]
    /\ role \in [Groups -> [Users -> {"none", "member", "admin"}]] /\ founded \subseteq Groups
    /\ friends \in [Users -> SUBSET Users] /\ listed \in [Users -> SUBSET Groups]
    /\ friendsLife \in [Users -> 0..FriendsExpire \cup {Unset}]
    /\ listedLife \in [Users -> 0..GroupsExpire]
    /\ changes \in 0..MaxChanges /\ orderly \subseteq Acquainted
    /\ worker \in [Workers -> Jobs]

(* Two users who have kept the rules of Proper are friends of each other or  *)
(* not at all, once their requests are handled, although acceptance writes   *)
(* two rows in two statements and an existing row stops the second.  An      *)
(* undisturbed delete_friend mends what improper requests have broken.       *)
Mutual ==
    \A u, v \in Users : {u, v} \in orderly /\ ~ UnderWay(u, v) =>
        (relation[u][v] = "accepted" <=> relation[v][u] = "accepted")

(* A set of friends without a lifetime is about to be given one, whoever     *)
(* creates, extends or loses the key meanwhile: none outlives its handlers   *)
(* for ever.                                                                 *)
NoImmortalKey ==
    \A u \in Users : friendsLife[u] = Unset =>
        \E w \in Workers : worker[w].at = "expire" /\ worker[w].me = u

(* Although no change of a row touches the cache, and other friends prolong  *)
(* the life of the same key: when two users are friends no longer, their     *)
(* messages are refused in the end, however often they are tried; and when   *)
(* a user's groups have changed for the last time, she is shown them in the  *)
(* end, also if a list was read before the change and stored after it.       *)
Lets(u, v) == \E w \in Workers : worker[w].at = "let" /\ worker[w].me = u /\ worker[w].you = v
Shows(u, s) == \A w \in Workers : worker[w].at = "shown" /\ worker[w].me = u => worker[w].list = s

CachesCatchUp ==
    /\ \A u \in Readers, v \in Users : <>[](relation[u][v] # "accepted") => <>[] ~ Lets(u, v)
    /\ \A u \in Readers : \A s \in SUBSET Groups : <>[](GroupsOf(u) = s) => <>[] Shows(u, s)
===============================================================================
