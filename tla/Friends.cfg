SPECIFICATION FairSpec
CONSTANTS
    ann = ann  bob = bob  cyd = cyd
    Users = {ann, bob, cyd}
    Groups = {g1}
    Workers = {w1, w2}
    Acquainted <- MCAcquainted
    FriendsExpire = 2
    GroupsExpire = 1
    Readers = {ann}
    Old <- MCOld
    MaxChanges = 4
    Unset = Unset
INVARIANTS Mutual NoImmortalKey
PROPERTIES CachesCatchUp
CHECK_DEADLOCK FALSE
