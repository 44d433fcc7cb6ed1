CONSTANTS
    w1 = w1
    w2 = w2
    n1 = n1
    r1 = r1
    r2 = r2
    g1 = g1
    g2 = g2
    Watchers = {w1, w2}
    Notifiers = {n1}
    Refs = {r1, r2}
    Groups = {g1, g2}
    NoGroup = NoGroup
    NameLists <- MCNameLists
    MaxNotify = 2
SPECIFICATION FairSpec
CHECK_DEADLOCK FALSE
INVARIANTS
    TypeOK
    NoMissedSubscriber
    NoDeadMember
PROPERTIES
    ImplementsSubscriptions
    NotificationsDrain
