CONSTANTS
    e1 = e1
    e2 = e2
    e3 = e3
    k1 = k1
    k2 = k2
    k3 = k3
    Items = {e1, e2, e3}
    Workers = {k1, k2, k3}
    NoItem = NoItem
    MaxAdds = 5
SPECIFICATION FairSpec
CHECK_DEADLOCK FALSE
INVARIANTS
    TypeOK
    ExclusiveHandling
    NothingForgotten
PROPERTIES
    AcceptedIsHandled
    WorkersEnd
