CONSTANTS
    a = a
    b = b
    Names = {a, b}
    Plan <- Grow
    Missing = {b}
    MaxChanges = 2
    MaxWatches = 4
    Deletions = TRUE
    Stops = FALSE
    Quiet = FALSE
SPECIFICATION Spec
CHECK_DEADLOCK FALSE
INVARIANTS
    TypeOK
    NoUpdateMissed
    SubscriptionSettles
PROPERTIES
    NoRegression
