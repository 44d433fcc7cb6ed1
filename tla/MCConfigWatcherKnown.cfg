CONSTANTS
    a = a
    b = b
    Names = {a, b}
    Plan <- Both
    Missing = {b}
    MaxChanges = 1
    MaxWatches = 5
    Deletions = FALSE
    Stops = FALSE
    Quiet = TRUE
SPECIFICATION FairSpec
CHECK_DEADLOCK FALSE
PROPERTIES
    Converges
