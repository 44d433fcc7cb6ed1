CONSTANTS
    a = a
    b = b
    Names = {a, b}
    Plan <- Grow
    Missing = {}
    MaxChanges = 2
    MaxWatches = 8
    Deletions = FALSE
    Stops = TRUE
    Quiet = TRUE
SPECIFICATION FairSpec
CHECK_DEADLOCK FALSE
PROPERTIES
    Converges
    CancelledWatchesEnd
