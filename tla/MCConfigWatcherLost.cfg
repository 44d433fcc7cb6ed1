CONSTANTS
    a = a
    b = b
    Names = {a, b}
    Plan <- One
    Missing = {}
    MaxChanges = 1
    MaxWatches = 5
    Deletions = FALSE
    Stops = FALSE
    Quiet = FALSE
SPECIFICATION FairSpec
CHECK_DEADLOCK FALSE
PROPERTIES
    Converges
