CONSTANTS
    l1 = l1
    s1 = s1
    s2 = s2
    x = x
    y = y
    here = here
    there = there
    k1 = k1
    k2 = k2
    Listeners = {l1}
    Slices = {s1, s2}
    Backends <- MCBackends
    Services = {x, y}
    Namespaces = {here, there}
    NoNamespace = NoNamespace
    Specs <- MCSpecs
    Malformed <- MCMalformed
    NsOf <- MCNsOf
    LabelOf <- MCLabelOf
    Workers = {k1, k2}
    MaxChanges = 4
    Tombstones = {l1}
SPECIFICATION Spec
SYMMETRY Symmetry
CHECK_DEADLOCK FALSE
INVARIANTS
    TypeOK
    AllChangesNotified
    StaleIsCovered
