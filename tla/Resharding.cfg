CONSTANTS
    Node = {1, 2}
    Source = 2
    Target = 1
    Key = {k1, k2}
    Client = {c1, c2}
    MaxWrites = 2
    MaxErrors = 1
SPECIFICATION Spec
INVARIANTS
    ServedFromNewest
    NoKeyLost
PROPERTY
    EveryRequestServed
CHECK_DEADLOCK FALSE
