SPECIFICATION Spec
CONSTANTS
    c1 = c1
    c2 = c2
    c3 = c3
    k1 = k1
    k2 = k2
    ch = ch
    pat = pat
    Clients = {c1, c2, c3}
    Keys = {k1, k2}
    Channels = {ch}
    Patterns = {pat}
    OutLimit = 3
    NULL = NULL
    Matches <- AnyMatch
    Workloads <- Some
    MaxClients = 2
INVARIANTS
    TablesAgree
    NobodyMissesAList
    AnsweredInOrder
    TransactionsAreIsolated
    ReplicaAgrees
