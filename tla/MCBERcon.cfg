CONSTANTS
    Rcon = {r1, r2}
    MaxLoginAttempts = 3
    Jobs <- MCJobs
SPECIFICATION RconSpec
INVARIANTS
    OneReconnectPath
    CronExactlyWhileUp
    FailureBudget
PROPERTIES
    ImplementsRconLink
