CONSTANTS
    g1 = g1
    g2 = g2
    Guild <- MCGuild
    MaxServers = 2
    MaxCalls = 3
    MaxLoginAttempts = 0
    Rcon <- MCRcon
    Jobs <- MCJobs
    Setups <- MCSetups
SPECIFICATION ZBotSpec
SYMMETRY Symmetry
INVARIANTS
    OrphansOnlyAfterOverwrite
PROPERTIES
    RconSafety
    NeverBackToOlderConfig
CHECK_DEADLOCK FALSE
