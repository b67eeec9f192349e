SPECIFICATION FairServiceSpec
CONSTANTS
    Requests = {r1, r2, r3}
    Sources <- MCSources
    MaxStatements = 2
    MaxStarts = 2
    NULL = NULL
INVARIANTS ServiceTypeOK SettingsPrecedence MigratedBeforeServing PoolSound
PROPERTIES OnlyOutsidersHoldUp ShutdownCompletes
CHECK_DEADLOCK FALSE
