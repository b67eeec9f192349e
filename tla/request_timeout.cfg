SPECIFICATION PromptSpec
CONSTANTS
    Requests = {r1, r2}
    Sources <- MCSources
    MaxStatements = 2
    MaxStarts = 1
    NULL = NULL
PROPERTY RequestsTimeOut
CHECK_DEADLOCK FALSE
