SPECIFICATION FairSystemSpec
CONSTANTS
    Command = {c1}
    Tab = {t1}
    Nothing = Nothing
    Requests = {2}
    MaxReload = 1
    MaxRestart = 1
    MaxInFlight = 2
PROPERTIES
    EveryCommandIsAnswered
    StatusSettles
\* a session ends when every command was entered and answered
CHECK_DEADLOCK FALSE
