SPECIFICATION TabsSpec
CONSTANTS
    Command = {c1, c2}
    Tab = {t1, t2}
    Nothing = Nothing
    Requests = {1, 2}
    MaxReload = 1
    MaxRestart = 1
SYMMETRY Symmetry
INVARIANTS
    TypeOK
    StraysAreGivenUp
    RealAnswersAreTimely
    UsageAddsUp
    PageIsKept
\* a session ends when every command was entered and answered
CHECK_DEADLOCK FALSE
