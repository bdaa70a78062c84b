SPECIFICATION FairSpec
CONSTANTS
    Threads = {t1, t2, t3}
    t1 = t1
    t2 = t2
    t3 = t3
    Requests <- MCRequests
    NoCallback = NoCallback
    NoThread = NoThread
    a = a
    b = b
    Setters = {t1, t2}
    MaxCalls <- MCMaxCalls
INVARIANTS
    HandlersAreCurrent
    LevelsAgree
PROPERTY CallsReturn
\* Threads may stop logging.
CHECK_DEADLOCK FALSE
