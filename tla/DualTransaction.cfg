SPECIFICATION Spec
CONSTANTS
    c1 = c1
    c2 = c2
    t1 = t1
    t2 = t2
    Contexts <- MCContexts
    Threads <- MCThreads
    NoContext = NoContext
    NoThread = NoThread
    SeqMax = 3
    MaxRevision = 2
    MaxChoice = 2
SYMMETRY Symmetry
INVARIANTS
    TypeOK
    ScreenOwnership
    OutcomeRecorded
    CommitIsReviewed
    DetachedObjects
    OneEngineThread
PROPERTY
    KeepsPromise
