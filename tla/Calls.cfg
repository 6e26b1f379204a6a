SPECIFICATION CallsSpec
CONSTANTS
    MaxAttempts = 2
    Reconcilers = {r1, r2}
    Amounts = {a1}
    ReadRequests = {q1, q2}
    PrincipalOf <- OwnPrincipal
    LibraryDocs = {d1}
    LibraryVersions = 2
    RetrievalFaults = 1
    JobAttempts = 2
    Chunks = {k1, k2}
    StoreFaults = 2
INVARIANTS BooksKept RetrievalSafe StagingSafe
PROPERTIES AccountKept AnswersAreCurrent WorkEnds
CHECK_DEADLOCK FALSE
