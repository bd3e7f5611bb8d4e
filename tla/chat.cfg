SPECIFICATION Spec
CONSTANTS
    c1 = c1
    c2 = c2
    w1 = w1
    w2 = w2
    Clients <- MCClients
    Workers <- MCWorkers
    Credentials <- MCCredentials
    MaxTexts <- MCTexts
    MaxRequests = 3
    MaxLeft = 1
    OldAccounts = {}
    OldMessages <- MCOldMessages
    HistoryLength = 1
    Absent = Absent
    Free = Free
    NoJob = NoJob
    NoClose = NoClose
    NotAnswered = NotAnswered
    Nobody = Nobody
SYMMETRY Alike
CHECK_DEADLOCK FALSE
INVARIANTS
    TypeOK
    AccountsAgree
    HonestRefusal
    NothingMissed
    BoundedReordering
    PresenceKept
