SPECIFICATION LoggerSpec
CONSTANTS
    Threads = {t1, t2}
    Levels = {"debug", "info"}
    Capacity = 1
    MaxRecords = 3
    MaxScopes = 2
    MaxOpened = 2
    MaxLevelChanges = 1
    Names = {m, n}
    Pointers = {p, q}
    MaxSinks = 2
    None = None
    Main = Main
    Service = Service
    Other = Other
CHECK_DEADLOCK FALSE
SYMMETRY ThreadSymmetry
INVARIANTS
    GroupsStayWhole
    RecordsInOrder
    NothingLeftBehind
    SinksLiveWhileUsed
    PlacesAreOwn
