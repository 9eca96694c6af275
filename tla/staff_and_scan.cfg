SPECIFICATION Spec
CONSTANTS
    c1 = c1
    c2 = c2
    Hotels <- OneHotel
    Guests <- OneGuest
    HotelOf <- TheHotel
    Ids <- TextAndStop
    GuestOf <- TextAndStopFrom
    Kind <- TextAndStopKind
    Users <- TheUser
    Nobody = nobody
    NoId = no_id
    MaxAge = 2
    Processes <- OneServer
    Coroutines <- AllRequests
    ProcessOf <- TheServer
    Idle = idle
    Outcomes <- Everything
    Workers <- OneWorker
    Batches <- BatchTextStop
    MaxDeliveries = 1
    MarkRead = TRUE
    Clerks = {c1, c2}
    UserOf <- ByTheUser
    HotelOfUser <- UsersHotel
    MinSla = 1
    MaxRequests = 2
    Scanners <- OneScanner
    BatchLimit = 2
    MaxFaults = 1
    FaultKinds <- Crashes
    QuietGuests = {}
INVARIANTS
    TypeOK
    HonestRecords
    EveryRowWasSent
    StopIsSilent
PROPERTIES
    BoardKept
SYMMETRY ClerkSymmetry
CHECK_DEADLOCK FALSE
