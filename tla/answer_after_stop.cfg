SPECIFICATION Spec
CONSTANTS
    Hotels <- OneHotel
    Guests <- OneGuest
    HotelOf <- TheHotel
    Ids <- TextAndStop
    GuestOf <- TextAndStopFrom
    Kind <- TextAndStopKind
    Users <- TheUser
    Nobody = nobody
    NoId = no_id
    MaxAge = 1
    Processes <- OneServer
    Coroutines <- AllRequests
    ProcessOf <- TheServer
    Idle = idle
    Outcomes <- Everything
    Workers <- TwoWorkers
    Batches <- BatchesStopApart
    MaxDeliveries = 1
    MarkRead = FALSE
    Clerks <- NoClerks
    UserOf <- ByTheUser
    HotelOfUser <- UsersHotel
    MinSla = 1
    MaxRequests = 1
    Scanners <- NoScanners
    BatchLimit = 2
    MaxFaults = 0
    FaultKinds <- AllFaults
    QuietGuests = {}
PROPERTIES
    NoTrafficAfterStop
CHECK_DEADLOCK FALSE
