SPECIFICATION FairSpec
CONSTANTS
    Hotels <- OneHotel
    Guests <- OneGuest
    HotelOf <- TheHotel
    Ids <- TextAndStop
    GuestOf <- TextAndStopFrom
    Kind <- TextAndStopKind
    Users <- TheUser
    Nobody = nobody
    NoId = no_id
    MaxAge = 1
    Processes <- OneServer
    Coroutines <- AllRequests
    ProcessOf <- TheServer
    Idle = idle
    Outcomes <- Accepted
    Workers <- OneWorker
    Batches <- BatchTextStop
    MaxDeliveries = 1
    MarkRead = TRUE
    Clerks <- NoClerks
    UserOf <- ByTheUser
    HotelOfUser <- UsersHotel
    MinSla = 1
    MaxRequests = 1
    Scanners <- OneScanner
    BatchLimit = 2
    MaxFaults = 1
    FaultKinds <- Crashes
    QuietGuests = {}
PROPERTIES
    AlertIsNotLost
CHECK_DEADLOCK FALSE
