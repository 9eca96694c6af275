SPECIFICATION Spec
CONSTANTS
    Hotels <- OneHotel
    Guests <- OneGuest
    HotelOf <- TheHotel
    Ids <- TextAndQr
    GuestOf <- TextAndQrFrom
    Kind <- TextAndQrKind
    Users <- TheUser
    Nobody = nobody
    NoId = no_id
    MaxAge = 1
    Processes <- TwoServers
    Coroutines <- AllRequests
    ProcessOf <- EachAServer
    Idle = idle
    Outcomes <- AcceptedOrRefused
    Workers <- TwoWorkers
    Batches <- BatchesQr
    MaxDeliveries = 2
    MarkRead = TRUE
    Clerks <- OneClerk
    UserOf <- ByTheUser
    HotelOfUser <- UsersHotel
    MinSla = 1
    MaxRequests = 1
    Scanners <- NoScanners
    BatchLimit = 2
    MaxFaults = 0
    FaultKinds <- AllFaults
    QuietGuests <- OneGuest
INVARIANTS
    AnsweredOnce
CHECK_DEADLOCK FALSE
