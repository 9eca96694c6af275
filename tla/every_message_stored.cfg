SPECIFICATION FairSpec
CONSTANTS
    Hotels <- OneHotel
    Guests <- OneGuest
    HotelOf <- TheHotel
    Ids <- TwoTexts
    GuestOf <- TwoTextsFromOne
    Kind <- TwoTextsKind
    Users <- TheUser
    Nobody = nobody
    NoId = no_id
    MaxAge = 1
    Processes <- OneServer
    Coroutines <- AllRequests
    ProcessOf <- TheServer
    Idle = idle
    Outcomes <- AcceptedOrRefused
    Workers <- TwoWorkers
    Batches <- BatchesTwoTexts
    MaxDeliveries = 3
    MarkRead = TRUE
    Clerks <- NoClerks
    UserOf <- ByTheUser
    HotelOfUser <- UsersHotel
    MinSla = 1
    MaxRequests = 1
    Scanners <- NoScanners
    BatchLimit = 2
    MaxFaults = 1
    FaultKinds <- Crashes
    QuietGuests = {}
PROPERTIES
    EveryMessageIsStored
CHECK_DEADLOCK FALSE
