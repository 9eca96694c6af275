SPECIFICATION FairSpec
CONSTANTS
    Hotels <- OneHotel
    Guests <- OneGuest
    HotelOf <- TheHotel
    Ids <- TwoTexts
    GuestOf <- TwoTextsFromOne
    Kind <- TwoTextsKind
    Users <- TheUser
    Nobody = nobody
    NoId = no_id
    MaxAge = 1
    Processes <- OneServer
    Coroutines <- AllRequests
    ProcessOf <- TheServer
    Idle = idle
    Outcomes <- Accepted
    Workers <- OneWorker
    Batches <- BatchesTwoTexts
    MaxDeliveries = 2
    MarkRead = FALSE
    Clerks <- OneClerk
    UserOf <- ByTheUser
    HotelOfUser <- UsersHotel
    MinSla = 1
    MaxRequests = 1
    Scanners <- OneScanner
    BatchLimit = 1
    MaxFaults = 1
    FaultKinds <- Crashes
    QuietGuests = {}
PROPERTIES
    NothingWaitsForever
CHECK_DEADLOCK FALSE
