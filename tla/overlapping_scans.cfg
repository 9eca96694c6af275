SPECIFICATION Spec
CONSTANTS
    Hotels <- TwoHotels
    Guests <- TwoGuests
    HotelOf <- EachAHotel
    Ids <- TwoTexts
    GuestOf <- TwoTextsFrom
    Kind <- TwoTextsKind
    Users <- TheUser
    Nobody = nobody
    NoId = no_id
    MaxAge = 2
    Processes <- OneServer
    Coroutines <- AllRequests
    ProcessOf <- TheServer
    Idle = idle
    Outcomes <- AcceptedOrRefused
    Workers <- OneWorker
    Batches <- BatchesTwoTexts
    MaxDeliveries = 1
    MarkRead = FALSE
    Clerks <- NoClerks
    UserOf <- ByTheUser
    HotelOfUser <- UsersHotel
    MinSla = 1
    MaxRequests = 0
    Scanners <- TwoScanners
    BatchLimit = 1
    MaxFaults = 1
    FaultKinds <- Crashes
    QuietGuests = {}
INVARIANTS
    OneAlertPerBreach
CHECK_DEADLOCK FALSE
