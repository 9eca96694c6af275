SPECIFICATION Spec
CONSTANTS
    Hotels <- OneHotel
    Guests <- OneGuest
    HotelOf <- TheHotel
    Ids <- Keywords
    GuestOf <- KeywordsFrom
    Kind <- KeywordsKind
    Users <- TheUser
    Nobody = nobody
    NoId = no_id
    MaxAge = 1
    Processes <- OneServer
    Coroutines <- AllRequests
    ProcessOf <- TheServer
    Idle = idle
    Outcomes <- Everything
    Workers <- TwoWorkers
    Batches <- BatchesKeywords
    MaxDeliveries = 2
    MarkRead = TRUE
    Clerks <- NoClerks
    UserOf <- ByTheUser
    HotelOfUser <- UsersHotel
    MinSla = 1
    MaxRequests = 1
    Scanners <- NoScanners
    BatchLimit = 2
    MaxFaults = 1
    FaultKinds <- AllFaults
    QuietGuests = {}
INVARIANTS
    AnsweredOnce
    ColumnsAgree
PROPERTIES
    LastKeywordCounts
CHECK_DEADLOCK FALSE
