SPECIFICATION PartsSpec
CONSTANTS
    Transfer = {"x", "y"}
    NoTransfer = "none"
    MaxStops = 1
    N = 3
    Window = 2
    Chunk = 1
    MaxRetries = 1
    Air = 2
    MaxLosses = 2
    MaxTroubles = 2
    Player <- Players
    First = "a"
    Cell <- Cells
    Fleet <- OneShip
    MaxAttempts = 2
    MaxErrors = 1
    Node <- Line
    Sender <- LineEnds
    Hears <- LineHears
    Ttl = 2
    Copies = 2
    MaxAlerts = 2
    MaxCounter = 2
    MaxReopens = 1
    Station <- Two
    Trusting <- OneTrusts
    Requests = 2
    Reports = 2
    MaxSessions = 2
    MaxMishaps = 1
    Item <- Frames
    Kind <- Kinds
    Wording <- Contents
INVARIANTS SuccessIsDelivery FailureIsExplained OneTransferAtATime FairPlay HeardIsShown CompletionIsMutual PayloadHasTheCard EveryCallerIsTold
PROPERTIES LinkEnds RetainedStaysQuiet RadioComesBack OneWayAtATime RelayMovesOn ReceiptIsGiven AlertsEnd NoMutualWait
CHECK_DEADLOCK FALSE
