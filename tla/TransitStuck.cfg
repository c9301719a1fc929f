SPECIFICATION SweepSpec
CONSTANTS
    Station <- Chain
    NoStation = "none"
    AnyHop = "ANY"
    Origin = "a"
    Dest = "d"
    Link <- ChainLink
    Evidence <- ChainHeard
    Backup <- ChainNoBackup
    Relay <- ChainNo
    AutoRoute <- ChainNo
    Discovery <- ChainOff
    Busy = {}
    Impatient = {}
    Profiles <- ChainVara
    MaxConfigs = 0
    NoToken = "no token"
    A500 = "A500"
    WorkingOffer = {"none"}
    WorkingAccept = {"accept"}
    InitTtl = 2
    ReceiptTtl = 3
    MaxAnnounce = 1
    MaxOffers = 1
    MaxReceiptQueries = 1
    Backlog = 0
    MaxSends = 2
    MaxRestarts = 0
PROPERTIES WaitingMailIsSent
CHECK_DEADLOCK FALSE
