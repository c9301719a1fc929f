SPECIFICATION Spec
CONSTANTS
    Station <- Chain
    NoStation = "none"
    AnyHop = "ANY"
    Origin = "a"
    Dest = "d"
    Link <- ChainLink
    Evidence <- LiveHeard
    Backup <- LiveBackup
    Relay <- ChainYes
    AutoRoute <- ChainYes
    Discovery <- LiveDiscovery
    Busy = {"r"}
    Impatient = {}
    Profiles <- ChainVara
    MaxConfigs = 0
    NoToken = "no token"
    A500 = "A500"
    WorkingOffer = {"none"}
    WorkingAccept = {"accept"}
    InitTtl = 2
    ReceiptTtl = 3
    MaxAnnounce = 1
    MaxOffers = 1
    MaxReceiptQueries = 1
    Backlog = 0
    MaxSends = 1
    MaxRestarts = 0
INVARIANTS NoPayloadBack
CHECK_DEADLOCK FALSE
