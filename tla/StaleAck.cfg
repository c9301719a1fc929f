SPECIFICATION Spec
CONSTANTS
    Station <- Pair
    NoStation = "none"
    AnyHop = "ANY"
    Origin = "a"
    Dest = "d"
    Link <- PairLink
    Evidence <- PairHeard
    Backup <- PairNoBackup
    Relay <- PairNo
    AutoRoute <- PairNo
    Discovery <- PairOff
    Busy = {"d"}
    Impatient = {"a", "d"}
    Profiles <- PairUpgrade
    MaxConfigs = 1
    NoToken = "no token"
    A500 = "A500"
    WorkingOffer = {"channel"}
    WorkingAccept = {"accept"}
    InitTtl = 2
    ReceiptTtl = 2
    MaxAnnounce = 2
    MaxOffers = 2
    MaxReceiptQueries = 1
    Backlog = 0
    MaxSends = 2
    MaxRestarts = 0
INVARIANTS HandoffAgrees
CHECK_DEADLOCK FALSE
