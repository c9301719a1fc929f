\* The mailbox is not used, and as small as it can be.
SPECIFICATION SweptSpec
CONSTANTS
    Foreign = {9}
    Content = {"a"}
    Text = "a"
    Missing = "missing"
    Token = {}
    NoToken = "none"
    MaxCounter = 0
    Folder = {"outbox", "inbox"}
    Session <- Sessions
    Outgoing <- Mine
    Channel <- Channels
    Home = "home"
    Way <- Away
    Nowhere = "nowhere"
    Ui = "ui"
    MaxTours = 1
    MaxFaults = 1
INVARIANT PayloadKeepsItsChannel
CHECK_DEADLOCK FALSE
