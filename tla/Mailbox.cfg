\* One message from elsewhere in two versions, two ids to give out, one token.
SPECIFICATION StationSpec
CONSTANTS
    Foreign = {9}
    Content = {"a", "b"}
    Text = "a"
    Missing = "missing"
    Token = {"t"}
    NoToken = "none"
    MaxCounter = 2
    Folder = {"outbox", "inbox"}
    Session <- Sessions
    Outgoing <- Mine
    Channel <- Channels
    Home = "home"
    Way <- Away
    Nowhere = "nowhere"
    Ui = "ui"
    MaxTours = 1
    MaxFaults = 1
INVARIANTS PromisesKept AckedIsSafe FailuresLeaveNoTrace AloneItIsReturned
PROPERTIES RequestsQueuedOnce IdsAreNew
CHECK_DEADLOCK FALSE
