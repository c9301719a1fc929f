\* One message the server holds.
SPECIFICATION FairSpec
CONSTANTS
    Foreign = {9}
    Content = {"a"}
    Text = "a"
    Missing = "missing"
    Token = {}
    NoToken = "none"
    MaxCounter = 0
    Folder = {"outbox", "inbox"}
PROPERTY ImportIsRetried
CHECK_DEADLOCK FALSE
