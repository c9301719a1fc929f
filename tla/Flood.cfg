SPECIFICATION NetSpec
CONSTANTS
    Node <- Nodes
    NoNode = "none"
    Origin = "o"
    Target = "t"
    Link <- ShortCut
    Order <- Alphabet
    Forwarder <- Middle
    Penalty = {1}
    MaxTtl = 4
    Forgetful = {}
    Fickle = {"p"}
    Layout <- Layouts
    Life = 2
INVARIANTS RepliesComeHome RingBoundsRoutes BreadcrumbsLeadBack RoutesAreProven LiveRoutesAreCurrent
PROPERTIES EchoesEnd QueriesEnd ApprovalsStand
CHECK_DEADLOCK FALSE
