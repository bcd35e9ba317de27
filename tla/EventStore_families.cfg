CONSTANTS
    c1 = c1
    c2 = c2
    msg = msg
    ch = ch
    Clients <- OneClient
    Worker = Worker
    Types <- OneType
    ErrorType = ErrorType
    AlertType = AlertType
    Channels <- OneChannel
    NoChannel = NoChannel
    Nothing = Nothing
    Operations = {"create", "delete", "patch"}
    Alone <- Everything
    Expiry = FALSE
    MaxFails = 1
    MaxEvents = 6
    MaxRequests = 4
SPECIFICATION Spec
INVARIANTS TypeOK Findable FamiliesAgree CascadeComplete LastChildOnly
