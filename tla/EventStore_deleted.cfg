CONSTANTS
    c1 = c1
    c2 = c2
    msg = msg
    ch = ch
    Clients <- TwoClients
    Worker = Worker
    Types <- OneType
    ErrorType = ErrorType
    AlertType = AlertType
    Channels <- OneChannel
    NoChannel = NoChannel
    Nothing = Nothing
    Operations <- AllOperations
    Alone <- Creations
    Expiry = TRUE
    MaxFails = 1
    MaxEvents = 3
    MaxRequests = 2
SPECIFICATION Spec
INVARIANTS NoLeftovers StaysDeleted Unlisted
SYMMETRY Alike
