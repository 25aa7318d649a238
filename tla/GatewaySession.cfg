SPECIFICATION FairSession
CONSTANTS
    Relay = Relay
    None = None
    c1 = c1
    c2 = c2
    c3 = c3
    Connections = {c1, c2, c3}
    SessionBounds <- MCBounds
    Endpoints = {"ticker", "trade"}
    VisibilityOf <- Public
    Client = {"connect", "subscribe", "pause", "unsubscribe", "reconnect", "list"}
    Retries = 1
    MaxFrames = 1
CHECK_DEADLOCK FALSE
PROPERTIES FrameLabels NothingDropped DisconnectCloses
