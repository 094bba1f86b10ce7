CONSTANTS
    Slot = {c1}
    Nobody = Nobody
    Lost = Lost
    Styles = {"static", "dynamic", "ondemand"}
    StartServers = 1
    MinSpare = 1
    MaxSpare = 1
    MaxSpawnRate = 2
    Timeouts = {"terminate", "slowlog"}
    Emergency = TRUE
    SocketSize = 2
    Asks = {"T", "Q"}
    Bound <- Bounds
    Admins = 1
    Conns = 2
    Crashes = 1
    Forks = 1
    Total = 3
SPECIFICATION FairSpec
PROPERTY Stops
CHECK_DEADLOCK FALSE
