CONSTANTS
    Slot = {c1, c2}
    Nobody = Nobody
    Lost = Lost
    Styles = {"static", "dynamic", "ondemand"}
    StartServers = 1
    MinSpare = 1
    MaxSpare = 1
    MaxSpawnRate = 1
    Timeouts = {"slowlog"}
    Emergency = TRUE
    SocketSize = 3
    Asks = {"T", "Q"}
    Bound <- Bounds
    Admins = 2
    Conns = 1
    Crashes = 1
    Forks = 1
    Total = 2
SPECIFICATION Spec
SYMMETRY SlotSymmetry
INVARIANTS TypeOK ChildrenAccounted
PROPERTY NeverBacksOff
CHECK_DEADLOCK FALSE
