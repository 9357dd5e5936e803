CONSTANTS
    c1 = c1
    c2 = c2
    Clients <- MCClients
    Wants <- MCWants
    MaxClients = 1
    MaxLines = 3
    ConnCap = 1
    SendCap = 2
    BroadcastCap = 1
SPECIFICATION FairSpec
INVARIANTS
    MappedAreOpen
    InBroadcastOrder
PROPERTY ConnectionsEnd
\* A stopped hub without connections does nothing more.
CHECK_DEADLOCK FALSE
