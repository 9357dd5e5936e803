CONSTANTS
    c1 = c1
    c2 = c2
    Clients <- MCClients
    Wants <- MCWants
    MaxClients = 1
    MaxLines = 2
    ConnCap = 2
    SendCap = 2
    BroadcastCap = 1
SPECIFICATION Spec
INVARIANT Unregistered
CHECK_DEADLOCK FALSE
