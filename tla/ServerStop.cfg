SPECIFICATION Spec
CONSTANTS
    c1 = c1
    c2 = c2
    Conns = {c1, c2}
    Sends <- Traffic
    MaxClients = 2
    MaxBatch = 2
    ReplyCap = 3
    Kinds <- Requests
    IdleTimeout = TRUE
INVARIANT TypeOK
INVARIANT NoReplyHeldWhileBlocked
 
INVARIANT NoReaderLeftBehind
INVARIANT EngineClosedLast
INVARIANT SlotsAccounted
PROPERTY ShutdownStops
