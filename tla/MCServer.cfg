\* A limited server, with a Shutdown and a Close.
SPECIFICATION Spec
CONSTANTS
    Conns = {c1, c2, c3}
    Shutdowns = {shutdown}
    Closes = {close}
    MaxConnections = 2
    CtxDeadline = TRUE
INVARIANTS
    TypeOK
    SlotInv
    WaitGroupInv
    Quiescence
    
PROPERTIES
    RejectedOnlyWhenFull
    ServeReturns
    ShutdownReturns
