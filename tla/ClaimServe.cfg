\* One Shutdown of a server without a connection limit.
SPECIFICATION Spec
CONSTANTS
    Conns = {c1, c2}
    Shutdowns = {shutdown}
    Closes = {}
    MaxConnections = 0
    CtxDeadline = FALSE
PROPERTIES
    ServeEndsOnShutdown
