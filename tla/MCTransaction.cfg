\* Transactions by DATA and BDAT, on a server without AUTH or TLS.
SPECIFICATION Spec
CONSTANTS
    Input <- TransactionInput
    Senders <- SenderSet
    Recipients <- RecipientSet
    Refusals = {550}
    MaxRecipients = 2
    MaxInvalidCmds = 2
    MaxMessageSize = 2
    SubmissionMode = FALSE
    TLSConfig = FALSE
    AuthHandler = FALSE
    VrfyHandler = FALSE
    ReadTimeouts = FALSE
    Window = 1
    MaxUnits = 2
INVARIANTS
    TypeOK
    EnvelopeInv
    ChunkIsolation
    BodyWhole
    OneReply
PROPERTIES
    TransactionSpec
