\* Client and server of the library, with deadlines and a shutdown.
SPECIFICATION Spec
CONSTANTS
    Calls = {"SendMail", "SubmitMessage", "Reset", "Bdat", "Noop"}
    From = {"a"}
    To <- TwoRecipients
    MessageReaders <- Readers
    BdatArgs <- OneChunk
    Mechanisms = {"LOGIN"}
    TlsConfigured = TRUE
    Contexts = {"set", "none"}
    MaxCalls = 2
    Senders <- SenderSet
    Recipients <- RecipientSet
    Refusals = {500}
    MaxRecipients = 2
    MaxInvalidCmds = 2
    MaxMessageSize = 0
    SubmissionMode = FALSE
    TLSConfig = TRUE
    AuthHandler = TRUE
    VrfyHandler = FALSE
    ReadTimeouts = FALSE
    Window = 1
    MaxUnits = 2
    MayShutdown = TRUE
INVARIANTS
    
    LayersAgree
    
    ResetRecovers
    NoMutualWait
PROPERTIES
    MailerSpec
