\* Commands pipelined around STARTTLS.
SPECIFICATION Spec
CONSTANTS
    Input <- PipelineInput
    Senders <- SenderSet
    Recipients <- RecipientSet
    Refusals = {550}
    MaxRecipients = 1
    MaxInvalidCmds = 1
    MaxMessageSize = 2
    SubmissionMode = FALSE
    TLSConfig = TRUE
    AuthHandler = TRUE
    VrfyHandler = FALSE
    ReadTimeouts = FALSE
    Window = 2
    MaxUnits = 1
INVARIANTS
    NoPlaintextAfterTLS
    LayerInv
