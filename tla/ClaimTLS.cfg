\* An AUTH before STARTTLS survives it.
SPECIFICATION Spec
CONSTANTS
    Input <- ClaimInput
    Senders <- SenderSet
    Recipients <- RecipientSet
    Refusals = {550}
    MaxRecipients = 1
    MaxInvalidCmds = 2
    MaxMessageSize = 2
    SubmissionMode = FALSE
    TLSConfig = TRUE
    AuthHandler = TRUE
    VrfyHandler = FALSE
    ReadTimeouts = FALSE
    Window = 1
    MaxUnits = 2
PROPERTIES
    AuthClearedByTLS
