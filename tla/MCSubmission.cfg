\* Submission mode, with deadlines that expire in any read.
SPECIFICATION Spec
CONSTANTS
    Input <- SubmissionInput
    Senders <- SenderSet
    Recipients <- RecipientSet
    Refusals = {550}
    MaxRecipients = 1
    MaxInvalidCmds = 2
    MaxMessageSize = 0
    SubmissionMode = TRUE
    TLSConfig = TRUE
    AuthHandler = TRUE
    VrfyHandler = TRUE
    ReadTimeouts = TRUE
    Window = 1
    MaxUnits = 1
INVARIANTS
    SubmissionGate
    InvalidLimit
    PhaseInv
PROPERTIES
    ShutdownEndsSession
    SilentPeerDropped
