\* SubmitMessage with a server that offers no STARTTLS.
SPECIFICATION Spec
CONSTANTS
    Calls = {"Mail", "Rcpt", "Data", "Bdat", "Reset", "Noop", "SendMail",
             "StartTLS", "Auth", "SubmitMessage"}
    From = {"a"}
    To <- OneRecipient
    MessageReaders <- ShortBodies
    BdatArgs <- OneChunk
    Mechanisms = {"LOGIN", "CRAM-MD5"}
    TlsConfigured = TRUE
    Contexts = {"set", "none"}
    MaxCalls = 2
INVARIANTS
    SubmitAuthOverTLS
