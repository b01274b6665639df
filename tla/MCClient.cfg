\* Any server, every call, deadlines that expire anywhere.
SPECIFICATION Spec
CONSTANTS
    Calls = {"Mail", "Rcpt", "Data", "Bdat", "Reset", "Noop", "SendMail",
             "StartTLS", "Auth", "SubmitMessage"}
    From = {"a"}
    To <- OneRecipient
    MessageReaders <- ShortBodies
    BdatArgs <- OneChunk
    Mechanisms = {"PLAIN", "LOGIN", "CRAM-MD5"}
    TlsConfigured = TRUE
    Contexts = {"set", "none"}
    MaxCalls = 2
INVARIANTS
    TypeOK
    
    RefreshedByTLS
    SubmitUpgrades
    LoginOrder
    
PROPERTIES
    CallReturns
