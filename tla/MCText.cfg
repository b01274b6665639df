\* Every address of up to six characters, every message of up to four words.
SPECIFICATION Spec
CONSTANTS
    MaxLocal = 4
    MaxDomain = 4
    MaxLabel = 2
    EnhancedCodes = {"5.1.1", "4.2.2"}
    Chars <- CharSet
    Words = {"word", "NL", "5.1.1"}
    MaxChars = 6
    MaxWords = 4
INVARIANTS
    
    
    ErrorRoundTrip
