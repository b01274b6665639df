\* Bodies and foreign streams of up to five bytes, read three at a time or less.
SPECIFICATION Spec
CONSTANTS
    DOT = "."
    CR = "cr"
    LF = "lf"
    Others = {"x"}
    Lens = {1, 2, 3}
    MaxBytes = 5
INVARIANTS
    RoundTrip
    StopsAtMark
    Faithful
