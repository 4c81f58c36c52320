\* A probe or a bufferbloat test over a network that loses, delays and doubles.
SPECIFICATION Spec
CONSTANTS
    Packets = 3
    Rtts = {2, 40}
    Workers = {w1, w2}
    Faults = {"socket", "send", "lose", "late", "duplicate"}
INVARIANTS
    SampleIsItsEcho
    ReportIsOfTheProbe
    GoodGradeIsMeasured
    LoadEndsWithTest
PROPERTY
    EverythingEnds
CHECK_DEADLOCK FALSE
