SPECIFICATION Spec
CONSTANTS
    Datagrams = {d1, d2, d3}
    MaxArrivals = 1
PROPERTIES AcceptedAnswered ClosedUnlessReading
CHECK_DEADLOCK FALSE
