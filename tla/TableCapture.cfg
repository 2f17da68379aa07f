SPECIFICATION Spec
CONSTANTS
    Tickers <- CaptureOnly
    k1 = k1
    k2 = k2
    k3 = k3
    Keys <- SomeKeys
    Size = 4
    Hash <- SomeHash
    Nodes = {n1, n2, n3, n4}
    NULL = NULL
INVARIANTS NoFreedUse ChainsSound EachVisitedOnce ReportFits
PROPERTIES TableIsMap
SYMMETRY Symmetry
CHECK_DEADLOCK FALSE
