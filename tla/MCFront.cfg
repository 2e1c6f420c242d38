SPECIFICATION SpecFront
CONSTANTS
    v1 = v1
    v2 = v2
    p1 = p1
    p2 = p2
    Invalid = Invalid
    Junk = Junk
    Visitor <- MCVisitor
    Proxy <- MCProxy
    Addr <- MCAddr
    Paths <- MCPaths
    Headers <- MCHeaders
    RealIPs <- MCRealIPs
    Sources <- MCSources
    Stream = {s1, s2, s3}
    PerIP = 1
    Total = 2
SYMMETRY Symmetry
INVARIANTS WithinLimits SlotsAreOwn ClientWithinLimit OnlyBareApiIsAPage
PROPERTY Refinement
