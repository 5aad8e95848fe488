SPECIFICATION FairSpec
CONSTANTS
    Clients = {c1, c2}
    c1 = c1
    c2 = c2
    Helpers = {h1, h2}
    h1 = h1
    h2 = h2
    Descs = {d1, d2, d3}
    d1 = d1
    d2 = d2
    d3 = d3
    None = None
INVARIANTS TypeOK MutualExclusion TimeoutMeansNotRun
PROPERTIES ImplementsSection HoldEnds
