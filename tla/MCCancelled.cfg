SPECIFICATION Spec
CONSTANTS
    o1 = o1
    o2 = o2
    o3 = o3
    o4 = o4
    None = None
    Owners <- Owners4
    Threshold = 3
    Txs = {1}
    Reqs = {1, 2, 3}
    Ops = {"create", "reject"}
    AskedSeqs = {0}
    Outcomes = {}
    IndexerLag = 0
    MaxInFlight = 1
    MaxFailures = 0
SYMMETRY Symmetry
INVARIANT CancelledByMajority
CHECK_DEADLOCK FALSE
