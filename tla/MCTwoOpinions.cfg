SPECIFICATION Spec
CONSTANTS
    o1 = o1
    o2 = o2
    o3 = o3
    o4 = o4
    None = None
    Owners <- Owners2
    Threshold = 2
    Txs = {1}
    Reqs = {1, 2, 3}
    Ops = {"create", "confirm", "reject"}
    AskedSeqs = {0}
    Outcomes = {}
    IndexerLag = 0
    MaxInFlight = 2
    MaxFailures = 0
INVARIANT OneOpinionPerOwner
CHECK_DEADLOCK FALSE
