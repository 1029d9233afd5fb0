SPECIFICATION Spec
CONSTANTS
    o1 = o1
    o2 = o2
    o3 = o3
    o4 = o4
    None = None
    Owners <- Owners3
    Threshold = 2
    Txs = {1}
    Reqs = {1, 2, 3, 4}
    Ops = {"create", "confirm", "send"}
    AskedSeqs = {0}
    Outcomes = {"timeout"}
    IndexerLag = 0
    MaxInFlight = 1
    MaxFailures = 0
INVARIANT ExecutableIsReady
CHECK_DEADLOCK FALSE
