SPECIFICATION Spec
CONSTANTS
    o1 = o1
    o2 = o2
    o3 = o3
    o4 = o4
    None = None
    Owners <- Owners2
    Threshold = 1
    Txs = {1}
    Reqs = {1, 2}
    Ops = {"create", "send"}
    AskedSeqs = {0}
    Outcomes = {"timeout", "included"}
    IndexerLag = 0
    MaxInFlight = 1
    MaxFailures = 0
INVARIANT AcceptedIsRecorded
CHECK_DEADLOCK FALSE
