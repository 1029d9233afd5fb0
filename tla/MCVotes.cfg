SPECIFICATION FairSpec
CONSTANTS
    o1 = o1
    o2 = o2
    o3 = o3
    o4 = o4
    None = None
    Owners <- Owners2
    Threshold = 2
    Txs = {1}
    Reqs = {1, 2, 3, 4}
    Ops = {"create", "confirm", "reject", "delete", "change"}
    AskedSeqs = {0}
    Outcomes = {}
    IndexerLag = 0
    MaxInFlight = 2
    MaxFailures = 1
INVARIANTS
    TypeOK
    ExecutableHasThreshold
    NoLostThreshold
PROPERTY ThresholdIsNoticed
CHECK_DEADLOCK FALSE
