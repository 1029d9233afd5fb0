SPECIFICATION Spec
CONSTANTS
    o1 = o1
    o2 = o2
    o3 = o3
    o4 = o4
    None = None
    Owners <- Owners2
    Threshold = 2
    Txs = {1, 2}
    Reqs = {1, 2, 3, 4}
    Ops = {"create", "confirm", "send"}
    AskedSeqs = {0, 1}
    Outcomes = {"timeout", "included", "refused", "lost"}
    IndexerLag = 0
    MaxInFlight = 2
    MaxFailures = 0
SYMMETRY Symmetry
INVARIANTS
    RecordedIsAccepted
    ReplacedLostItsSequence
    SafeSequenceBehindChain
    StaysVisible
PROPERTY ImplementsWallet
CHECK_DEADLOCK FALSE
