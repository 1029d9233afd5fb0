SPECIFICATION Spec
CONSTANTS
    o1 = o1
    o2 = o2
    o3 = o3
    o4 = o4
    None = None
    Owners <- Owners4
    Threshold = 3
    Txs = {1, 2}
    Reqs = {1, 2, 3, 4, 5, 6}
    Ops = {"create", "confirm", "reject", "delete", "change", "send"}
    AskedSeqs = {0, 1}
    Outcomes = {"timeout", "refused"}
    IndexerLag = 1
    MaxInFlight = 1
    MaxFailures = 0
SYMMETRY Symmetry
INVARIANTS
    OneOpinionPerOwner
    CancelledIsHopeless
    SentIsNotReplaced
    AcceptedIsRecorded
    SuggestionIsFree
PROPERTIES
    SafeSequenceAdvances
    HashStays
    TagMovesWithQueue
CHECK_DEADLOCK FALSE
