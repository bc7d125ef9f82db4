SPECIFICATION FairSpec
CONSTANTS
    Consumers = {c1, c2}
    Jobs = {j1, j2}
    edge = edge
    gtts = gtts
    EdgeKeys <- MCEdgeKeys
    GttsKeys <- MCGttsKeys
    Requests <- MCRequests
    Slots = 1
    PrefetchSlots = 1
    NoJob = NoJob
INVARIANTS OthersUndisturbed OneSynthesisPerText SlotsAccounted
PROPERTIES SynthesesEnd
