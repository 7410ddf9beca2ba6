\* Uploads and re-ingests, with a fault and a client that leaves.
CONSTANTS
    w1 = w1
    w2 = w2
    A = A
    B = B
    a1 = a1
    a2 = a2
    b1 = b1
    x1 = x1
    x2 = x2
    y1 = y1
    NoRow = NoRow
    Stub = Stub
    Nothing = Nothing
    Torn = Torn
    z = z
    Malformed = {}
    Bundle <- MCBundle
    Key <- MCKey
    Owner <- MCOwner
    Asset = {}
    Archive <- MCArchive
    BundleOf <- MCBundleOf
    Pages <- MCPages
    Refs <- MCRefs
    Rank <- MCRank
    Budget <- MCBudget
    Worker = {w1, w2}
    Ops = {"put", "reingest"}
    Exclusive = TRUE
    ChunkSize = 100
    Requests = 3
    Crashes = 0
    Faults = 1
    Leaves = 1
SPECIFICATION FairSpec
INVARIANT NoMissingLinks
PROPERTY EveryRequestEnds
CHECK_DEADLOCK FALSE
