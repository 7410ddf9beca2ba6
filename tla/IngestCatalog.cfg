\* Two requests at a time, never on one bundle: transactions of three statements.
CONSTANTS
    w1 = w1
    w2 = w2
    A = A
    B = B
    a1 = a1
    a2 = a2
    b1 = b1
    x1 = x1
    x2 = x2
    y1 = y1
    NoRow = NoRow
    Stub = Stub
    Nothing = Nothing
    Torn = Torn
    z = z
    Malformed = {}
    Bundle <- MCBundle
    Key <- MCKey
    Owner <- MCOwner
    Asset = {}
    Archive <- MCArchive
    BundleOf <- MCBundleOf
    Pages <- MCPages
    Refs <- MCRefs
    Rank <- MCRank
    Budget <- MCBudget
    Worker = {w1, w2}
    Ops <- AllOps
    Exclusive = TRUE
    ChunkSize = 3
    Requests = 4
    Crashes = 0
    Faults = 0
    Leaves = 0
SPECIFICATION Spec
PROPERTY IsCatalog
CHECK_DEADLOCK FALSE
