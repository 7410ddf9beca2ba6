\* Two runs of `papyri upload' at one time, and what their exit status means.
SPECIFICATION FairSpec
CONSTANTS
    r1 = r1
    r2 = r2
    A = A
    B = B
    a1 = a1
    a2 = a2
    b1 = b1
    bad = bad
    Run = {r1, r2}
    Bundle = {A, B}
    Artifact = {a1, a2, b1}
    Unloadable = {bad}
    Nothing = Nothing
    BundleOf <- MCBundleOf
    Lists <- MCLists
    MaxTrouble = 1
INVARIANTS
    TypeOK
    ExitZeroIsStored
    LastPathIsServed
PROPERTY
    RunsEnd
CHECK_DEADLOCK FALSE
