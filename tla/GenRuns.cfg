\* Two runs with one unusual option, a step that raises and a complaint, and an
\* accident.
CONSTANTS
    m = m
    f = f
    nosuch = nosuch
    d = d
    x = x
    E = E
    F = F
    Name = {m, f, nosuch}
    Object = {m, f}
    Module = {m}
    Doc = {d}
    Script = {x}
    Error = {E, F}
    Manifest = Manifest
    None = None
    Torn = Torn
    Expected <- MCExpected
    Gating <- MCGating
    Flags <- MCFlags
    Source <- MCSource
    FlagTrouble = 1
    MaxRuns = 2
    MaxAccidents = 1
SPECIFICATION Spec
INVARIANT CollectedIsWhatSucceeds
INVARIANT StrictRunIsClean
INVARIANT GateHolds
INVARIANT ArtifactIsOneRun
INVARIANT AbortKeepsBundle
CHECK_DEADLOCK FALSE
