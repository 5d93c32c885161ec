SPECIFICATION Spec
CONSTANTS
    df = df
    ef = ef
    d = d
    c1 = c1
    c2 = c2
    textCache = textCache
    bytesCache = bytesCache
    Files = {df, ef}
    Dirs = {d}
    Under <- MCUnder
    Renamed <- MCRenamed
    Callers = {c1, c2}
    MaxVersion = 3
    Silent = {}
    Halfway = FALSE
SYMMETRY Symmetry
INVARIANT CoherentWhenQuiet
CHECK_DEADLOCK FALSE
