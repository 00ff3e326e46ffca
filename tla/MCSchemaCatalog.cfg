SPECIFICATION Spec
CONSTANTS
    p1 = p1
    p2 = p2
    r1 = r1
    r2 = r2
    aws5 = aws5
    aws4 = aws4
    gcp4 = gcp4
    Processes = {p1, p2}
    Readers = {r1, r2}
    Schemas <- MCSchemas
    Wanted <- MCWanted
    Provider <- MCProvider
    Place <- MCPlace
    Pinned = {aws4}
    MaxCaptures = 2
    MaxCommands = 3
    MaxLoads = 2
INVARIANTS
    ManifestIsAudited
    IndexIsKept
    KillLeavesManifestWhole
    InvalidatedStaysGone
SYMMETRY MCSymmetry
CHECK_DEADLOCK FALSE
