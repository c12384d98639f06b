SPECIFICATION FairSpec
CONSTANTS
    r1 = r1
    x1 = x1
    i1 = i1
    RecSigs = {r1, x1}
    Ids = {i1}
    IdOf <- MCIdOf
    Forged = {x1}
    Unsound = {}
    NoSig = NoSig
    Nodes = {n1}
    Callers = {c1}
    Worker = w
    MaxAge = 0
    CleanupGap = 1
    MaxTime = 1
    MaxBatch = 2
    MaxRemovals = 1
    MaxCrashes = 1
INVARIANTS
    KeysMatchRecords
    VerifiedOnly
    KnownIsTold
PROPERTIES
    NeverDropped
    ReconstructedIsTold
