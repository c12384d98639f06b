CONSTANTS
    m1 = m1
    m2 = m2
    f = f
    Members = {m1, m2, f}
    Faulty = {f}
    MinSize = 2
    BadVotes = 2
    Topologies <- MCTopologies
    MaxLate = 1
    Further = {{m1, m2}}

SPECIFICATION Spec

INVARIANTS
    TypeOK
    FinalAgreement
    SignersHoldShares
    HonestKept
    RoundSucceeds
