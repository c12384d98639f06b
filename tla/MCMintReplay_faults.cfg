CONSTANTS
  r0 = r0
  a1 = a1
  a2 = a2
  a3 = a3
  b1 = b1
  b2 = b2
  b3 = b3
  nt1 = nt1
  nt2 = nt2
  None = None
  Blocks = {r0, a1, a2, a3, b1}
  Root = r0
  pprev <- Parents
  nHeight <- Heights
  Anc <- Ancestors
  NEVMTxs = {nt1, nt2}
  mintTx <- Minted
  nNexusStartBlock = 2
  MaxFaults = 2
SPECIFICATION FairSpec
INVARIANTS TypeOK MarkerBarrier NoDoubleMint MarkersFollowChain RootsFollowChain
PROPERTY StartupEnds
CHECK_DEADLOCK FALSE
