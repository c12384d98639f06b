CONSTANTS
  r2 = r2
  a3 = a3
  a4 = a4
  b3 = b3
  b4 = b4
  b5 = b5
  q1 = q1
  q2 = q2
  q3 = q3
  None = None
  Blocks = {r2, a3, b3, b4, b5}
  Root = r2
  pprev <- Parents
  nHeight <- Heights
  Anc <- Ancestors
  MessageThreads = {net}
  SchedulerThreads = {net}
  Quorums = {q1, q2}
  BaseHeight <- Bases
  MinedIn <- AllMinedBelow
  Superblocks = {a3}
  Signed <- BothBranches
  PeerCLSigs <- BothAggregates
  MemberOf = {}
  fMasternodeMode = FALSE
  signingActiveQuorumCount = 2
  SIGN_HEIGHT_OFFSET = 1
  dkgInterval = 8
  dkgMiningWindowStart = 1
  dkgMiningWindowEnd = 2
  RECENT_CHAINLOCKS_MAX = 1
  ATTEMPT_START = 0
  InitTips = {r2}
  InitScripts = {r2}
  Invalidatable = {b5}
  MaxSporkChanges = 2
SPECIFICATION FairSpec
INVARIANTS WinnerSlot GovernanceProvenance
PROPERTIES EnforceWithinWindow ImplementsWinner WinnerBecomesActive
