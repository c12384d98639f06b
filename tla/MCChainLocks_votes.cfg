CONSTANTS
  r2 = r2
  a3 = a3
  a4 = a4
  b3 = b3
  b4 = b4
  b5 = b5
  q1 = q1
  q2 = q2
  q3 = q3
  None = None
  Blocks = {r2, a3, a4, b3}
  Root = r2
  pprev <- Parents
  nHeight <- Heights
  Anc <- Ancestors
  MessageThreads = {net}
  SchedulerThreads = {cl}
  Quorums = {q1, q2}
  BaseHeight <- Bases
  MinedIn <- AllMinedBelow
  Superblocks = {}
  Signed <- OnlyB
  PeerCLSigs <- PreviousQuorum
  MemberOf = {q1}
  fMasternodeMode = TRUE
  signingActiveQuorumCount = 2
  SIGN_HEIGHT_OFFSET = 1
  dkgInterval = 8
  dkgMiningWindowStart = 1
  dkgMiningWindowEnd = 2
  RECENT_CHAINLOCKS_MAX = 1
  ATTEMPT_START = 0
  InitTips = {a4}
  InitScripts = {r2, a3, a4, b3}
  Invalidatable = {}
  MaxSporkChanges = 0
SPECIFICATION Spec
INVARIANTS OneVotePerRequest
