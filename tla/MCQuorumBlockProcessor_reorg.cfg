CONSTANTS
  r0 = r0
  a1 = a1
  a2 = a2
  b1 = b1
  b2 = b2
  b3 = b3
  b4 = b4
  y2 = y2
  None = None
  Blocks = {r0, a1, a2, b1, b2, b3, b4, y2}
  Root = r0
  pprev <- Parents
  nHeight <- Heights
  Anc <- Ancestors
  Commitments <- TheCommitments
  qcTx <- Payloads
  Invalid = {y2}
  Mints = {a1}
  Threads = {t1}
  dkgInterval = 3
  dkgMiningWindowStart = 1
  dkgMiningWindowEnd = 2
  nNexusStartBlock = 0
  Lossy = FALSE
  MaxCrashes = 1
SPECIFICATION Spec
INVARIANTS TypeOK MinedMatchesChain SessionRules MinableResolves TemplateConnects
PROPERTIES CommitmentNotForgotten BestCommitmentKept
