CONSTANTS
  r0 = r0
  a1 = a1
  a2 = a2
  a3 = a3
  c2 = c2
  None = None
  Blocks = {r0, a1, a2, a3, c2}
  Root = r0
  pprev <- Parents
  nHeight <- Heights
  nChainWork <- Heights
  Anc <- Ancestors
  Address <- Addresses
  Malformed = {}
  Unconnectable = {a3}
  MaxCalls = 2
SPECIFICATION FairSpec
INVARIANTS FlagsRight CandidatesRight RestsOnBest
PROPERTIES LockedStaysActive SettlesOnBest
CHECK_DEADLOCK FALSE
