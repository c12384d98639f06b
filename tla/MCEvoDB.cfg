\* A bounded write cache with a read cache, as CDeterministicMNManager uses it.
SPECIFICATION Spec
CONSTANTS
  Keys = {k1, k2, k3}
  Values = {v1, v2}
  NoValue = NoValue
  maxCacheSize = 2
  ReadCacheSizes = {1}
  CHUNK_ITEMS = 1
INVARIANTS CachesOK ReadsSeeErasures
PROPERTY ImplementsStore
