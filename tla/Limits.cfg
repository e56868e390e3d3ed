SPECIFICATION Spec
CONSTANTS
  W = 3
  Layers = 2
  Overhead = 2
  NoQuota = NoQuota
INVARIANTS QuotaExact
PROPERTIES StatsExact
