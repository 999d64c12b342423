SPECIFICATION Spec
CONSTANTS
  Keys = {k1, k2, k3}
  Overflow = Overflow
  max_attempts = 2
  window_seconds = 2
  max_keys = 3
  TicksPerSecond = 2
  MaxNow = 6
SYMMETRY Symmetry
INVARIANTS MemoryBounded WindowsBounded RetryAfterSuffices
