CONSTANTS
  Threads = 2
  Windows = {w1, w2}
  Meshes = {m1, m2}
  Retries = TRUE
  MaxFailures = 2
SPECIFICATION Spec
INVARIANT ExpectsHold
