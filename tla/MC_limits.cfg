\* Room for a bucket between two others, and one key more; time for two refills
\* and for a call that waits as long as a refill takes.
SPECIFICATION LogSpec
CONSTANTS
  Callers = {c1, c2}
  Keys = {k1, k2, k3, k4}
  nil = nil
  maxItemCount = 3
  maxTokenCount = 1
  refillInterval = 2
  MaxTime = 4
  MaxDelay = 2
SYMMETRY Symmetry
INVARIANTS TypeOK ListOK WindowLimit
PROPERTIES KeepsRecency DeniedOnlyAfterUse
