\* An application whose conference was cancelled still counts as waiting.
CONSTANTS
  Muns = {alpha, beta}
SPECIFICATION Spec
INVARIANTS
  RefusedOnlyWhileReviewed
CHECK_DEADLOCK FALSE
