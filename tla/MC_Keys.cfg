\* The first Start with a whole pair of files is refused.
SPECIFICATION Spec
CONSTANTS
  Runs = {r1, r2}
  Older = older
INVARIANTS
  PersistedServes
\* Every run may end.
CHECK_DEADLOCK FALSE
