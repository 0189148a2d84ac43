\* Two workers and an account that changes once; no symmetry, for the sake of
\* the liveness property.  The clock, the changes and the shutdown end.
CONSTANTS
    Worker = {w1, w2}
    Account <- MCAccount
    MaxRetries = 1
    Capacity = 2
    Cooldown = 1
    MaxTime = 1
    MaxChanges = 1

SPECIFICATION RankFairSpec

CHECK_DEADLOCK FALSE

INVARIANTS
    RestIsTrue

PROPERTIES
    LoadsEnd
