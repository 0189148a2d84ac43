\* Three players, two of them while the owner is wedged, in a hub for five with a
\* threshold of 0.3: of 1.5 players.  The watchdog has the proportions of the
\* defaults: an interval of three timeouts, a cooldown of several intervals.
CONSTANTS
    Player = {a, b, c}
    Npc = {npc}
    MaxCount = 5
    Num = 3
    Den = 10
    AFKWarnApproaching = 1
    AFKMarkAFK = 1
    AFKFinalWarning = 2
    AFKTimeout = 3
    Spread = 1
    Condition <- MCCondition
    CheckInterval = 3
    WorldExecTimeout = 1
    AlertCooldown = 5
    FlushTime = 1
    MaxTicks = 2
    Few = 2

SPECIFICATION MCSpec

SYMMETRY Symmetric

INVARIANTS
    WedgeIsReported
    HiddenAsToggled

PROPERTIES
    CheckRelieves
    KickedWereTold
