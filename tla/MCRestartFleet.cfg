\* Servers that also restart without permission, and a hub that crashes once.
\* PollEvery * (1 + MaxLosses) + DownTime = 3 is below MaxRestartTime.
CONSTANTS
    Server = {a, b, c}
    None = None
    RestartCooldown = 2
    QueueTimeout = 2
    MaxRestartTime = 4
    Horizon = 4
    PollEvery = 1
    DownTime = 1
    MaxLosses = 1
    MaxLives = 2
    Forced = TRUE

SPECIFICATION MCSpec

SYMMETRY Symmetric

INVARIANTS
    OneRestartAtATime
    DownHoldsSlot
