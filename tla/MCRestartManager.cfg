\* Three servers that send any request at any time; a cooldown of 2, a takeover
\* after 2, and a queue timeout that outlasts two takeovers.  No symmetry, for
\* the sake of the liveness properties.
CONSTANTS
    None = None
    Server = {a, b, c}
    RestartCooldown = 2
    QueueTimeout = 5
    MaxRestartTime = 2
    Horizon = 5

SPECIFICATION PromptSpec

INVARIANTS
    Inv

PROPERTIES
    ImplementsLock
    NoOvertaking
    SlotIsNotKept
    AskingIsServed
