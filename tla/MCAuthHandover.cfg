\* Two requests at a time for one player; tokens that live as long as a
\* cleanup interval, as in the code.
CONSTANTS
    Player = {p1, p2}
    Nobody = Nobody
    Handler = {h1, h2}
    RankValue = {0, 17}
    HeadModerator = 17
    Duration = 2
    CleanupInterval = 2
    MaxTime = 5
SPECIFICATION Spec
SYMMETRY Symmetric
INVARIANTS
    TokensAreForgotten
PROPERTIES
    AdmittedAfterTransfer
    RefusedOnlyIfRaced
