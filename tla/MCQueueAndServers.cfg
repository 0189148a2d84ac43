\* Three players and two servers with one free and one reserved slot; every
\* player may ask again, and the second ping failure assumes offline.
CONSTANTS
    Player = {p1, p2, p3}
    Target = {s1, s2}
    RankValue = {0, 18}
    Admin = 18
    MaxPlayerCount = 2
    Reserved = 1
    MaxRetries = 1
    MaxPings = 2
    BatchSize = 2
    MaxJoins = 3
    Few = 1

SPECIFICATION MCSpec

SYMMETRY Symmetric

INVARIANTS
    LineIsSound
    BossBarsAreFresh
    OnlineIsRecent
    KeepsItsPlace

PROPERTIES
    BestIsServed
